---------------------------- MODULE JobQueueProofs ----------------------------
(***************************************************************************)
(* Theorems about JobQueue, for any number of jobs, experiments, attempts, *)
(* restarts and crashes, and whatever users and the world do: the types,   *)
(* the single build slot, and what no write of the queue file may lose.    *)
(*                                                                         *)
(* They follow from one inductive invariant, QueueInv.  Its heart is what  *)
(* the loop's snapshot tells of the queue file: a row nobody wrote since   *)
(* the snapshot is as it was then, and the pass made only edits of it that *)
(* keep its experiments.                                                   *)
(***************************************************************************)
EXTENDS JobQueue, FiniteSetTheorems, WellFoundedInduction, SequenceTheorems, TLAPS

-----------------------------------------------------------------------------
(* The operations on a row.                                                *)

\* r is a row with the run and the submissions of `row`.
Keeps(row, r) ==
  /\ r \in Row
  /\ r.run = row.run
  /\ r.submissions = row.submissions

\* What setting the fields of a row that are not its run or its submissions does.
LEMMA SetState ==
  ASSUME NEW row \in Row, NEW s \in JobState, NEW r, r = [row EXCEPT !.state = s]
  PROVE  Keeps(row, r) /\ r.state = s
BY Zenon DEF Row, Keeps

\* The same of a state and the attempts.
LEMMA SetStateAttempts ==
  ASSUME NEW row \in Row, NEW s \in JobState, NEW n \in Nat, NEW r,
          r = [row EXCEPT !.state = s, !.attempts = n]
  PROVE  Keeps(row, r) /\ r.state = s
BY Zenon DEF Row, Keeps

\* The same of a state and its stamp.
LEMMA SetStateStamped ==
  ASSUME NEW row \in Row, NEW s \in JobState, NEW b \in BOOLEAN, NEW r,
          r = [row EXCEPT !.state = s, !.stamped = b]
  PROVE  Keeps(row, r) /\ r.state = s
BY Zenon DEF Row, Keeps

\* The same of the fields a re-route sets.
LEMMA SetMoved ==
  ASSUME NEW row \in Row, NEW s \in JobState, NEW n \in 0..CnsReadMax, NEW r,
          r = [row EXCEPT !.state = s, !.stamped = FALSE, !.unread = n]
  PROVE  Keeps(row, r) /\ r.state = s
BY Zenon DEF Row, Keeps

\* The same of the count of failed reads.
LEMMA SetUnread ==
  ASSUME NEW row \in Row, NEW n \in 0..CnsReadMax, NEW r, r = [row EXCEPT !.unread = n]
  PROVE  Keeps(row, r) /\ r.state = row.state
BY Zenon DEF Row, Keeps

\* The same of the count of resumes.
LEMMA SetResumes ==
  ASSUME NEW row \in Row, NEW n \in 0..MaxAutoResumes, NEW r, r = [row EXCEPT !.resumes = n]
  PROVE  Keeps(row, r) /\ r.state = row.state
BY Zenon DEF Row, Keeps

\* The places of the submissions of a row.
Steps(row) == 1..Len(row.submissions)

\* The newest submission is one of the row.
LEMMA NewestIs ==
  ASSUME NEW row \in Row, row.submissions # <<>>
  PROVE  /\ Len(row.submissions) \in Steps(row) /\ Newest(row) \in Submission
         /\ Newest(row).xid \in AllXids(row)
BY DEF Row, Newest, AllXids, Steps

\* Resolve gives the newest submission a state, if it is live, and changes nothing else.
LEMMA ResolveIs ==
  ASSUME NEW row \in Row, NEW s \in SubLive \cup SubEnded
  PROVE  LET r == Resolve(row, s) IN
         /\ r \in Row /\ r.run = row.run /\ r.state = row.state /\ r.stamped = row.stamped
         /\ r.attempts = row.attempts /\ r.resumes = row.resumes /\ r.unread = row.unread
         /\ Len(r.submissions) = Len(row.submissions)
         /\ \A i \in Steps(row) : /\ r.submissions[i].xid = row.submissions[i].xid
                                  /\ i < Len(row.submissions) =>
                                          r.submissions[i] = row.submissions[i]
         /\ HasLive(row) => Newest(r).state = s
         /\ ~HasLive(row) => r = row
<1> DEFINE r == Resolve(row, s)
           q == row.submissions
           n == Len(q)
           e == [q[n] EXCEPT !.state = s]
           p == [q EXCEPT ![n] = e]
<1>1. CASE ~HasLive(row)
  <2>1. r = row
    BY <1>1 DEF Resolve
  <2> QED BY <1>1, <2>1
<1>2. CASE HasLive(row)
  <2>1. q \in Seq(Submission) /\ n \in 1..n /\ q[n] \in Submission
    BY <1>2, NewestIs DEF HasLive, Newest, Row, Steps
  <2>2. e \in Submission /\ e.xid = q[n].xid /\ e.state = s
    BY <2>1 DEF Submission
  <2>3. r = [row EXCEPT !.submissions = p]
    BY <1>2, Zenon DEF Resolve
  <2> HIDE DEF e
  <2>4. /\ p \in Seq(Submission) /\ Len(p) = n
        /\ \A i \in 1..n : p[i] = IF i = n THEN e ELSE q[i]
    BY <2>1, <2>2
  <2> HIDE DEF p
  <2>5. /\ r \in Row /\ r.run = row.run /\ r.state = row.state /\ r.stamped = row.stamped
        /\ r.attempts = row.attempts /\ r.resumes = row.resumes /\ r.unread = row.unread
        /\ r.submissions = p
    BY <2>3, <2>4, Zenon DEF Row
  <2> QED BY <1>2, <2>1, <2>2, <2>4, <2>5 DEF Steps, Newest
<1> QED BY <1>1, <1>2

\* Opened adds a submission and keeps the experiments of the others.
LEMMA OpenedIs ==
  ASSUME NEW row \in Row, NEW x \in Xids, NEW s \in SubLive
  PROVE  LET r == Opened(row, x, s) IN
         /\ r \in Row /\ r.run = row.run /\ r.state = row.state /\ r.attempts = row.attempts
         /\ r.resumes = row.resumes
         /\ Len(r.submissions) = Len(row.submissions) + 1
         /\ \A i \in Steps(row) : r.submissions[i].xid = row.submissions[i].xid
         /\ Newest(r) = [xid |-> x, state |-> s]
<1> DEFINE t == Supersede(row)
           e == [xid |-> x, state |-> s]
           p == Append(t.submissions, e)
           r == Opened(row, x, s)
<1>1. /\ t \in Row /\ t.run = row.run /\ t.state = row.state /\ t.attempts = row.attempts
      /\ t.resumes = row.resumes
      /\ Len(t.submissions) = Len(row.submissions)
      /\ \A i \in Steps(row) : t.submissions[i].xid = row.submissions[i].xid
  BY ResolveIs DEF Supersede, SubEnded
<1>2. r = [t EXCEPT !.submissions = p]
  BY Zenon DEF Opened
<1>3. e \in Submission
  BY DEF Submission
<1> HIDE DEF t, e
<1>4. t.submissions \in Seq(Submission)
  BY <1>1 DEF Row
<1>5. /\ p \in Seq(Submission) /\ Len(p) = Len(t.submissions) + 1
      /\ \A i \in 1..Len(t.submissions) : p[i] = t.submissions[i]
      /\ p[Len(p)] = e
  BY <1>3, <1>4
<1> HIDE DEF p
<1>6. /\ r \in Row /\ r.run = t.run /\ r.state = t.state /\ r.attempts = t.attempts
      /\ r.resumes = t.resumes /\ r.submissions = p
  BY <1>1, <1>2, <1>5, Zenon DEF Row
<1> HIDE DEF r
<1>7. r.submissions[Len(r.submissions)] = e /\ Len(p) = Len(row.submissions) + 1
  BY <1>1, <1>5, <1>6
<1>8. \A i \in Steps(row) : r.submissions[i].xid = row.submissions[i].xid
  BY <1>1, <1>5, <1>6 DEF Steps
<1> QED BY <1>1, <1>6, <1>7, <1>8 DEF r, e, Newest

\* A row that keeps the experiments of its submissions, and may add some, keeps its experiments.
LEMMA XidsOfLonger ==
  ASSUME NEW row, NEW r, row.submissions \in Seq(Submission), r.submissions \in Seq(Submission),
         Len(row.submissions) <= Len(r.submissions),
         \A i \in Steps(row) : r.submissions[i].xid = row.submissions[i].xid
  PROVE  AllXids(row) \subseteq AllXids(r)
<1> SUFFICES ASSUME NEW x \in AllXids(row) PROVE x \in AllXids(r)
  OBVIOUS
<1>1. PICK i \in Steps(row) : x = row.submissions[i].xid
  BY DEF AllXids, Steps
<1>2. i \in 1..Len(r.submissions) /\ x = r.submissions[i].xid
  BY <1>1 DEF Steps
<1> QED BY <1>2 DEF AllXids

\* r is `row` after an edit that loses no experiment, keeps the run and claims no build.
Edits(row, r) ==
  /\ r \in Row /\ AllXids(row) \subseteq AllXids(r)
  /\ r.run = row.run
  /\ r.state = "BUILDING" => row.state = "BUILDING"

\* Setting other fields is such an edit, unless it sets the state to BUILDING.
LEMMA KeepsEdits ==
  ASSUME NEW row \in Row, NEW r, Keeps(row, r), r.state = row.state \/ r.state # "BUILDING"
  PROVE  Edits(row, r)
BY DEF Keeps, Edits, AllXids

\* Two edits make one.
LEMMA EditsChain ==
  ASSUME NEW row, NEW r, NEW t, Edits(row, r), Edits(r, t)
  PROVE  Edits(row, t)
BY DEF Edits

\* Resolve is an edit.
LEMMA ResolveEdits ==
  ASSUME NEW row \in Row, NEW s \in SubLive \cup SubEnded
  PROVE  Edits(row, Resolve(row, s))
<1> DEFINE r == Resolve(row, s)
<1>1. /\ r \in Row /\ r.run = row.run /\ r.state = row.state
      /\ Len(r.submissions) = Len(row.submissions)
      /\ \A i \in Steps(row) : r.submissions[i].xid = row.submissions[i].xid
  BY ResolveIs
<1> HIDE DEF r
<1>2. row.submissions \in Seq(Submission) /\ r.submissions \in Seq(Submission)
  BY <1>1 DEF Row
<1>3. AllXids(row) \subseteq AllXids(r)
  BY <1>1, <1>2, XidsOfLonger
<1> QED BY <1>1, <1>3 DEF Edits, r

\* Opened is an edit.
LEMMA OpenedEdits ==
  ASSUME NEW row \in Row, NEW x \in Xids, NEW s \in SubLive
  PROVE  Edits(row, Opened(row, x, s))
<1> DEFINE r == Opened(row, x, s)
<1>1. /\ r \in Row /\ r.run = row.run /\ r.state = row.state
      /\ Len(r.submissions) = Len(row.submissions) + 1
      /\ \A i \in Steps(row) : r.submissions[i].xid = row.submissions[i].xid
  BY OpenedIs
<1> HIDE DEF r
<1>2. row.submissions \in Seq(Submission) /\ r.submissions \in Seq(Submission)
  BY <1>1 DEF Row
<1>3. AllXids(row) \subseteq AllXids(r)
  BY <1>1, <1>2, XidsOfLonger
<1> QED BY <1>1, <1>3 DEF Edits, r

\* The states a verdict of the reconcile pass may set.
Verdicts == {"DONE", "FAILED", "RUNNING"}

\* A capped count stays within its limit.
LEMMA CappedIs ==
  ASSUME NEW n \in Nat, NEW limit \in Nat
  PROVE  Capped(n, limit) \in 0..limit
BY DEF Capped

\* The operations on a row that only set its fields are edits, and a reclaim leaves none BUILDING.
LEMMA RowOps ==
  ASSUME NEW row \in Row
  PROVE  /\ Edits(row, row)
         /\ Edits(row, Hold(row)) /\ Edits(row, Requeue(row)) /\ Edits(row, RequeueHeld(row))
         /\ Edits(row, Reclaim(row)) /\ Reclaim(row).state # "BUILDING"
         /\ Edits(row, [row EXCEPT !.state = "BUILD_REQUESTED"])
         /\ Edits(row, [row EXCEPT !.state = "BUDGET_DEFERRED"])
         /\ Edits(row, Unreadable(row)) /\ Edits(row, [row EXCEPT !.unread = 0])
         /\ Edits(row, WarmInPlace(row))
<1>1. /\ row.attempts \in Nat /\ row.attempts + 1 \in Nat /\ 0 \in Nat
      /\ row.unread + 1 \in Nat /\ row.resumes + 1 \in Nat
      /\ CnsReadMax \in Nat /\ MaxAutoResumes \in Nat /\ 0 \in 0..CnsReadMax
  BY RowConstantsOK DEF Row
<1>2. /\ Edits(row, row)
  BY DEF Edits
<1>3. Edits(row, Hold(row)) /\ Edits(row, Requeue(row))
  <2>1. "HELD" \in JobState /\ "QUEUED" \in JobState
    BY DEF JobState
  <2>2. Keeps(row, Hold(row)) /\ Hold(row).state = "HELD"
    BY <2>1, SetState DEF Hold
  <2>3. Keeps(row, Requeue(row)) /\ Requeue(row).state = "QUEUED"
    BY <2>1, SetState DEF Requeue
  <2> QED BY <2>2, <2>3, KeepsEdits
<1>4. Edits(row, RequeueHeld(row))
  <2>1. "QUEUED" \in JobState /\ 0 \in Nat
    BY DEF JobState
  <2> DEFINE n == 0
  <2>2. RequeueHeld(row) = [row EXCEPT !.state = "QUEUED", !.attempts = n]
    BY DEF RequeueHeld
  <2>3. n \in Nat
    OBVIOUS
  <2> HIDE DEF n
  <2>4. Keeps(row, RequeueHeld(row)) /\ RequeueHeld(row).state = "QUEUED"
    BY <2>1, <2>2, <2>3, SetStateAttempts, Zenon
  <2> QED BY <2>4, KeepsEdits
<1>5. Edits(row, Reclaim(row)) /\ Reclaim(row).state # "BUILDING"
  <2>1. CASE row.state # "BUILDING"
    BY <1>2, <2>1 DEF Reclaim
  <2>2. CASE row.state = "BUILDING" /\ HasLive(row)
    <3>1. Reclaim(row) = [row EXCEPT !.state = "SUBMITTED", !.stamped = TRUE]
      BY <2>2 DEF Reclaim
    <3>2. "SUBMITTED" \in JobState /\ TRUE \in BOOLEAN
      BY DEF JobState
    <3>3. Keeps(row, Reclaim(row)) /\ Reclaim(row).state = "SUBMITTED"
      BY <3>1, <3>2, SetStateStamped, Zenon
    <3> QED BY <3>3, KeepsEdits
  <2>3. CASE row.state = "BUILDING" /\ ~HasLive(row)
    <3> DEFINE n == row.attempts + 1
    <3>1. Reclaim(row) = [row EXCEPT !.state = "QUEUED", !.attempts = n]
      BY <2>3 DEF Reclaim
    <3>2. n \in Nat
      BY <1>1
    <3> HIDE DEF n
    <3>3. "QUEUED" \in JobState
      BY DEF JobState
    <3>4. Keeps(row, Reclaim(row)) /\ Reclaim(row).state = "QUEUED"
      BY <3>1, <3>2, <3>3, SetStateAttempts, Zenon
    <3> QED BY <3>4, KeepsEdits
  <2> QED BY <2>1, <2>2, <2>3
<1>6. /\ Edits(row, [row EXCEPT !.state = "BUILD_REQUESTED"])
      /\ Edits(row, [row EXCEPT !.state = "BUDGET_DEFERRED"])
  <2> DEFINE a == [row EXCEPT !.state = "BUILD_REQUESTED"]
             b == [row EXCEPT !.state = "BUDGET_DEFERRED"]
  <2>1. "BUILD_REQUESTED" \in JobState /\ "BUDGET_DEFERRED" \in JobState
    BY DEF JobState
  <2>2. Keeps(row, a) /\ a.state = "BUILD_REQUESTED"
    BY <2>1, SetState, Zenon
  <2>3. Keeps(row, b) /\ b.state = "BUDGET_DEFERRED"
    BY <2>1, SetState, Zenon
  <2> HIDE DEF a, b
  <2>4. Edits(row, a) /\ Edits(row, b)
    BY <2>2, <2>3, KeepsEdits
  <2> QED BY <2>4 DEF a, b
<1>7. Edits(row, Unreadable(row)) /\ Edits(row, [row EXCEPT !.unread = 0])
  <2> DEFINE n == Capped(row.unread + 1, CnsReadMax)
  <2>1. n \in 0..CnsReadMax
    BY <1>1, CappedIs
  <2>2. Unreadable(row) = [row EXCEPT !.unread = n]
    BY DEF Unreadable
  <2> HIDE DEF n
  <2> DEFINE z == [row EXCEPT !.unread = 0]
  <2>3. Keeps(row, Unreadable(row)) /\ Unreadable(row).state = row.state
    BY <2>1, <2>2, SetUnread, Zenon
  <2>4. Keeps(row, z) /\ z.state = row.state
    BY <1>1, SetUnread, Zenon
  <2> HIDE DEF z
  <2>5. Edits(row, Unreadable(row)) /\ Edits(row, z)
    BY <2>3, <2>4, KeepsEdits
  <2> QED BY <2>5 DEF z
<1>8. Edits(row, WarmInPlace(row))
  <2> DEFINE n == Capped(row.resumes + 1, MaxAutoResumes)
  <2>1. n \in 0..MaxAutoResumes
    BY <1>1, CappedIs
  <2>2. WarmInPlace(row) = [row EXCEPT !.resumes = n]
    BY DEF WarmInPlace
  <2> HIDE DEF n
  <2>3. Keeps(row, WarmInPlace(row)) /\ WarmInPlace(row).state = row.state
    BY <2>1, <2>2, SetResumes, Zenon
  <2> QED BY <2>3, KeepsEdits
<1> QED BY <1>2, <1>3, <1>4, <1>5, <1>6, <1>7, <1>8

\* A verdict is an edit.
LEMMA BecomeEdits ==
  ASSUME NEW row \in Row, NEW s \in Verdicts
  PROVE  Edits(row, Become(row, s)) /\ Become(row, s).state = s
<1> DEFINE t == Resolve(row, s)
<1>1. Edits(row, t) /\ t \in Row
  BY ResolveEdits DEF Verdicts, SubLive, SubEnded, Edits
<1>2. Become(row, s) = [t EXCEPT !.state = s]
  BY DEF Become
<1>3. s \in JobState /\ s # "BUILDING"
  BY DEF Verdicts, JobState
<1> HIDE DEF t
<1>4. Keeps(t, Become(row, s)) /\ Become(row, s).state = s
  BY <1>1, <1>2, <1>3, SetState, Zenon
<1>5. Edits(t, Become(row, s))
  BY <1>1, <1>3, <1>4, KeepsEdits
<1> QED BY <1>1, <1>5, <1>4, EditsChain

\* mark_cancelled is an edit.
LEMMA CancelledEdits ==
  ASSUME NEW row \in Row
  PROVE  Edits(row, MarkCancelled(row)) /\ MarkCancelled(row).state = "FAILED"
<1> DEFINE t == Resolve(row, "CANCELLED")
<1>1. Edits(row, t) /\ t \in Row
  BY ResolveEdits DEF SubLive, SubEnded, Edits
<1>2. MarkCancelled(row) = [t EXCEPT !.state = "FAILED"]
  BY DEF MarkCancelled
<1> HIDE DEF t
<1>3. "FAILED" \in JobState
  BY DEF JobState
<1>4. Keeps(t, MarkCancelled(row)) /\ MarkCancelled(row).state = "FAILED"
  BY <1>1, <1>2, <1>3, SetState, Zenon
<1>5. Edits(t, MarkCancelled(row))
  BY <1>1, <1>4, KeepsEdits
<1> QED BY <1>1, <1>4, <1>5, EditsChain

\* mark_reroute is an edit.
LEMMA RerouteEdits ==
  ASSUME NEW row \in Row
  PROVE  Edits(row, MarkReroute(row)) /\ MarkReroute(row).state = "QUEUED"
<1> DEFINE t == Supersede(row)
<1>1. Edits(row, t) /\ t \in Row
  BY ResolveEdits DEF Supersede, SubEnded, Edits
<1>2. MarkReroute(row) = [t EXCEPT !.state = "QUEUED", !.stamped = FALSE, !.unread = 0]
  BY DEF MarkReroute
<1> HIDE DEF t
<1>3. "QUEUED" \in JobState /\ 0 \in 0..CnsReadMax
  BY RowConstantsOK DEF JobState
<1>4. Keeps(t, MarkReroute(row)) /\ MarkReroute(row).state = "QUEUED"
  BY <1>1, <1>2, <1>3, SetMoved, Zenon
<1>5. Edits(t, MarkReroute(row))
  BY <1>1, <1>4, KeepsEdits
<1> QED BY <1>1, <1>4, <1>5, EditsChain

\* Binding an experiment to a row, early, when launched, or when found again, is an edit.
LEMMA BindEdits ==
  ASSUME NEW row \in Row, NEW x \in Xids
  PROVE  /\ Edits(row, OpenCreating(row, x))
         /\ Edits(row, ApplyPlacement(row, x)) /\ ApplyPlacement(row, x).state = "SUBMITTED"
         /\ Edits(row, AdoptRecovered(row, x)) /\ AdoptRecovered(row, x).state = "SUBMITTED"
<1>1. Edits(row, OpenCreating(row, x))
  BY OpenedEdits DEF OpenCreating, SubLive
<1>2. ASSUME NEW t, Edits(row, t)
      PROVE  LET r == [t EXCEPT !.state = "SUBMITTED", !.stamped = TRUE] IN
             Edits(row, r) /\ r.state = "SUBMITTED"
  <2> DEFINE r == [t EXCEPT !.state = "SUBMITTED", !.stamped = TRUE]
  <2>1. t \in Row
    BY <1>2 DEF Edits
  <2>2. Keeps(t, r) /\ r.state = "SUBMITTED"
    <3>1. "SUBMITTED" \in JobState /\ TRUE \in BOOLEAN
      BY DEF JobState
    <3> QED BY <2>1, <3>1, SetStateStamped, ZenonT(40)
  <2> HIDE DEF r
  <2>3. Edits(t, r)
    BY <2>1, <2>2, KeepsEdits
  <2>4. Edits(row, r) /\ r.state = "SUBMITTED"
    BY <1>2, <2>2, <2>3, EditsChain
  <2> QED BY <2>4 DEF r
<1>3. Edits(row, AdoptRecovered(row, x)) /\ AdoptRecovered(row, x).state = "SUBMITTED"
  BY <1>1, <1>2 DEF AdoptRecovered
<1>4. Edits(row, ApplyPlacement(row, x)) /\ ApplyPlacement(row, x).state = "SUBMITTED"
  <2> DEFINE placed == IF HasLive(row) /\ Newest(row).xid = x
                       THEN Resolve(row, "SUBMITTED") ELSE Opened(row, x, "SUBMITTED")
  <2>1. Edits(row, placed)
    BY ResolveEdits, OpenedEdits DEF SubLive
  <2>2. ApplyPlacement(row, x) = [placed EXCEPT !.state = "SUBMITTED", !.stamped = TRUE]
    BY DEF ApplyPlacement
  <2> HIDE DEF placed
  <2> QED BY <1>2, <2>1, <2>2
<1> QED BY <1>1, <1>3, <1>4

\* An enqueued row is one.
LEMMA NewRowIs ==
  ASSUME NEW j \in Ids
  PROVE  NewRow(j) \in Row /\ NewRow(j).state = "QUEUED" /\ NewRow(j).run = j
<1>1. 0 \in 0..MaxAutoResumes /\ 0 \in 0..CnsReadMax /\ 0 \in Nat /\ << >> \in Seq(Submission)
  BY RowConstantsOK
<1>2. "QUEUED" \in JobState
  BY DEF JobState
<1> QED BY <1>1, <1>2, Zenon DEF NewRow, Row

\* A restarted row is one, of the same run, with all it was restarted from superseded.
LEMMA RestartedIs ==
  ASSUME NEW row \in Row, row.resumes < MaxAutoResumes
  PROVE  Restarted(row) \in Row /\ Restarted(row).state = "QUEUED" /\ Restarted(row).run = row.run
         /\ Restarted(row).attempts = 0 /\ Restarted(row).submissions =
              [i \in 1..Len(row.submissions) |->
                        [xid |-> row.submissions[i].xid, state |-> "SUPERSEDED"]]
<1> DEFINE p == [i \in 1..Len(row.submissions) |->
                        [xid |-> row.submissions[i].xid, state |-> "SUPERSEDED"]]
           e == row.resumes + 1
           b == NewRow(row.run)
<1>1. row.submissions \in Seq(Submission) /\ row.run \in Ids /\ row.resumes \in 0..MaxAutoResumes
  BY DEF Row
<1>2. \A i \in 1..Len(row.submissions) : p[i] \in Submission
  <2>1. \A i \in 1..Len(row.submissions) : row.submissions[i] \in Submission
    BY <1>1
  <2>2. \A i \in 1..Len(row.submissions) : row.submissions[i].xid \in Xids
    BY <2>1 DEF Submission
  <2> QED BY <2>2 DEF Submission, SubEnded
<1>3. p \in Seq(Submission)
  <2>1. Len(row.submissions) \in Nat
    BY <1>1
  <2> HIDE DEF p
  <2>2. p = [i \in 1..Len(row.submissions) |-> p[i]]
    BY DEF p
  <2> QED BY <1>2, <2>1, <2>2
<1>4. e \in 0..MaxAutoResumes
  BY <1>1, RowConstantsOK
<1>5. b \in Row /\ b.state = "QUEUED" /\ b.run = row.run /\ b.attempts = 0
  BY <1>1, NewRowIs DEF NewRow
<1>6. Restarted(row) = [b EXCEPT !.submissions = p, !.resumes = e]
  BY DEF Restarted
<1> HIDE DEF p, e, b
<1>7. /\ Restarted(row) \in Row /\ Restarted(row).state = b.state /\ Restarted(row).run = b.run
      /\ Restarted(row).attempts = b.attempts /\ Restarted(row).submissions = p
  BY <1>3, <1>4, <1>5, <1>6, Zenon DEF Row
<1> QED BY <1>5, <1>7 DEF p

-----------------------------------------------------------------------------
(* The inductive invariant.                                                *)

\* What the place of the builder tells about its job, and about the experiment it made.
BuilderTells ==
  /\ builder.pc \notin {"dispatch", "apply", "claim"} =>
         builder.job \in Ids /\ builder.claimed \in Row
  /\ builder.pc \in {"created", "bound"} => builder.xid \in Xids

\* What the place of pass p tells about the rows it works on.
PassFits(p) ==
  /\ p.pc \in {"confirm", "cancel", "archive", "persist"} =>
       p.kind = "reroute" /\ p.row \in Ids /\ p.copy[p.row] \in Row
  /\ p.fresh # {} => p.kind = "reconcile"
  /\ p.fresh \cap p.todo = {}
  /\ \A j \in p.todo : p.copy[j] \in Row
  /\ p.pc = "idle" => p.fresh = {} /\ p.todo = {} /\ p.touched = {}

\* What the snapshot of pass p tells of queue q, d being the rows written since: a row to be
\* appended is in q not yet, a row the pass changed is an edit of the one in q, and any other is
\* the one in q.
CopyFits(p, q, d) ==
  \A j \in Ids :
    /\ j \in p.fresh =>
         q[j] = Unminted /\ p.copy[j] \in Row /\ p.copy[j].state = "QUEUED"
    /\ j \notin p.fresh /\ j \in p.touched /\ j \notin d /\ p.pc # "idle" =>
         q[j] \in Row /\ Edits(q[j], p.copy[j])
    /\ j \notin p.fresh /\ j \notin p.touched /\ j \notin d /\ p.pc # "idle" =>
         q[j] = p.copy[j]

\* Pass p is one, and all of this is so.
Holds(p, q, d) == p \in PassState /\ PassFits(p) /\ CopyFits(p, q, d)

\* The inductive invariant.
QueueInv ==
  /\ TypeOK
  /\ BuilderTells
  /\ Holds(pass, queue, dirty)
  /\ OneBuild

\* A row is not one of the two marks for a job without a row.
LEMMA RowFacts ==
  /\ \A r \in MaybeRow : IsRow(r) <=> r \in Row
  /\ ~IsRow(Unminted) /\ ~IsRow(Cleared)
BY QueueConstantsOK DEF IsRow, MaybeRow

\* The next experiment id is one that is free.
LEMMA NextXidIs ==
  ASSUME TypeOK, XidsLeft
  PROVE  NextXid \in Xids /\ xm[NextXid].state = "none"
<1> DEFINE S == {x \in Xids : xm[x].state = "none"}
<1>1. S \subseteq Nat /\ S # {}
  BY DEF XidsLeft, Xids
<1>2. PICK x \in S : \A y \in S : <<y, x>> \notin OpToRel(<, Nat)
  <2> HIDE DEF S
  <2>1. QED
    BY <1>1, NatLessThanWellFounded, WFMin, Zenon
<1>3. \A y \in S : ~(y < x)
  <2>1. x \in Nat /\ \A y \in S : y \in Nat
    BY <1>1
  <2> HIDE DEF S
  <2>2. QED
    BY <1>1, <1>2, <2>1, Zenon DEF OpToRel
<1>4. \A y \in 1..x - 1 : xm[y].state # "none"
  <2>1. SUFFICES ASSUME NEW y \in 1..x - 1, xm[y].state = "none" PROVE FALSE
    OBVIOUS
  <2>2. x \in 1..MaxXid /\ MaxXid \in Nat
    BY <1>2, RowConstantsOK DEF Xids
  <2>3. y \in 1..MaxXid /\ y < x
    BY <2>2
  <2>4. y \in S
    BY <2>1, <2>3 DEF Xids
  <2> HIDE DEF S
  <2>5. QED
    BY <1>3, <2>3, <2>4
<1>5. /\ x \in Xids
      /\ xm[x].state = "none" /\ \A y \in 1..x - 1 : xm[y].state # "none"
  BY <1>2, <1>4
<1>6. QED
  BY <1>5, Zenon DEF NextXid

-----------------------------------------------------------------------------
(* What each step does to the pass.                                        *)

\* What Skip does to the pass.
LEMMA SkipIs ==
  ASSUME pass \in PassState, NEW j \in Ids
  PROVE  LET p == Skip(j) IN
         /\ p \in PassState /\ p.pc = pass.pc /\ p.kind = pass.kind /\ p.copy = pass.copy
         /\ p.todo = pass.todo \ {j} /\ p.touched = pass.touched /\ p.fresh = pass.fresh
         /\ p.row = pass.row
<1> DEFINE t == pass.todo \ {j}
           p == Skip(j)
<1>1. p = [pass EXCEPT !.todo = t]
  BY DEF Skip
<1>2. t \in SUBSET Ids
  BY DEF PassState
<1> HIDE DEF t, p
<1>3. /\ p \in PassState /\ p.pc = pass.pc /\ p.kind = pass.kind /\ p.copy = pass.copy
      /\ p.todo = t /\ p.touched = pass.touched /\ p.fresh = pass.fresh
      /\ p.row = pass.row
  BY <1>1, <1>2, Zenon DEF PassState
<1> QED BY <1>3 DEF t, p

\* What Edit does to the pass.
LEMMA EditIs ==
  ASSUME pass \in PassState, NEW j \in Ids, NEW row \in Row
  PROVE  LET p == Edit(j, row) IN
         /\ p \in PassState /\ p.pc = pass.pc /\ p.kind = pass.kind
         /\ p.copy = [pass.copy EXCEPT ![j] = row]
         /\ p.todo = pass.todo \ {j} /\ p.touched = pass.touched \cup {j} /\ p.fresh = pass.fresh
         /\ p.row = pass.row
<1> DEFINE s == Skip(j)
           c == [s.copy EXCEPT ![j] = row]
           u == s.touched \cup {j}
           p == Edit(j, row)
<1>1. /\ s \in PassState /\ s.pc = pass.pc /\ s.kind = pass.kind /\ s.copy = pass.copy
      /\ s.todo = pass.todo \ {j} /\ s.touched = pass.touched /\ s.fresh = pass.fresh
      /\ s.row = pass.row
  BY SkipIs
<1>2. p = [s EXCEPT !.copy = c, !.touched = u]
  BY Zenon DEF Edit
<1> HIDE DEF s, p
<1>3. s.copy \in [Ids -> MaybeRow] /\ s.touched \in SUBSET Ids
  BY <1>1, Zenon DEF PassState
<1>4. c \in [Ids -> MaybeRow] /\ u \in SUBSET Ids
  BY <1>3 DEF MaybeRow
<1> HIDE DEF c, u
<1>5. /\ p \in PassState /\ p.pc = s.pc /\ p.kind = s.kind /\ p.copy = c
      /\ p.todo = s.todo /\ p.touched = u /\ p.fresh = s.fresh
      /\ p.row = s.row
  BY <1>1, <1>2, <1>4, Zenon DEF PassState
<1> QED BY <1>1, <1>5 DEF c, u, p

\* What moving on within a move does to the pass.
LEMMA AtIs ==
  ASSUME NEW p \in PassState, NEW l \in PassPC, NEW r, r = [p EXCEPT !.pc = l]
  PROVE  /\ r \in PassState /\ r.pc = l /\ r.kind = p.kind /\ r.copy = p.copy
         /\ r.todo = p.todo /\ r.touched = p.touched /\ r.fresh = p.fresh
         /\ r.row = p.row
BY Zenon DEF PassState

\* What reading the cancels does to the pass.
LEMMA ConsultedIs ==
  ASSUME TypeOK, NEW p \in PassState
  PROVE  LET r == Consulted(p) IN
         /\ r \in PassState /\ r.pc = p.pc /\ r.kind = p.kind /\ r.copy = p.copy
         /\ r.todo = p.todo /\ r.touched = p.touched /\ r.fresh = p.fresh
         /\ r.row = p.row
<1> DEFINE c == CancelsSeen
           r == Consulted(p)
<1>1. c \in SUBSET Xids
  BY DEF TypeOK, PassState, CancelsSeen
<1>2. r = [p EXCEPT !.cached = TRUE, !.cancels = c]
  BY DEF Consulted
<1> HIDE DEF c, r
<1>3. /\ r \in PassState /\ r.pc = p.pc /\ r.kind = p.kind /\ r.copy = p.copy
      /\ r.todo = p.todo /\ r.touched = p.touched /\ r.fresh = p.fresh
      /\ r.row = p.row
  BY <1>1, <1>2, Zenon DEF PassState
<1> QED BY <1>3 DEF r

-----------------------------------------------------------------------------
(* What the snapshot tells stays true as the pass goes on.                 *)

\* Looking at a row keeps what the snapshot tells.
LEMMA SkipHolds ==
  ASSUME Holds(pass, queue, dirty), NEW j \in Ids
  PROVE  Holds(Skip(j), queue, dirty)
<1> DEFINE p == Skip(j)
<1>1. /\ p \in PassState /\ p.pc = pass.pc /\ p.kind = pass.kind /\ p.copy = pass.copy
      /\ p.todo = pass.todo \ {j} /\ p.touched = pass.touched /\ p.fresh = pass.fresh
      /\ p.row = pass.row
  BY SkipIs DEF Holds
<1> HIDE DEF p
<1>2. PassFits(p) /\ CopyFits(p, queue, dirty)
  BY <1>1 DEF Holds, PassFits, CopyFits
<1> QED BY <1>1, <1>2 DEF Holds, p

\* So does an edit of a row of the snapshot.
LEMMA EditHolds ==
  ASSUME Holds(pass, queue, dirty), NEW j \in Ids, j \notin pass.fresh, pass.copy[j] \in Row,
         pass.pc # "idle", NEW row, Edits(pass.copy[j], row)
  PROVE  Holds(Edit(j, row), queue, dirty)
<1> DEFINE p == Edit(j, row)
<1>1. row \in Row
  BY DEF Edits
<1>2. /\ p \in PassState /\ p.pc = pass.pc /\ p.kind = pass.kind
      /\ p.copy = [pass.copy EXCEPT ![j] = row]
      /\ p.todo = pass.todo \ {j} /\ p.touched = pass.touched \cup {j} /\ p.fresh = pass.fresh
      /\ p.row = pass.row
  BY <1>1, EditIs DEF Holds
<1> HIDE DEF p
<1>3. pass.copy \in [Ids -> MaybeRow]
  BY Zenon DEF Holds, PassState
<1>4. /\ p.copy[j] = row
      /\ \A i \in Ids : i # j => p.copy[i] = pass.copy[i]
  BY <1>2, <1>3
<1>5. PassFits(p)
  BY <1>1, <1>2, <1>4 DEF Holds, PassFits, PassState
<1>6. CopyFits(p, queue, dirty)
  <2>1. SUFFICES ASSUME NEW i \in Ids
        PROVE  /\ i \in p.fresh =>
                    queue[i] = Unminted /\ p.copy[i] \in Row /\ p.copy[i].state = "QUEUED"
               /\ i \notin p.fresh /\ i \in p.touched /\ i \notin dirty /\ p.pc # "idle" =>
                    queue[i] \in Row /\ Edits(queue[i], p.copy[i])
               /\ i \notin p.fresh /\ i \notin p.touched /\ i \notin dirty /\ p.pc # "idle" =>
                    queue[i] = p.copy[i]
    BY DEF CopyFits
  <2>2. CASE i # j
    BY <1>2, <1>4, <2>2 DEF Holds, CopyFits
  <2>3. CASE i = j
    <3>1. ASSUME j \notin dirty
          PROVE  queue[j] \in Row /\ Edits(queue[j], row)
      <4>1. CASE j \in pass.touched
        BY <3>1, <4>1, EditsChain DEF Holds, CopyFits
      <4>2. CASE j \notin pass.touched
        <5>1. queue[j] = pass.copy[j]
          BY <3>1, <4>2 DEF Holds, CopyFits
        <5> QED BY <5>1
      <4> QED BY <4>1, <4>2
    <3> QED BY <1>2, <1>4, <2>3, <3>1
  <2> QED BY <2>2, <2>3
<1> QED BY <1>2, <1>5, <1>6 DEF Holds, p

\* So does reading the cancels.
LEMMA ConsultedHolds ==
  ASSUME TypeOK, NEW p, Holds(p, queue, dirty)
  PROVE  Holds(Consulted(p), queue, dirty)
<1> DEFINE r == Consulted(p)
<1>1. /\ r \in PassState /\ r.pc = p.pc /\ r.kind = p.kind /\ r.copy = p.copy
      /\ r.todo = p.todo /\ r.touched = p.touched /\ r.fresh = p.fresh
      /\ r.row = p.row
  BY ConsultedIs DEF Holds
<1> HIDE DEF r
<1>2. PassFits(r) /\ CopyFits(r, queue, dirty)
  BY <1>1 DEF Holds, PassFits, CopyFits
<1> QED BY <1>1, <1>2 DEF Holds, r

\* So does going on to the next row.
LEMMA RowsHolds ==
  ASSUME NEW q, NEW d, NEW p, Holds(p, q, d), p.pc # "idle", NEW k \in Ids \cup {NoId},
         NEW r, r = [p EXCEPT !.pc = "rows", !.row = k]
  PROVE  Holds(r, q, d)
<1>1. /\ r \in PassState /\ r.pc = "rows" /\ r.kind = p.kind /\ r.copy = p.copy
      /\ r.todo = p.todo /\ r.touched = p.touched /\ r.fresh = p.fresh
  <2>1. "rows" \in PassPC /\ p \in PassState
    BY DEF PassPC, Holds
  <2> QED BY <2>1, Zenon DEF PassState
<1>2. PassFits(r) /\ CopyFits(r, q, d)
  BY <1>1 DEF Holds, PassFits, CopyFits
<1> QED BY <1>1, <1>2 DEF Holds

\* The steps of a move.
Moving == {"confirm", "cancel", "archive", "persist"}

\* So does the begin of a move.
LEMMA MarkHolds ==
  ASSUME NEW q, NEW d, NEW p, Holds(p, q, d), p.pc # "idle",
         p.kind = "reroute", NEW k \in Ids, p.copy[k] \in Row, NEW l \in Moving,
         NEW r, r = [p EXCEPT !.pc = l, !.row = k]
  PROVE  Holds(r, q, d)
<1>1. /\ r \in PassState /\ r.pc = l /\ r.kind = p.kind /\ r.copy = p.copy
      /\ r.todo = p.todo /\ r.touched = p.touched /\ r.fresh = p.fresh
      /\ r.row = k
  <2>1. l \in PassPC /\ p \in PassState /\ k \in Ids \cup {NoId}
    BY DEF PassPC, Holds, Moving
  <2> QED BY <2>1, Zenon DEF PassState
<1>2. l # "idle"
  BY DEF Moving
<1>3. PassFits(r) /\ CopyFits(r, q, d)
  BY <1>1, <1>2 DEF Holds, PassFits, CopyFits
<1> QED BY <1>1, <1>3 DEF Holds

\* So does its next step.
LEMMA AtHolds ==
  ASSUME NEW q, NEW d, NEW p, Holds(p, q, d), p.pc \in Moving,
         NEW l \in Moving, NEW r, r = [p EXCEPT !.pc = l]
  PROVE  Holds(r, q, d)
<1>1. /\ r \in PassState /\ r.pc = l /\ r.kind = p.kind /\ r.copy = p.copy
      /\ r.todo = p.todo /\ r.touched = p.touched /\ r.fresh = p.fresh
      /\ r.row = p.row
  <2>1. l \in PassPC /\ p \in PassState
    BY DEF PassPC, Holds, Moving
  <2> QED BY <2>1, AtIs
<1>2. l # "idle" /\ p.pc # "idle"
  BY DEF Moving
<1>3. PassFits(r) /\ CopyFits(r, q, d)
  BY <1>1, <1>2 DEF Holds, PassFits, CopyFits, Moving
<1> QED BY <1>1, <1>3 DEF Holds

\* So does a row appended, under an id nobody uses.
LEMMA FreshHolds ==
  ASSUME NEW p, Holds(p, queue, dirty), p.pc = "rows", p.kind = "reconcile", NEW k \in Ids,
         k \notin p.todo, queue[k] = Unminted,
         NEW row \in Row, row.state = "QUEUED",
         NEW r, r = [p EXCEPT !.copy[k] = row, !.fresh = @ \cup {k}]
  PROVE  Holds(r, queue, dirty)
<1>1. /\ r \in PassState /\ r.pc = p.pc /\ r.kind = p.kind
      /\ r.copy = [p.copy EXCEPT ![k] = row]
      /\ r.todo = p.todo /\ r.touched = p.touched /\ r.fresh = p.fresh \cup {k}
      /\ r.row = p.row
  <2> DEFINE c == [p.copy EXCEPT ![k] = row]
             f == p.fresh \cup {k}
  <2>1. p \in PassState /\ p.copy \in [Ids -> MaybeRow] /\ p.fresh \in SUBSET Ids
    BY Zenon DEF Holds, PassState
  <2>2. c \in [Ids -> MaybeRow] /\ f \in SUBSET Ids
    BY <2>1 DEF MaybeRow
  <2>3. r = [p EXCEPT !.copy = c, !.fresh = f]
    BY Zenon
  <2> HIDE DEF c, f
  <2>4. /\ r \in PassState /\ r.pc = p.pc /\ r.kind = p.kind /\ r.copy = c
        /\ r.todo = p.todo /\ r.touched = p.touched /\ r.fresh = f
        /\ r.row = p.row
    BY <2>1, <2>2, <2>3, Zenon DEF PassState
  <2> QED BY <2>4 DEF c, f
<1>2. p.copy \in [Ids -> MaybeRow] /\ p.todo \in SUBSET Ids /\ p.fresh \in SUBSET Ids
  BY Zenon DEF Holds, PassState
<1>3. /\ r.copy[k] = row
      /\ \A i \in Ids : i # k => r.copy[i] = p.copy[i]
  BY <1>1, <1>2
<1>4. PassFits(r)
  BY <1>1, <1>2, <1>3 DEF Holds, PassFits
<1>5. CopyFits(r, queue, dirty)
  <2>1. SUFFICES ASSUME NEW i \in Ids
        PROVE  /\ i \in r.fresh =>
                    queue[i] = Unminted /\ r.copy[i] \in Row /\ r.copy[i].state = "QUEUED"
               /\ i \notin r.fresh /\ i \in r.touched /\ i \notin dirty /\ r.pc # "idle" =>
                    queue[i] \in Row /\ Edits(queue[i], r.copy[i])
               /\ i \notin r.fresh /\ i \notin r.touched /\ i \notin dirty /\ r.pc # "idle" =>
                    queue[i] = r.copy[i]
    BY DEF CopyFits
  <2>2. CASE i # k
    BY <1>1, <1>3, <2>2 DEF Holds, CopyFits
  <2>3. CASE i = k
    BY <1>1, <1>3, <2>3
  <2> QED BY <2>2, <2>3
<1> QED BY <1>1, <1>4, <1>5 DEF Holds

\* A row to be looked at is in the snapshot, and not appended by the pass.
LEMMA TodoIs ==
  ASSUME QueueInv, NEW j \in pass.todo
  PROVE  j \in Ids /\ j \notin pass.fresh /\ pass.copy[j] \in Row
<1>1. pass.todo \in SUBSET Ids
  BY Zenon DEF QueueInv, Holds, PassState
<1> QED BY <1>1 DEF QueueInv, Holds, PassFits

\* decide_reconcile gives a verdict or none.
LEMMA VerdictIs ==
  ASSUME NEW row, NEW s
  PROVE  DecideReconcile(row, s) \in Verdicts \cup {"leave"}
BY DEF DecideReconcile, Verdicts

\* A row found dead is edited.
LEMMA DeadEdits ==
  ASSUME NEW j, pass.copy[j] \in Row
  PROVE  /\ Edits(pass.copy[j], ReadAndDead(j)) /\ ReadAndDead(j).state = "FAILED"
         /\ Edits(pass.copy[j], UnreadAndDead(j)) /\ UnreadAndDead(j).state = "FAILED"
         /\ Edits(pass.copy[j], Hold(UnreadAndDead(j)))
<1> DEFINE b == Become(pass.copy[j], "FAILED")
           u == UnreadAndDead(j)
<1>1. Edits(pass.copy[j], b) /\ b \in Row /\ b.state = "FAILED"
  BY BecomeEdits DEF Verdicts, Edits
<1>2. ReadAndDead(j) = [b EXCEPT !.unread = 0] /\ u = Unreadable(b)
  BY DEF ReadAndDead, UnreadAndDead
<1> HIDE DEF b, u
<1>3. /\ Edits(b, [b EXCEPT !.unread = 0]) /\ [b EXCEPT !.unread = 0].state = b.state
      /\ Edits(b, Unreadable(b)) /\ Unreadable(b).state = b.state
  <2>1. [b EXCEPT !.unread = 0].state = b.state
    BY <1>1, Zenon DEF Row
  <2>2. Unreadable(b).state = b.state
    BY <1>1, Zenon DEF Row, Unreadable
  <2> QED BY <1>1, <2>1, <2>2, RowOps
<1>4. Edits(pass.copy[j], u) /\ u \in Row
  BY <1>1, <1>2, <1>3, EditsChain DEF Edits
<1>5. Edits(u, Hold(u))
  BY <1>4, RowOps
<1>6. Edits(pass.copy[j], ReadAndDead(j))
  BY <1>1, <1>2, <1>3, EditsChain
<1> QED BY <1>1, <1>2, <1>3, <1>4, <1>5, <1>6, EditsChain DEF u

\* Where a reconcile pass looks at a row.
LEMMA LooksIs ==
  ASSUME QueueInv, NEW j \in Ids, NEW s, Looks(j, s)
  PROVE  /\ pass.pc = "rows" /\ pass.kind = "reconcile" /\ j \in pass.todo
         /\ j \notin pass.fresh /\ pass.copy[j] \in Row /\ Holds(pass, queue, dirty)
BY TodoIs DEF Looks, QueueInv

\* The verdicts that restart nothing keep what the snapshot tells.
LEMMA ReconcileHolds ==
  ASSUME QueueInv, NEW j \in Ids, NEW s,
         \/ Settle(j, s) \/ SettleCancelled(j, s) \/ Postpone(j, s)
         \/ Bury(j, s) \/ Park(j, s)
  PROVE  Holds(pass', queue, dirty)
<1>1. TypeOK /\ Looks(j, s)
  BY DEF QueueInv, Settle, SettleCancelled, Postpone, Bury, Park, Dies
<1>2. /\ j \notin pass.fresh /\ pass.copy[j] \in Row /\ Holds(pass, queue, dirty)
      /\ pass.pc # "idle"
  BY <1>1, LooksIs
<1>3. \A row : Edits(pass.copy[j], row) => Holds(Edit(j, row), queue, dirty)
  BY <1>2, EditHolds
<1>4. \A row : Edits(pass.copy[j], row) => Holds(Consulted(Edit(j, row)), queue, dirty)
  BY <1>1, <1>3, ConsultedHolds
<1>5. CASE Settle(j, s)
  <2>1. CASE Verdict(j, s) = "leave"
    BY <1>2, <1>5, <2>1, SkipHolds DEF Settle
  <2>2. CASE Verdict(j, s) # "leave"
    <3>1. Verdict(j, s) \in Verdicts
      BY <2>2, VerdictIs DEF Verdict
    <3>2. Edits(pass.copy[j], Become(pass.copy[j], Verdict(j, s)))
      BY <1>2, <3>1, BecomeEdits
    <3>3. pass' = Edit(j, Become(pass.copy[j], Verdict(j, s)))
      BY <1>5, <2>2 DEF Settle
    <3> QED BY <1>3, <3>2, <3>3
  <2> QED BY <2>1, <2>2
<1>6. CASE SettleCancelled(j, s)
  BY <1>2, <1>4, <1>6, CancelledEdits DEF SettleCancelled
<1>7. CASE Postpone(j, s)
  BY <1>2, <1>4, <1>7, RowOps DEF Postpone
<1>8. CASE Bury(j, s)
  BY <1>2, <1>4, <1>8, DeadEdits DEF Bury
<1>9. CASE Park(j, s)
  BY <1>2, <1>4, <1>9, DeadEdits DEF Park
<1> QED BY <1>5, <1>6, <1>7, <1>8, <1>9

\* So does a restart.
LEMMA RestartHolds ==
  ASSUME QueueInv, NEW j \in Ids, NEW s, Restart(j, s)
  PROVE  Holds(pass', queue, dirty)
<1>1. TypeOK /\ Looks(j, s) /\ MayRestart(j)
  BY DEF QueueInv, Restart, Dies
<1>2. /\ j \notin pass.fresh /\ pass.copy[j] \in Row /\ Holds(pass, queue, dirty)
      /\ pass.pc = "rows" /\ pass.kind = "reconcile"
  BY <1>1, LooksIs
<1>3. PICK k \in Ids, row \in {ReadAndDead(j), UnreadAndDead(j)} :
         /\ Mintable(k)
         /\ pass' = [Consulted(Edit(j, row)) EXCEPT !.copy[k] = Restarted(pass.copy[j]),
                                                   !.fresh = @ \cup {k}]
  BY DEF Restart
<1>4. Edits(pass.copy[j], row) /\ row \in Row
  BY <1>2, DeadEdits DEF Edits
<1> DEFINE e == Edit(j, row)
           p == Consulted(e)
           t == Restarted(pass.copy[j])
<1>5. /\ e \in PassState /\ e.pc = "rows" /\ e.kind = "reconcile"
      /\ e.todo = pass.todo \ {j}
  BY <1>2, <1>4, EditIs DEF Holds
<1>6. Holds(e, queue, dirty)
  BY <1>2, <1>4, EditHolds
<1> HIDE DEF e
<1>7. Holds(p, queue, dirty) /\ p.pc = "rows" /\ p.kind = "reconcile" /\ p.todo = pass.todo \ {j}
  BY <1>1, <1>5, <1>6, ConsultedIs, ConsultedHolds
<1>8. k \notin p.todo /\ queue[k] = Unminted
  <2>1. k \notin pass.todo
    <3>1. pass.copy[k] = Unminted
      BY <1>3 DEF Mintable
    <3> QED BY <3>1, TodoIs, QueueConstantsOK
  <2> QED BY <1>3, <1>7, <2>1 DEF Mintable
<1>9. t \in Row /\ t.state = "QUEUED"
  BY <1>1, <1>2, RestartedIs DEF MayRestart
<1>10. pass' = [p EXCEPT !.copy[k] = t, !.fresh = @ \cup {k}]
  BY <1>3 DEF e
<1> HIDE DEF p, t
<1> QED BY <1>7, <1>8, <1>9, <1>10, FreshHolds

\* So do the steps of a reroute pass that move nothing.
LEMMA SweepHolds ==
  ASSUME QueueInv, NEW j \in Ids, NEW s,
         \/ Pass(j, s) \/ Flag(j, s) \/ Promote(j, s) \/ Suspect(j, s)
  PROVE  Holds(pass', queue, dirty)
<1>1. Sweeps(j, s)
  BY DEF Pass, Flag, Promote, Suspect
<1>2. /\ j \notin pass.fresh /\ pass.copy[j] \in Row /\ Holds(pass, queue, dirty)
      /\ pass.pc = "rows" /\ pass.kind = "reroute"
  BY <1>1, TodoIs DEF Sweeps, QueueInv
<1>3. \A row : Edits(pass.copy[j], row) => Holds(Edit(j, row), queue, dirty)
  BY <1>2, EditHolds
<1>4. Holds(Skip(j), queue, dirty)
  BY <1>2, SkipHolds
<1>5. CASE Pass(j, s)
  <2>1. Edits(pass.copy[j], [pass.copy[j] EXCEPT !.unread = 0])
    BY <1>2, RowOps
  <2>2. pass' \in {Edit(j, [pass.copy[j] EXCEPT !.unread = 0]), Skip(j)}
    BY <1>5 DEF Pass
  <2> QED BY <1>3, <1>4, <2>1, <2>2
<1>6. CASE Flag(j, s)
  BY <1>2, <1>3, <1>6, RowOps DEF Flag
<1>7. CASE Promote(j, s)
  <2> DEFINE b == Become(pass.copy[j], "RUNNING")
             z == [b EXCEPT !.unread = 0]
  <2>1. Edits(pass.copy[j], b) /\ b \in Row
    BY <1>2, BecomeEdits DEF Verdicts, Edits
  <2>2. pass' = Edit(j, z)
    BY <1>7 DEF Promote
  <2> HIDE DEF b
  <2>3. Edits(b, z)
    BY <2>1, RowOps
  <2> HIDE DEF z
  <2> QED BY <1>3, <2>1, <2>2, <2>3, EditsChain
<1>8. CASE Suspect(j, s)
  <2> DEFINE p == Skip(j)
             l == IF s = "PENDING" THEN "confirm" ELSE "cancel"
  <2>1. p.pc = "rows" /\ p.kind = "reroute" /\ p.copy = pass.copy
    BY <1>2, SkipIs DEF Holds
  <2>2. l \in Moving
    BY DEF Moving
  <2>3. pass' = [p EXCEPT !.pc = l, !.row = j]
    BY <1>8 DEF Suspect
  <2> HIDE DEF p, l
  <2>4. Holds(p, queue, dirty)
    BY <1>4 DEF p
  <2> QED BY <1>2, <2>1, <2>2, <2>3, <2>4, MarkHolds
<1> QED BY <1>5, <1>6, <1>7, <1>8

\* Where a move is, and what an edit of its row does.
LEMMA MovingIs ==
  ASSUME QueueInv, pass.pc \in Moving
  PROVE  /\ pass.row \in Ids /\ pass.copy[pass.row] \in Row /\ pass.fresh = {}
         /\ pass.pc # "idle" /\ Holds(pass, queue, dirty)
         /\ NoId \in Ids \cup {NoId}
         /\ \A row : Edits(pass.copy[pass.row], row) =>
              /\ Holds(Edit(pass.row, row), queue, dirty)
              /\ Edit(pass.row, row).pc = pass.pc
<1>1. /\ pass.row \in Ids /\ pass.copy[pass.row] \in Row /\ pass.fresh = {}
      /\ pass.pc # "idle" /\ Holds(pass, queue, dirty)
  BY DEF QueueInv, Holds, PassFits, Moving
<1>2. ASSUME NEW row, Edits(pass.copy[pass.row], row)
      PROVE  /\ Holds(Edit(pass.row, row), queue, dirty)
             /\ Edit(pass.row, row).pc = pass.pc
  <2>1. row \in Row
    BY <1>2 DEF Edits
  <2>2. Edit(pass.row, row).pc = pass.pc
    BY <1>1, <2>1, EditIs DEF Holds
  <2> QED BY <1>1, <1>2, <2>2, EditHolds
<1> QED BY <1>1, <1>2

\* A move given up keeps what the snapshot tells.
LEMMA LeaveHolds ==
  ASSUME QueueInv, pass.pc \in Moving, NEW row, Edits(pass.copy[pass.row], row),
         NEW r, r = [Edit(pass.row, row) EXCEPT !.pc = "rows", !.row = NoId]
  PROVE  Holds(r, queue, dirty)
<1> DEFINE p == Edit(pass.row, row)
<1>1. Holds(p, queue, dirty) /\ p.pc # "idle" /\ NoId \in Ids \cup {NoId}
  BY MovingIs
<1>2. r = [p EXCEPT !.pc = "rows", !.row = NoId]
  OBVIOUS
<1> HIDE DEF p
<1> QED BY <1>1, <1>2, RowsHolds

\* So do the steps of a move.
LEMMA MoveHolds ==
  ASSUME QueueInv, (\E s : Confirm(s)) \/ Cancel \/ CancelFails \/ Archive
  PROVE  Holds(pass', queue, dirty)
<1>1. pass.pc \in Moving
  BY DEF Confirm, Cancel, CancelFails, Archive, Moving
<1> DEFINE row == pass.copy[pass.row]
<1>2. row \in Row /\ Holds(pass, queue, dirty) /\ pass.pc # "idle"
  BY <1>1, MovingIs
<1>3. Edits(row, row) /\ Edits(row, [row EXCEPT !.unread = 0]) /\ Edits(row, Unreadable(row))
  BY <1>2, RowOps
<1>4. CASE \E s : Confirm(s)
  <2>1. \/ pass' = [pass EXCEPT !.pc = "cancel"]
        \/ \E r \in {row, [row EXCEPT !.unread = 0], Unreadable(row)} :
             pass' = [Edit(pass.row, r) EXCEPT !.pc = "rows", !.row = NoId]
    BY <1>4 DEF Confirm
  <2> HIDE DEF row
  <2>2. CASE pass' = [pass EXCEPT !.pc = "cancel"]
    BY <1>1, <1>2, <2>2, AtHolds DEF Moving
  <2>3. ASSUME NEW r \in {row, [row EXCEPT !.unread = 0], Unreadable(row)},
               pass' = [Edit(pass.row, r) EXCEPT !.pc = "rows", !.row = NoId]
        PROVE  Holds(pass', queue, dirty)
    <3>1. Edits(row, r)
      BY <1>3
    <3> QED BY <1>1, <2>3, <3>1, LeaveHolds DEF row
  <2> QED BY <2>1, <2>2, <2>3
<1>5. CASE Cancel
  <2> DEFINE moved == MarkReroute(row)
  <2>1. PICK r \in {moved, WarmInPlace(moved)} :
           pass' = [Edit(pass.row, r) EXCEPT !.pc = "archive"]
    BY <1>5 DEF Cancel
  <2>2. Edits(row, moved) /\ moved \in Row
    BY <1>2, RerouteEdits DEF Edits
  <2> HIDE DEF row, moved
  <2>3. Edits(moved, WarmInPlace(moved))
    BY <2>2, RowOps
  <2>4. Edits(row, r)
    BY <2>1, <2>2, <2>3, EditsChain
  <2> DEFINE p == Edit(pass.row, r)
  <2>5. Holds(p, queue, dirty) /\ p.pc \in Moving
    BY <1>1, <2>4, MovingIs DEF row
  <2>6. pass' = [p EXCEPT !.pc = "archive"] /\ "archive" \in Moving
    BY <2>1 DEF Moving
  <2> HIDE DEF p
  <2> QED BY <2>5, <2>6, AtHolds
<1>6. CASE CancelFails
  <2>1. \/ pass' = [Edit(pass.row, Unreadable(row)) EXCEPT !.pc = "rows", !.row = NoId]
        \/ pass' = [pass EXCEPT !.pc = "rows", !.row = NoId]
    BY <1>6 DEF CancelFails
  <2>2. CASE pass' = [Edit(pass.row, Unreadable(row)) EXCEPT !.pc = "rows", !.row = NoId]
    BY <1>1, <1>3, <2>2, LeaveHolds
  <2>3. CASE pass' = [pass EXCEPT !.pc = "rows", !.row = NoId]
    BY <1>1, <1>2, <2>3, MovingIs, RowsHolds
  <2> QED BY <2>1, <2>2, <2>3
<1>7. CASE Archive
  <2>1. pass' = [pass EXCEPT !.pc = "persist"] /\ "persist" \in Moving
    BY <1>7 DEF Archive, Moving
  <2> QED BY <1>1, <1>2, <2>1, AtHolds
<1> QED BY <1>4, <1>5, <1>6, <1>7

-----------------------------------------------------------------------------
(* What is written to the queue file.                                      *)

\* What a write of the queue file may do to a row a, making it b.
RowStep(a, b) ==
  \/ b = a
  \/ a = Unminted /\ b \in Row
  \/ a \in Row /\ b = Cleared
  \/ a \in Row /\ b \in Row /\ AllXids(a) \subseteq AllXids(b)

\* Row a holds the build slot.
Builds(a) == a \in Row /\ a.state = "BUILDING"

\* Queue q becomes p by such writes, and no row comes to hold the build slot.
Written(q, p) ==
  /\ p \in [Ids -> MaybeRow]
  /\ \A j \in Ids : RowStep(q[j], p[j]) /\ (Builds(p[j]) => Builds(q[j]))

\* A row in the queue is not one the pass appended.
LEMMA FreshUnminted ==
  ASSUME QueueInv, NEW j \in Ids, queue[j] \in Row
  PROVE  j \notin pass.fresh
BY QueueConstantsOK DEF QueueInv, Holds, CopyFits

\* A write that leaves the ids of the appended rows alone keeps what the snapshot tells: the rows
\* it changes are dirty.
LEMMA SaveHolds ==
  ASSUME QueueInv, NEW q \in [Ids -> MaybeRow], Save(q), \A j \in pass.fresh : q[j] = queue[j]
  PROVE  queue' = q /\ dirty' \in SUBSET Ids /\ Holds(pass, queue', dirty')
<1>1. queue' = q
  BY DEF Save
<1>2. dirty' \in SUBSET Ids
  BY DEF Save, QueueInv, TypeOK
<1>3. CopyFits(pass, queue, dirty) /\ PassFits(pass) /\ pass \in PassState
  BY DEF QueueInv, Holds
<1>4. CopyFits(pass, q, dirty')
  <2>1. CASE pass.pc = "idle"
    BY <1>3, <2>1 DEF CopyFits, PassFits
  <2>2. CASE pass.pc # "idle"
    <3>1. dirty' = dirty \cup {j \in Ids : q[j] # queue[j]}
      BY <2>2 DEF Save
    <3>2. \A j \in Ids : j \notin dirty' => j \notin dirty /\ q[j] = queue[j]
      BY <3>1
    <3> QED BY <1>3, <2>2, <3>2 DEF CopyFits
  <2> QED BY <2>1, <2>2
<1> QED BY <1>1, <1>2, <1>3, <1>4 DEF Holds

\* So does one that edits rows, and it is among the writes.
LEMMA SaveEdits ==
  ASSUME QueueInv, NEW q \in [Ids -> MaybeRow], Save(q),
         \A j \in Ids : q[j] = queue[j] \/ (queue[j] \in Row /\ Edits(queue[j], q[j]))
  PROVE  Written(queue, queue') /\ dirty' \in SUBSET Ids /\ Holds(pass, queue', dirty')
<1>1. \A j \in pass.fresh : q[j] = queue[j]
  <2>1. pass.fresh \in SUBSET Ids
    BY Zenon DEF QueueInv, Holds, PassState
  <2> QED BY <2>1, FreshUnminted
<1>2. queue' = q /\ dirty' \in SUBSET Ids /\ Holds(pass, queue', dirty')
  BY <1>1, SaveHolds
<1>3. \A j \in Ids : RowStep(queue[j], q[j]) /\ (Builds(q[j]) => Builds(queue[j]))
  BY DEF RowStep, Builds, Edits
<1> QED BY <1>2, <1>3 DEF Written

\* So does an edit of one row.
LEMMA SaveRowEdits ==
  ASSUME QueueInv, NEW j \in Ids, NEW row, queue[j] \in Row, Edits(queue[j], row), SaveRow(j, row)
  PROVE  Written(queue, queue') /\ dirty' \in SUBSET Ids /\ Holds(pass, queue', dirty')
<1> DEFINE q == [queue EXCEPT ![j] = row]
<1>1. queue \in [Ids -> MaybeRow]
  BY DEF QueueInv, TypeOK
<1>2. q \in [Ids -> MaybeRow]
  BY <1>1 DEF Edits, MaybeRow
<1>3. \A i \in Ids : q[i] = queue[i] \/ (queue[i] \in Row /\ Edits(queue[i], q[i]))
  BY <1>1
<1>4. Save(q)
  BY DEF SaveRow
<1> HIDE DEF q
<1> QED BY <1>2, <1>3, <1>4, SaveEdits

\* So does update_entry, which skips a row that is gone.
LEMMA UpdateEdits ==
  ASSUME QueueInv, builder.job \in Ids, NEW row,
         TheRow \in Row => Edits(TheRow, row), Update(row)
  PROVE  Written(queue, queue') /\ dirty' \in SUBSET Ids /\ Holds(pass, queue', dirty')
<1>1. queue \in [Ids -> MaybeRow] /\ dirty \in SUBSET Ids /\ Holds(pass, queue, dirty)
  BY DEF QueueInv, TypeOK
<1>2. IsRow(TheRow) <=> TheRow \in Row
  BY <1>1, RowFacts DEF TheRow
<1>3. CASE TheRow \in Row
  BY <1>2, <1>3, SaveRowEdits DEF Update, TheRow
<1>4. CASE TheRow \notin Row
  <2>1. queue' = queue /\ dirty' = dirty
    BY <1>2, <1>4 DEF Update
  <2> QED BY <1>1, <2>1 DEF Written, RowStep
<1> QED BY <1>3, <1>4

\* What users write.
LEMMA UserWrites ==
  ASSUME QueueInv, NEW j \in Ids, Enqueue(j) \/ RequeueRow(j) \/ ClearRow(j)
  PROVE  Written(queue, queue') /\ dirty' \in SUBSET Ids /\ Holds(pass, queue', dirty')
<1>1. queue \in [Ids -> MaybeRow]
  BY DEF QueueInv, TypeOK
<1>2. CASE Enqueue(j)
  <2> DEFINE row == NewRow(j)
             q == [queue EXCEPT ![j] = row]
  <2>1. row \in Row /\ row.state = "QUEUED"
    BY NewRowIs
  <2>2. queue[j] = Unminted /\ pass.copy[j] = Unminted /\ Save(q)
    BY <1>2 DEF Enqueue, Mintable, SaveRow
  <2> HIDE DEF row
  <2>3. q \in [Ids -> MaybeRow]
    BY <1>1, <2>1 DEF MaybeRow
  <2>4. j \notin pass.fresh
    BY <2>2, QueueConstantsOK DEF QueueInv, Holds, CopyFits
  <2>5. \A i \in Ids : RowStep(queue[i], q[i]) /\ (Builds(q[i]) => Builds(queue[i]))
    BY <1>1, <2>1, <2>2 DEF RowStep, Builds
  <2>6. \A i \in pass.fresh : q[i] = queue[i]
    BY <1>1, <2>4
  <2> HIDE DEF q
  <2>7. queue' = q /\ dirty' \in SUBSET Ids /\ Holds(pass, queue', dirty')
    BY <2>2, <2>3, <2>6, SaveHolds
  <2> QED BY <2>3, <2>5, <2>7 DEF Written
<1>3. CASE RequeueRow(j)
  <2>1. queue[j] \in Row /\ SaveRow(j, RequeueHeld(queue[j]))
    BY <1>1, <1>3, RowFacts DEF RequeueRow, InState
  <2>2. Edits(queue[j], RequeueHeld(queue[j]))
    BY <2>1, RowOps
  <2> QED BY <2>1, <2>2, SaveRowEdits
<1>4. CASE ClearRow(j)
  <2> DEFINE q == [queue EXCEPT ![j] = Cleared]
  <2>1. queue[j] \in Row /\ Save(q)
    BY <1>1, <1>4, RowFacts DEF ClearRow, InState, SaveRow
  <2>2. q \in [Ids -> MaybeRow]
    BY <1>1 DEF MaybeRow
  <2>3. j \notin pass.fresh
    BY <2>1, FreshUnminted
  <2>4. \A i \in Ids : RowStep(queue[i], q[i]) /\ (Builds(q[i]) => Builds(queue[i]))
    BY <1>1, <2>1, QueueConstantsOK DEF RowStep, Builds
  <2>5. \A i \in pass.fresh : q[i] = queue[i]
    BY <1>1, <2>3
  <2> HIDE DEF q
  <2>6. queue' = q /\ dirty' \in SUBSET Ids /\ Holds(pass, queue', dirty')
    BY <2>1, <2>2, <2>5, SaveHolds
  <2> QED BY <2>2, <2>4, <2>6 DEF Written
<1> QED BY <1>2, <1>3, <1>4

\* What the dispatch writes.
LEMMA DispatchWrites ==
  ASSUME QueueInv, Dispatch \/ Apply
  PROVE  Written(queue, queue') /\ dirty' \in SUBSET Ids /\ Holds(pass, queue', dirty')
<1>1. queue \in [Ids -> MaybeRow]
  BY DEF QueueInv, TypeOK
<1>2. \A S : \A j \in InState(queue, S) : queue[j] \in Row
  BY <1>1, RowFacts DEF InState
<1>3. \E q : /\ Save(q) /\ q \in [Ids -> MaybeRow]
             /\ \A j \in Ids : q[j] = queue[j] \/ (queue[j] \in Row /\ Edits(queue[j], q[j]))
  <2>1. CASE Dispatch
    <3> DEFINE q == [j \in Ids |-> IF j \in InState(queue, {"BUDGET_DEFERRED"})
                                   THEN Requeue(queue[j]) ELSE queue[j]]
    <3>1. Save(q)
      BY <2>1 DEF Dispatch
    <3>2. ASSUME NEW j \in Ids
          PROVE  /\ q[j] \in MaybeRow
                 /\ q[j] = queue[j] \/ (queue[j] \in Row /\ Edits(queue[j], q[j]))
      <4>1. CASE j \in InState(queue, {"BUDGET_DEFERRED"})
        <5>1. Edits(queue[j], Requeue(queue[j])) /\ queue[j] \in Row
          BY <1>2, <4>1, RowOps
        <5>2. q[j] = Requeue(queue[j])
          BY <4>1
        <5> QED BY <5>1, <5>2 DEF Edits, MaybeRow
      <4>2. CASE j \notin InState(queue, {"BUDGET_DEFERRED"})
        BY <1>1, <4>2
      <4> QED BY <4>1, <4>2
    <3>3. q \in [Ids -> MaybeRow]
      BY <3>2
    <3> HIDE DEF q
    <3> QED BY <3>1, <3>2, <3>3
  <2>2. CASE Apply
    <3>1. PICK fit \in SUBSET builder.queued, over \in SUBSET builder.queued :
             /\ fit \cap over = {}
             /\ LET still == InState(queue, {"QUEUED"})
                IN Save([j \in Ids |->
                     CASE j \in fit \cap still  -> [queue[j] EXCEPT !.state = "BUILD_REQUESTED"]
                       [] j \in over \cap still -> [queue[j] EXCEPT !.state = "BUDGET_DEFERRED"]
                       [] OTHER -> queue[j]])
      BY <2>2 DEF Apply
    <3> DEFINE still == InState(queue, {"QUEUED"})
               a(j) == [queue[j] EXCEPT !.state = "BUILD_REQUESTED"]
               b(j) == [queue[j] EXCEPT !.state = "BUDGET_DEFERRED"]
               q == [j \in Ids |-> CASE j \in fit \cap still  -> a(j)
                                     [] j \in over \cap still -> b(j)
                                     [] OTHER -> queue[j]]
    <3>2. Save(q)
      BY <3>1
    <3>3. \A j \in still : queue[j] \in Row /\ Edits(queue[j], a(j)) /\ Edits(queue[j], b(j))
      BY <1>2, RowOps
    <3> HIDE DEF still, a, b
    <3>4. \A j \in Ids : /\ q[j] \in MaybeRow
                         /\ q[j] = queue[j] \/ (queue[j] \in Row /\ Edits(queue[j], q[j]))
      BY <1>1, <3>1, <3>3 DEF Edits, MaybeRow
    <3>5. q \in [Ids -> MaybeRow]
      BY <3>4
    <3> HIDE DEF q
    <3> QED BY <3>2, <3>4, <3>5
  <2> QED BY <2>1, <2>2
<1> QED BY <1>3, SaveEdits

\* The result of a build edits its row.
LEMMA ResultEdits ==
  ASSUME QueueInv, builder.claimed \in Row, NEW row \in Row
  PROVE  Edits(row, Result(row))
<1>1. CASE builder.end \in {"launched", "timeout"} /\ builder.xid # NoXid
  <2>1. builder.xid \in Xids
    BY <1>1, Zenon DEF QueueInv, TypeOK, BuilderState
  <2>2. Result(row) = ApplyPlacement(row, builder.xid)
    BY <1>1 DEF Result
  <2> QED BY <2>1, <2>2, BindEdits
<1>2. CASE ~(builder.end \in {"launched", "timeout"} /\ builder.xid # NoXid)
  <2> DEFINE n == builder.claimed.attempts + 1
             s == IF n >= MaxBuildAttempts THEN "HELD" ELSE "QUEUED"
  <2>1. Result(row) \in {[row EXCEPT !.state = "BUDGET_DEFERRED"], Requeue(row), Failed(row)}
    BY <1>2 DEF Result
  <2>2. Failed(row) = [row EXCEPT !.attempts = n, !.state = s]
    BY DEF Failed
  <2>3. n \in Nat
    BY DEF Row
  <2>4. s \in JobState /\ s # "BUILDING"
    BY DEF JobState
  <2> HIDE DEF n, s
  <2>5. Keeps(row, Failed(row)) /\ Failed(row).state = s
    BY <2>2, <2>3, <2>4, Zenon DEF Row, Keeps
  <2>6. Edits(row, Failed(row))
    BY <2>4, <2>5, KeepsEdits
  <2> QED BY <2>1, <2>6, RowOps
<1> QED BY <1>1, <1>2

\* What the worker writes once it has claimed a row.
LEMMA BuildWrites ==
  ASSUME QueueInv, PlanHold \/ PlanRequeue \/ PlanAdopt \/ Bind \/ Record
  PROVE  Written(queue, queue') /\ dirty' \in SUBSET Ids /\ Holds(pass, queue', dirty')
<1>1. builder.job \in Ids /\ builder.claimed \in Row
  BY DEF QueueInv, BuilderTells, PlanHold, PlanRequeue, PlanAdopt, Bind, Record
<1>2. CASE PlanHold
  BY <1>1, <1>2, RowOps, UpdateEdits DEF PlanHold
<1>3. CASE PlanRequeue
  BY <1>1, <1>3, RowOps, UpdateEdits DEF PlanRequeue
<1>4. CASE PlanAdopt
  <2> DEFINE x == CHOOSE y \in Escaped : TRUE
  <2>1. Escaped # {}
    <3>1. Cardinality(Escaped) = 1
      BY <1>4 DEF PlanAdopt
    <3> QED BY <3>1, FS_EmptySet
  <2>2. x \in Xids
    BY <2>1 DEF Escaped
  <2>3. Update(AdoptRecovered(TheRow, x))
    BY <1>4 DEF PlanAdopt
  <2> HIDE DEF x
  <2> QED BY <1>1, <2>2, <2>3, BindEdits, UpdateEdits
<1>5. CASE Bind
  <2>1. builder.xid \in Xids
    BY <1>5 DEF QueueInv, BuilderTells, Bind
  <2>2. CASE Update(OpenCreating(TheRow, builder.xid))
    BY <1>1, <2>1, <2>2, BindEdits, UpdateEdits
  <2>3. CASE UNCHANGED <<queue, dirty>>
    BY <2>3 DEF QueueInv, TypeOK, Written, RowStep
  <2> QED BY <1>5, <2>2, <2>3 DEF Bind
<1>6. CASE Record
  BY <1>1, <1>6, ResultEdits, UpdateEdits DEF Record
<1> QED BY <1>2, <1>3, <1>4, <1>5, <1>6

\* Queue q becomes p by the writes above, a claim among them.
Stepped(q, p) == p \in [Ids -> MaybeRow] /\ \A j \in Ids : RowStep(q[j], p[j])

\* Who holds the build slot, in the words of OneBuild.
LEMMA BuildingIs ==
  ASSUME NEW q \in [Ids -> MaybeRow], NEW j \in Ids
  PROVE  j \in InState(q, {"BUILDING"}) <=> Builds(q[j])
BY RowFacts DEF InState, Builds

\* Writes that claim no build keep the slot single.
LEMMA WrittenOneBuild ==
  ASSUME QueueInv, Written(queue, queue')
  PROVE  OneBuild' /\ Stepped(queue, queue')
<1>1. queue \in [Ids -> MaybeRow] /\ queue' \in [Ids -> MaybeRow]
  BY DEF QueueInv, TypeOK, Written
<1>2. SUFFICES ASSUME NEW i \in InState(queue', {"BUILDING"}),
                     NEW j \in InState(queue', {"BUILDING"})
               PROVE  i = j
  BY DEF OneBuild, Written, Stepped
<1>3. i \in Ids /\ j \in Ids
  BY <1>2 DEF InState
<1>4. Builds(queue'[i]) /\ Builds(queue'[j])
  BY <1>1, <1>2, <1>3, BuildingIs
<1>5. i \in InState(queue, {"BUILDING"}) /\ j \in InState(queue, {"BUILDING"})
  BY <1>1, <1>3, <1>4, BuildingIs DEF Written
<1> QED BY <1>5 DEF QueueInv, OneBuild

\* The queue once claim_next_build has reclaimed what a dead builder held.
Reclaimed == [j \in Ids |-> IF IsRow(queue[j]) THEN Reclaim(queue[j]) ELSE queue[j]]

\* Reclaiming edits rows, and leaves none BUILDING.
LEMMA ReclaimedIs ==
  ASSUME QueueInv
  PROVE  /\ Reclaimed \in [Ids -> MaybeRow]
         /\ \A j \in Ids : /\ \/ Reclaimed[j] = queue[j]
                              \/ queue[j] \in Row /\ Edits(queue[j], Reclaimed[j])
                           /\ ~Builds(Reclaimed[j])
                           /\ queue[j] = Unminted => Reclaimed[j] = Unminted
<1>1. queue \in [Ids -> MaybeRow]
  BY DEF QueueInv, TypeOK
<1>2. ASSUME NEW j \in Ids
      PROVE  /\ Reclaimed[j] \in MaybeRow
             /\ Reclaimed[j] = queue[j] \/ (queue[j] \in Row /\ Edits(queue[j], Reclaimed[j]))
             /\ ~Builds(Reclaimed[j])
             /\ queue[j] = Unminted => Reclaimed[j] = Unminted
  <2>1. CASE queue[j] \in Row
    <3>1. Reclaimed[j] = Reclaim(queue[j])
      BY <2>1, RowFacts DEF Reclaimed, MaybeRow
    <3>2. Edits(queue[j], Reclaim(queue[j])) /\ Reclaim(queue[j]).state # "BUILDING"
      BY <2>1, RowOps
    <3> QED BY <2>1, <3>1, <3>2, QueueConstantsOK DEF Edits, MaybeRow, Builds
  <2>2. CASE queue[j] \notin Row
    BY <1>1, <2>2, RowFacts DEF Reclaimed, Builds
  <2> QED BY <2>1, <2>2
<1> QED BY <1>2 DEF Reclaimed

\* A claim leaves one row BUILDING, its own.
LEMMA ClaimWrites ==
  ASSUME QueueInv, Claim
  PROVE  /\ Stepped(queue, queue') /\ OneBuild' /\ dirty' \in SUBSET Ids
         /\ Holds(pass, queue', dirty')
         /\ builder' = AtDispatch \/ \E j \in Ids, row \in Row :
              builder' = [builder EXCEPT !.pc = "plan", !.job = j, !.claimed = row]
<1> DEFINE q == Reclaimed
<1>1. \/ Save(q) /\ builder' = AtDispatch
      \/ \E j \in InState(q, {"BUILD_REQUESTED"}) :
           /\ Save([q EXCEPT ![j] = ClaimForBuild(@)])
           /\ builder' = [builder EXCEPT !.pc = "plan", !.job = j,
                                         !.claimed = ClaimForBuild(q[j])]
  BY Zenon DEF Claim, Reclaimed
<1>2. /\ q \in [Ids -> MaybeRow]
      /\ \A j \in Ids : /\ q[j] = queue[j] \/ (queue[j] \in Row /\ Edits(queue[j], q[j]))
                        /\ ~Builds(q[j])
                        /\ queue[j] = Unminted => q[j] = Unminted
  BY ReclaimedIs
<1> HIDE DEF q
<1>3. CASE Save(q) /\ builder' = AtDispatch
  BY <1>2, <1>3, SaveEdits, WrittenOneBuild
<1>4. ASSUME NEW j \in InState(q, {"BUILD_REQUESTED"}),
             Save([q EXCEPT ![j] = ClaimForBuild(@)]),
             builder' = [builder EXCEPT !.pc = "plan", !.job = j, !.claimed = ClaimForBuild(q[j])]
      PROVE  /\ Stepped(queue, queue') /\ OneBuild' /\ dirty' \in SUBSET Ids
             /\ Holds(pass, queue', dirty')
             /\ \E k \in Ids, row \in Row :
                  builder' = [builder EXCEPT !.pc = "plan", !.job = k, !.claimed = row]
  <2> DEFINE row == ClaimForBuild(q[j])
             p == [q EXCEPT ![j] = row]
  <2>1. j \in Ids /\ q[j] \in Row /\ Save(p)
    BY <1>2, <1>4, RowFacts DEF InState
  <2>2. row \in Row /\ AllXids(row) = AllXids(q[j])
    <3>1. "BUILDING" \in JobState
      BY DEF JobState
    <3>2. Keeps(q[j], row)
      BY <2>1, <3>1, SetState DEF ClaimForBuild
    <3> QED BY <3>2 DEF Keeps, AllXids
  <2>3. builder' = [builder EXCEPT !.pc = "plan", !.job = j, !.claimed = row]
    BY <1>4
  <2> HIDE DEF row
  <2>4. /\ p \in [Ids -> MaybeRow]
        /\ \A i \in Ids : p[i] = IF i = j THEN row ELSE q[i]
    BY <1>2, <2>1, <2>2 DEF MaybeRow
  <2> HIDE DEF p
  <2>5. queue[j] \in Row
    BY <1>2, <2>1, QueueConstantsOK
  <2>6. j \notin pass.fresh
    BY <2>1, <2>5, FreshUnminted
  <2>7. \A i \in pass.fresh : p[i] = queue[i]
    <3>1. SUFFICES ASSUME NEW i \in pass.fresh PROVE p[i] = queue[i]
      OBVIOUS
    <3>2. i \in Ids
      <4>1. pass.fresh \in SUBSET Ids
        BY Zenon DEF QueueInv, Holds, PassState
      <4> QED BY <4>1
    <3>3. queue[i] \notin Row
      BY <3>2, FreshUnminted
    <3> QED BY <1>2, <2>4, <2>6, <3>2, <3>3
  <2>8. queue' = p /\ dirty' \in SUBSET Ids /\ Holds(pass, queue', dirty')
    BY <2>1, <2>4, <2>7, SaveHolds
  <2>9. Stepped(queue, p)
    <3>1. ASSUME NEW i \in Ids PROVE RowStep(queue[i], p[i])
      <4>1. CASE i = j
        <5>1. q[j] = queue[j] \/ Edits(queue[j], q[j])
          BY <1>2, <2>1
        <5>2. AllXids(queue[j]) \subseteq AllXids(row)
          BY <2>2, <5>1 DEF Edits
        <5> QED BY <2>2, <2>4, <2>5, <4>1, <5>2 DEF RowStep
      <4>2. CASE i # j
        BY <1>2, <2>4, <4>2 DEF RowStep, Edits
      <4> QED BY <4>1, <4>2
    <3> QED BY <2>4, <3>1 DEF Stepped
  <2>10. OneBuild'
    <3>1. \A i \in Ids : Builds(p[i]) => i = j
      BY <1>2, <2>4
    <3>2. \A i \in InState(p, {"BUILDING"}) : i \in Ids /\ Builds(p[i])
      <4>1. \A i \in InState(p, {"BUILDING"}) : i \in Ids
        BY DEF InState
      <4> QED BY <2>4, <4>1, BuildingIs
    <3> QED BY <2>8, <3>1, <3>2 DEF OneBuild
  <2> QED BY <2>1, <2>2, <2>3, <2>8, <2>9, <2>10
<1> QED BY <1>1, <1>3, <1>4

\* What a pass merges back is among the writes.
LEMMA MergedIs ==
  ASSUME QueueInv, pass.pc # "idle"
  PROVE  Written(queue, Merged)
<1>1. queue \in [Ids -> MaybeRow] /\ CopyFits(pass, queue, dirty)
  BY DEF QueueInv, TypeOK, Holds
<1>2. ASSUME NEW j \in Ids
      PROVE  /\ Merged[j] \in MaybeRow
             /\ RowStep(queue[j], Merged[j]) /\ (Builds(Merged[j]) => Builds(queue[j]))
  <2>1. CASE j \in pass.fresh
    <3>1. queue[j] = Unminted /\ pass.copy[j] \in Row /\ pass.copy[j].state = "QUEUED"
      BY <1>1, <2>1 DEF CopyFits
    <3>2. Merged[j] = pass.copy[j]
      BY <2>1 DEF Merged
    <3> QED BY <3>1, <3>2 DEF RowStep, Builds, MaybeRow
  <2>2. CASE j \notin pass.fresh /\ j \in pass.touched \ dirty /\ IsRow(queue[j])
    <3>1. queue[j] \in Row /\ Edits(queue[j], pass.copy[j])
      BY <1>1, <2>2 DEF CopyFits
    <3>2. Merged[j] = pass.copy[j]
      BY <2>2 DEF Merged
    <3> QED BY <3>1, <3>2 DEF RowStep, Builds, MaybeRow, Edits
  <2>3. CASE j \notin pass.fresh /\ ~(j \in pass.touched \ dirty /\ IsRow(queue[j]))
    <3>1. Merged[j] = queue[j]
      BY <2>3 DEF Merged
    <3> QED BY <1>1, <3>1 DEF RowStep
  <2> QED BY <2>1, <2>2, <2>3
<1> QED BY <1>2 DEF Written, Merged

\* Between passes there is no snapshot to tell anything.
LEMMA BetweenHolds ==
  ASSUME NEW kind \in {"reconcile", "reroute"}, NEW q
  PROVE  Holds(Between(kind), q, {})
<1> DEFINE p == Between(kind)
<1>1. p \in PassState
  <2>1. NoCopy \in [Ids -> MaybeRow] /\ "idle" \in PassPC
    BY DEF NoCopy, MaybeRow, PassPC
  <2> HIDE DEF NoCopy
  <2> QED BY <2>1, Zenon DEF PassState, Between
<1>2. p.pc = "idle" /\ p.fresh = {} /\ p.todo = {} /\ p.touched = {}
  BY DEF Between
<1> HIDE DEF p
<1>3. PassFits(p) /\ CopyFits(p, q, {})
  BY <1>2 DEF PassFits, CopyFits
<1> QED BY <1>1, <1>3 DEF Holds, p

\* What the loop writes, and the begin and the end of its passes.
LEMMA PassWrites ==
  ASSUME QueueInv, Persist \/ Merge \/ LoopCrash \/ Begin("reconcile") \/ Begin("reroute")
  PROVE  Written(queue, queue') /\ dirty' \in SUBSET Ids /\ Holds(pass', queue', dirty')
<1>1. queue \in [Ids -> MaybeRow] /\ dirty \in SUBSET Ids /\ Holds(pass, queue, dirty)
  BY DEF QueueInv, TypeOK
<1>2. queue' = queue => Written(queue, queue')
  BY <1>1 DEF Written, RowStep
<1>3. CASE Persist
  <2>1. pass.pc = "persist" /\ Save(Merged) /\ pass' = [pass EXCEPT !.pc = "rows", !.row = NoId]
    BY <1>3 DEF Persist
  <2>2. Written(queue, Merged)
    BY <2>1, MergedIs
  <2>3. Merged \in [Ids -> MaybeRow]
    BY <2>2 DEF Written
  <2>4. pass.fresh = {}
    BY <2>1, MovingIs DEF Moving
  <2>5. queue' = Merged /\ dirty' \in SUBSET Ids /\ Holds(pass, queue', dirty')
    BY <2>1, <2>3, <2>4, SaveHolds
  <2>6. Holds(pass', queue', dirty')
    <3>1. NoId \in Ids \cup {NoId} /\ pass.pc # "idle"
      BY <2>1
    <3> QED BY <2>1, <2>5, <3>1, RowsHolds
  <2> QED BY <2>2, <2>5, <2>6
<1>4. CASE Merge
  <2>1. /\ pass.pc # "idle" /\ queue' = Merged /\ dirty' = {} /\ pass' = Between(pass.kind)
    BY <1>4 DEF Merge
  <2>2. pass.kind \in {"reconcile", "reroute"}
    BY <1>1, Zenon DEF Holds, PassState
  <2> QED BY <2>1, <2>2, MergedIs, BetweenHolds
<1>5. CASE LoopCrash
  BY <1>2, <1>5, BetweenHolds DEF LoopCrash
<1>6. ASSUME NEW kind \in {"reconcile", "reroute"}, Begin(kind)
      PROVE  Holds(pass', queue', dirty') /\ queue' = queue /\ dirty' = dirty
  <2> DEFINE Wanted(row) == IF kind = "reconcile" THEN Judgeable(row)
                                                  ELSE Movable(row) /\ moves < RerouteLimit
             t == {j \in Ids : IsRow(queue[j]) /\ Wanted(queue[j])}
             b == Between(kind)
             p == [b EXCEPT !.pc = "rows", !.copy = queue, !.todo = t]
  <2>1. pass' = p /\ queue' = queue /\ dirty' = dirty
    BY <1>6, Zenon DEF Begin
  <2>2. t \in SUBSET Ids /\ \A j \in t : queue[j] \in Row
    BY <1>1, RowFacts
  <2>3. b \in PassState /\ b.fresh = {} /\ b.touched = {}
    <3>1. b \in PassState
      BY BetweenHolds DEF Holds
    <3> QED BY <3>1 DEF Between
  <2> HIDE DEF t, b
  <2>4. /\ p \in PassState /\ p.pc = "rows" /\ p.copy = queue /\ p.todo = t
        /\ p.fresh = {} /\ p.touched = {}
    <3>1. "rows" \in PassPC
      BY DEF PassPC
    <3> QED BY <1>1, <2>2, <2>3, <3>1, Zenon DEF PassState
  <2> HIDE DEF p
  <2>5. PassFits(p) /\ CopyFits(p, queue, dirty)
    BY <2>2, <2>4 DEF PassFits, CopyFits
  <2> QED BY <2>1, <2>4, <2>5 DEF Holds
<1> QED BY <1>1, <1>2, <1>3, <1>4, <1>5, <1>6

-----------------------------------------------------------------------------
(* The types.                                                              *)

\* The types of what is not the queue, the builder or the pass.
WorldTyped ==
  /\ xm \in [Xids -> Experiment]
  /\ registry \in [Xids -> {"live", "cancelled", "moved"}]
  /\ orphans \in SUBSET [job : Ids, run : Ids, xid : Xids \cup {NoXid}]
  /\ moves \in Nat
  /\ crashes \in 0..MaxCrashes
  /\ stopped \in [Xids -> {"", "user", "router"}]

\* An experiment given a state is one.
LEMMA XmSet ==
  ASSUME xm \in [Xids -> Experiment], NEW x, NEW s \in XmState
  PROVE  [xm EXCEPT ![x].state = s] \in [Xids -> Experiment]
<1> DEFINE e == [xm[x] EXCEPT !.state = s]
           f == [xm EXCEPT ![x] = e]
<1>1. x \in Xids => e \in Experiment
  BY Zenon DEF Experiment
<1>2. [xm EXCEPT ![x].state = s] = f
  BY Zenon
<1> HIDE DEF e
<1>3. f \in [Xids -> Experiment]
  BY <1>1
<1> QED BY <1>2, <1>3

\* A created experiment is one.
LEMMA CreatedIs ==
  ASSUME TypeOK, XidsLeft, NEW j \in Ids, NEW r \in Ids, Created(j, r)
  PROVE  xm' \in [Xids -> Experiment] /\ NextXid \in Xids
<1> DEFINE e == [state |-> "empty", job |-> j, run |-> r]
           x == NextXid
<1>1. e \in Experiment
  BY DEF Experiment, XmState
<1>2. x \in Xids
  BY NextXidIs
<1>3. xm' = [xm EXCEPT ![x] = e]
  BY DEF Created
<1> HIDE DEF e, x
<1>4. xm' \in [Xids -> Experiment]
  BY <1>1, <1>3 DEF TypeOK
<1> QED BY <1>2, <1>4 DEF x

\* A child left behind keeps those types.
LEMMA OrphanTyped ==
  ASSUME QueueInv, NEW o \in orphans, OrphanStep(o)
  PROVE  WorldTyped'
<1>1. TypeOK /\ WorldTyped
  BY DEF QueueInv, TypeOK, WorldTyped
<1>2. o \in [job : Ids, run : Ids, xid : Xids \cup {NoXid}]
  BY <1>1 DEF WorldTyped
<1>3. /\ xm' \in [Xids -> Experiment]
      /\ orphans' \in SUBSET [job : Ids, run : Ids, xid : Xids \cup {NoXid}]
  <2>1. CASE /\ XidsLeft /\ Created(o.job, o.run)
             /\ orphans' = (orphans \ {o}) \cup {[o EXCEPT !.xid = NextXid]}
    <3>1. xm' \in [Xids -> Experiment] /\ NextXid \in Xids
      BY <1>1, <1>2, <2>1, CreatedIs
    <3> DEFINE x == NextXid
    <3>2. x \in Xids \cup {NoXid}
      BY <3>1
    <3> HIDE DEF x
    <3>3. [o EXCEPT !.xid = x] \in [job : Ids, run : Ids, xid : Xids \cup {NoXid}]
      BY <1>2, <3>2, Zenon
    <3> QED BY <1>1, <2>1, <3>1, <3>3 DEF WorldTyped, x
  <2>2. CASE xm' = [xm EXCEPT ![o.xid].state = "pending"] /\ orphans' = orphans \ {o}
    BY <1>1, <2>2, XmSet DEF WorldTyped, XmState
  <2>3. CASE xm' = xm /\ orphans' = orphans \ {o}
    BY <1>1, <2>3 DEF WorldTyped
  <2> QED BY <2>1, <2>2, <2>3 DEF OrphanStep
<1> QED BY <1>1, <1>3 DEF OrphanStep, WorldTyped

\* A cancel of the router keeps them.
LEMMA RouterTyped ==
  ASSUME TypeOK, NEW x, RouterCancels(x)
  PROVE  /\ xm' \in [Xids -> Experiment]
         /\ registry' \in [Xids -> {"live", "cancelled", "moved"}]
         /\ stopped' \in [Xids -> {"", "user", "router"}]
<1>1. xm' \in [Xids -> Experiment]
  <2>1. xm' = xm \/ xm' = [xm EXCEPT ![x].state = "stopped"]
    BY DEF RouterCancels
  <2>2. xm \in [Xids -> Experiment] /\ "stopped" \in XmState
    BY DEF TypeOK, XmState
  <2>3. [xm EXCEPT ![x].state = "stopped"] \in [Xids -> Experiment]
    BY <2>2, XmSet
  <2> QED BY <2>1, <2>2, <2>3, Zenon
<1>2. /\ registry' \in [Xids -> {"live", "cancelled", "moved"}]
      /\ stopped' \in [Xids -> {"", "user", "router"}]
  BY DEF RouterCancels, TypeOK
<1> QED BY <1>1, <1>2

\* Every step keeps them.
LEMMA WorldKept ==
  ASSUME QueueInv, Next
  PROVE  WorldTyped'
<1>1. TypeOK /\ WorldTyped
  BY DEF QueueInv, TypeOK, WorldTyped
<1>2. CASE UserStep
  <2>1. ASSUME NEW j \in Ids, Enqueue(j) \/ RequeueRow(j) \/ ClearRow(j)
        PROVE  WorldTyped'
    BY <1>1, <2>1 DEF WorldTyped, Enqueue, RequeueRow, ClearRow, world
  <2>2. ASSUME NEW x \in Xids, UserStop(x)
        PROVE  WorldTyped'
    <3>1. xm' \in [Xids -> Experiment]
      BY <1>1, <2>2, XmSet DEF UserStop, WorldTyped, XmState
    <3> QED BY <1>1, <2>2, <3>1 DEF WorldTyped, UserStop
  <2>3. ASSUME NEW x \in Xids, UserMark(x)
        PROVE  WorldTyped'
    BY <1>1, <2>3 DEF WorldTyped, UserMark
  <2> QED BY <1>2, <2>1, <2>2, <2>3 DEF UserStep
<1>3. CASE XManager
  <2>1. ASSUME NEW x \in Xids, NEW from, NEW to \in XmState, Evolve(x, from, to)
        PROVE  WorldTyped'
    <3>1. xm' \in [Xids -> Experiment]
      BY <1>1, <2>1, XmSet DEF Evolve, WorldTyped
    <3> QED BY <1>1, <2>1, <3>1 DEF WorldTyped, Evolve
  <2> QED BY <1>3, <2>1 DEF XManager, XmState
<1>4. CASE \E o \in orphans : OrphanStep(o)
  BY <1>4, OrphanTyped
<1>5. CASE BuilderStep
  <2>1. CASE \/ Dispatch \/ Apply \/ Claim \/ PlanHold \/ PlanRequeue \/ PlanAdopt \/ PlanBuild
             \/ Bind \/ Record \/ \E end \in BuildEnds : EndEarly(end)
    BY <1>1, <2>1 DEF WorldTyped, Dispatch, Apply, Claim, PlanHold, PlanRequeue, PlanAdopt,
                      PlanBuild, Bind, Record, EndEarly, world
  <2>2. CASE Create
    <3>1. builder.job \in Ids /\ builder.claimed.run \in Ids
      BY <2>2 DEF QueueInv, BuilderTells, Create, Row
    <3>2. xm' \in [Xids -> Experiment]
      BY <1>1, <2>2, <3>1, CreatedIs DEF Create
    <3> QED BY <1>1, <2>2, <3>2 DEF WorldTyped, Create
  <2>3. ASSUME NEW end \in BuildEnds, End(end)
        PROVE  WorldTyped'
    <3>1. \/ xm' = [xm EXCEPT ![builder.xid].state = "pending"]
          \/ xm' = [xm EXCEPT ![builder.xid].state = "stopped"]
          \/ xm' = xm
      BY <2>3 DEF End
    <3>2. xm' \in [Xids -> Experiment]
      <4>1. xm \in [Xids -> Experiment] /\ "stopped" \in XmState /\ "pending" \in XmState
        BY <1>1 DEF WorldTyped, XmState
      <4>2. [xm EXCEPT ![builder.xid].state = "pending"] \in [Xids -> Experiment]
        BY <4>1, XmSet
      <4>3. [xm EXCEPT ![builder.xid].state = "stopped"] \in [Xids -> Experiment]
        BY <4>1, XmSet
      <4> QED BY <3>1, <4>1, <4>2, <4>3, Zenon
    <3> QED BY <1>1, <2>3, <3>2 DEF WorldTyped, End
  <2> QED BY <1>5, <2>1, <2>2, <2>3 DEF BuilderStep
<1>6. CASE BuilderCrash
  <2>1. crashes' \in 0..MaxCrashes
    <3>1. MaxCrashes \in Nat /\ crashes \in 0..MaxCrashes
      BY <1>1, QueueConstantsOK DEF WorldTyped
    <3>2. crashes < MaxCrashes /\ crashes' = crashes + 1
      BY <1>6 DEF BuilderCrash
    <3> QED BY <3>1, <3>2
  <2>2. orphans' \in SUBSET [job : Ids, run : Ids, xid : Xids \cup {NoXid}]
    <3>1. CASE orphans' = orphans
      BY <1>1, <3>1 DEF WorldTyped
    <3>2. CASE /\ builder.pc \in {"build", "created", "bound"}
               /\ orphans' = orphans \cup
                    {[job |-> builder.job, run |-> builder.claimed.run, xid |-> builder.xid]}
      <4>1. builder.job \in Ids /\ builder.claimed.run \in Ids
        BY <3>2 DEF QueueInv, BuilderTells, Row
      <4>2. builder.xid \in Xids \cup {NoXid}
        BY <1>1, Zenon DEF TypeOK, BuilderState
      <4> DEFINE o == [job |-> builder.job, run |-> builder.claimed.run, xid |-> builder.xid]
      <4>3. o \in [job : Ids, run : Ids, xid : Xids \cup {NoXid}]
        BY <4>1, <4>2
      <4>4. orphans' = orphans \cup {o}
        BY <3>2
      <4> HIDE DEF o
      <4> QED BY <1>1, <4>3, <4>4 DEF WorldTyped
    <3> QED BY <1>6, <3>1, <3>2 DEF BuilderCrash
  <2> QED BY <1>1, <1>6, <2>1, <2>2 DEF WorldTyped, BuilderCrash, world
<1>7. CASE LoopStep
  <2>1. CASE \/ Begin("reconcile") \/ Begin("reroute")
             \/ \E s \in XmStatus : Confirm(s)
             \/ Persist \/ Merge
    BY <1>1, <2>1 DEF WorldTyped, Begin, Confirm, Persist, Merge, world
  <2>2. ASSUME NEW j \in Ids, NEW s \in XmStatus,
               \/ Settle(j, s) \/ SettleCancelled(j, s) \/ Postpone(j, s)
               \/ Restart(j, s) \/ Bury(j, s) \/ Park(j, s)
               \/ Pass(j, s) \/ Flag(j, s) \/ Promote(j, s) \/ Suspect(j, s)
        PROVE  WorldTyped'
    BY <1>1, <2>2 DEF WorldTyped, Settle, SettleCancelled, Postpone, Restart, Bury, Park,
                      Pass, Flag, Promote, Suspect, world
  <2>3. CASE Cancel
    <3>1. moves' \in Nat /\ UNCHANGED <<orphans, crashes>>
      <4>1. moves' = moves + 1 /\ UNCHANGED <<orphans, crashes>>
        BY <2>3 DEF Cancel
      <4>2. moves \in Nat
        BY <1>1 DEF WorldTyped
      <4> QED BY <4>1, <4>2
    <3> QED BY <1>1, <2>3, <3>1, RouterTyped DEF Cancel, WorldTyped
  <2>4. CASE CancelFails
    <3>1. UNCHANGED world \/ RouterCancels(XidOf(pass.copy[pass.row]))
      BY <2>4 DEF CancelFails
    <3>2. UNCHANGED <<orphans, moves, crashes>>
      BY <2>4 DEF CancelFails
    <3>3. CASE UNCHANGED world
      BY <1>1, <3>2, <3>3 DEF world, WorldTyped
    <3>4. CASE RouterCancels(XidOf(pass.copy[pass.row]))
      BY <1>1, <3>2, <3>4, RouterTyped DEF WorldTyped
    <3> QED BY <3>1, <3>3, <3>4
  <2>5. CASE Archive
    BY <1>1, <2>5 DEF Archive, WorldTyped
  <2> QED BY <1>7, <2>1, <2>2, <2>3, <2>4, <2>5 DEF LoopStep
<1>8. CASE LoopCrash
  <2>1. MaxCrashes \in Nat /\ crashes \in 0..MaxCrashes
    BY <1>1, QueueConstantsOK DEF WorldTyped
  <2>2. crashes < MaxCrashes /\ crashes' = crashes + 1
    BY <1>8 DEF LoopCrash
  <2>3. crashes' \in 0..MaxCrashes
    BY <2>1, <2>2
  <2> QED BY <1>1, <1>8, <2>3 DEF LoopCrash, WorldTyped, world
<1> QED BY <1>2, <1>3, <1>4, <1>5, <1>6, <1>7, <1>8 DEF Next

\* A builder that starts has its type.
LEMMA AtDispatchTyped == AtDispatch \in BuilderState
<1>1. "dispatch" \in BuilderPC
  BY DEF BuilderPC
<1> QED BY <1>1, Zenon DEF AtDispatch, BuilderState

\* Every step keeps the builder's type, and what its place tells.
LEMMA BuilderKept ==
  ASSUME QueueInv, Next
  PROVE  builder' \in BuilderState /\ BuilderTells'
<1>1. TypeOK /\ BuilderTells /\ builder \in BuilderState
  BY DEF QueueInv, TypeOK
<1>2. builder' = builder => builder' \in BuilderState /\ BuilderTells'
  BY <1>1 DEF BuilderTells
<1>3. builder' = AtDispatch => builder' \in BuilderState /\ BuilderTells'
  <2>1. AtDispatch.pc = "dispatch"
    BY DEF AtDispatch
  <2> QED BY <2>1, AtDispatchTyped DEF BuilderTells
<1>4. ASSUME NEW l \in BuilderPC, builder' = [builder EXCEPT !.pc = l]
      PROVE  /\ builder' \in BuilderState /\ builder'.pc = l /\ builder'.job = builder.job
             /\ builder'.claimed = builder.claimed /\ builder'.xid = builder.xid
  BY <1>1, <1>4, Zenon DEF BuilderState
<1>5. ASSUME BuilderStep
      PROVE  builder' \in BuilderState /\ BuilderTells'
  <2>1. CASE Dispatch
    <3>1. \/ builder' = [builder EXCEPT !.pc = "claim"]
          \/ \E q : builder' = [builder EXCEPT !.pc = "apply", !.queued = InState(q, {"QUEUED"})]
      BY <2>1 DEF Dispatch
    <3>2. CASE builder' = [builder EXCEPT !.pc = "claim"]
      BY <1>4, <3>2 DEF BuilderTells, BuilderPC
    <3>3. ASSUME NEW q,
                 builder' = [builder EXCEPT !.pc = "apply", !.queued = InState(q, {"QUEUED"})]
          PROVE  builder' \in BuilderState /\ BuilderTells'
      <4> DEFINE t == InState(q, {"QUEUED"})
      <4>1. t \in SUBSET Ids /\ "apply" \in BuilderPC
        BY DEF InState, BuilderPC
      <4>2. builder' = [builder EXCEPT !.pc = "apply", !.queued = t]
        BY <3>3
      <4> HIDE DEF t
      <4>3. builder' \in BuilderState /\ builder'.pc = "apply"
        BY <1>1, <4>1, <4>2, Zenon DEF BuilderState
      <4> QED BY <4>3 DEF BuilderTells
    <3> QED BY <3>1, <3>2, <3>3
  <2>2. CASE Apply
    <3>1. "claim" \in BuilderPC /\ {} \in SUBSET Ids
      BY DEF BuilderPC
    <3>2. builder' \in BuilderState /\ builder'.pc = "claim"
      BY <1>1, <2>2, <3>1, Zenon DEF Apply, BuilderState
    <3> QED BY <3>2 DEF BuilderTells
  <2>3. CASE Claim
    <3>1. ASSUME NEW j \in Ids, NEW row \in Row,
                 builder' = [builder EXCEPT !.pc = "plan", !.job = j, !.claimed = row]
          PROVE  builder' \in BuilderState /\ BuilderTells'
      <4>1. "plan" \in BuilderPC /\ j \in Ids \cup {NoId} /\ row \in Row \cup {Unminted}
        BY DEF BuilderPC
      <4>2. /\ builder' \in BuilderState /\ builder'.pc = "plan" /\ builder'.job = j
            /\ builder'.claimed = row
        BY <1>1, <3>1, <4>1, Zenon DEF BuilderState
      <4> QED BY <4>2 DEF BuilderTells
    <3> QED BY <1>3, <2>3, <3>1, ClaimWrites
  <2>4. CASE PlanHold \/ PlanRequeue \/ PlanAdopt \/ Record
    BY <1>3, <2>4 DEF PlanHold, PlanRequeue, PlanAdopt, Record
  <2>5. CASE PlanBuild
    <3>1. builder.pc = "plan" /\ builder' = [builder EXCEPT !.pc = "build"]
      BY <2>5 DEF PlanBuild, BuilderAt
    <3> QED BY <1>1, <1>4, <3>1 DEF BuilderTells, BuilderPC
  <2>6. CASE Create
    <3>1. builder.pc = "build" /\ XidsLeft
          /\ builder' = [builder EXCEPT !.pc = "created", !.xid = NextXid]
      BY <2>6 DEF Create
    <3> DEFINE x == NextXid
    <3>2. x \in Xids /\ x \in Xids \cup {NoXid} /\ "created" \in BuilderPC
      BY <1>1, <3>1, NextXidIs DEF BuilderPC
    <3>3. builder' = [builder EXCEPT !.pc = "created", !.xid = x]
      BY <3>1
    <3> HIDE DEF x
    <3>4. /\ builder' \in BuilderState /\ builder'.pc = "created" /\ builder'.job = builder.job
          /\ builder'.claimed = builder.claimed /\ builder'.xid = x
      BY <1>1, <3>2, <3>3, Zenon DEF BuilderState
    <3> QED BY <1>1, <3>1, <3>2, <3>4 DEF BuilderTells
  <2>7. CASE Bind
    <3>1. builder.pc = "created" /\ builder' = [builder EXCEPT !.pc = "bound"]
      BY <2>7 DEF Bind, BuilderAt
    <3> QED BY <1>1, <1>4, <3>1 DEF BuilderTells, BuilderPC
  <2>8. ASSUME NEW end \in BuildEnds, EndEarly(end) \/ End(end)
        PROVE  builder' \in BuilderState /\ BuilderTells'
    <3>1. builder.pc \in {"build", "bound"}
          /\ builder' = [builder EXCEPT !.pc = "record", !.end = end]
      BY <2>8 DEF EndEarly, End
    <3>2. "record" \in BuilderPC /\ end \in BuildEnds \cup {""}
      BY DEF BuilderPC
    <3>3. /\ builder' \in BuilderState /\ builder'.pc = "record" /\ builder'.job = builder.job
          /\ builder'.claimed = builder.claimed
      BY <1>1, <3>1, <3>2, Zenon DEF BuilderState
    <3> QED BY <1>1, <3>1, <3>3 DEF BuilderTells
  <2> QED BY <1>5, <2>1, <2>2, <2>3, <2>4, <2>5, <2>6, <2>7, <2>8 DEF BuilderStep
<1>6. ASSUME \/ UserStep \/ XManager \/ \E o \in orphans : OrphanStep(o)
             \/ LoopStep \/ LoopCrash
      PROVE  builder' = builder
  <2>1. CASE UserStep \/ XManager \/ \E o \in orphans : OrphanStep(o)
    BY <2>1 DEF UserStep, Enqueue, RequeueRow, ClearRow, UserStop, UserMark, XManager, Evolve,
       OrphanStep
  <2>2. CASE LoopStep \/ LoopCrash
    BY <2>2, ZenonT(40) DEF LoopStep, LoopCrash, Begin, Settle, SettleCancelled, Postpone, Restart, Bury,
       Park,
                Pass, Flag, Promote, Suspect, Confirm, Cancel, CancelFails, Archive, Persist, Merge
  <2> QED BY <1>6, <2>1, <2>2
<1>7. BuilderCrash => builder' = AtDispatch
  BY DEF BuilderCrash
<1> QED BY <1>2, <1>3, <1>5, <1>6, <1>7 DEF Next

-----------------------------------------------------------------------------
(* The invariant is inductive.                                             *)

\* Every step writes the queue as above, keeps the slot single and what the snapshot tells.
LEMMA QueueKept ==
  ASSUME QueueInv, Next
  PROVE  /\ Stepped(queue, queue') /\ OneBuild' /\ dirty' \in SUBSET Ids
         /\ Holds(pass', queue', dirty')
<1> DEFINE Goal == /\ Stepped(queue, queue') /\ OneBuild' /\ dirty' \in SUBSET Ids
                   /\ Holds(pass', queue', dirty')
<1>1. queue \in [Ids -> MaybeRow] /\ dirty \in SUBSET Ids /\ Holds(pass, queue, dirty) /\ OneBuild
  BY DEF QueueInv, TypeOK
<1> SUFFICES Goal
  OBVIOUS
<1>2. Written(queue, queue') /\ dirty' \in SUBSET Ids /\ Holds(pass', queue', dirty') => Goal
  BY WrittenOneBuild
<1>3. queue' = queue /\ dirty' = dirty /\ Holds(pass', queue, dirty) => Goal
  <2>1. queue' = queue => Written(queue, queue')
    BY <1>1 DEF Written, RowStep
  <2> QED BY <1>1, <1>2, <2>1
<1>4. queue' = queue /\ dirty' = dirty /\ pass' = pass => Goal
  BY <1>1, <1>3
<1> HIDE DEF Goal
<1>5. CASE UserStep
  <2>1. ASSUME NEW j \in Ids, Enqueue(j) \/ RequeueRow(j) \/ ClearRow(j)
        PROVE  Goal
    <3>1. pass' = pass
      BY <2>1 DEF Enqueue, RequeueRow, ClearRow
    <3> QED BY <1>2, <2>1, <3>1, UserWrites
  <2>2. ASSUME NEW x \in Xids, UserStop(x) \/ UserMark(x)
        PROVE  Goal
    <3>1. queue' = queue /\ dirty' = dirty /\ pass' = pass
      BY <2>2 DEF UserStop, UserMark
    <3> QED BY <1>4, <3>1
  <2> QED BY <1>5, <2>1, <2>2 DEF UserStep
<1>6. CASE XManager \/ \E o \in orphans : OrphanStep(o)
  <2>1. queue' = queue /\ dirty' = dirty /\ pass' = pass
    BY <1>6 DEF XManager, Evolve, OrphanStep
  <2> QED BY <1>4, <2>1
<1>7. CASE BuilderStep
  <2>1. pass' = pass
    BY <1>7 DEF BuilderStep, Dispatch, Apply, Claim, PlanHold, PlanRequeue, PlanAdopt, PlanBuild,
                Create, Bind, Record, EndEarly, End
  <2>2. CASE \/ Dispatch \/ Apply
             \/ PlanHold \/ PlanRequeue \/ PlanAdopt \/ Bind \/ Record
    <3> QED BY <1>2, <2>1, <2>2, DispatchWrites, BuildWrites
  <2>3. CASE Claim
    BY <2>1, <2>3, ClaimWrites DEF Goal
  <2>4. CASE PlanBuild \/ Create \/ \E end \in BuildEnds : EndEarly(end) \/ End(end)
    <3>1. queue' = queue /\ dirty' = dirty
      BY <2>4 DEF PlanBuild, Create, EndEarly, End
    <3> QED BY <1>4, <2>1, <3>1
  <2> QED BY <1>7, <2>2, <2>3, <2>4 DEF BuilderStep
<1>8. CASE BuilderCrash
  <2>1. queue' = queue /\ dirty' = dirty /\ pass' = pass
    BY <1>8 DEF BuilderCrash
  <2> QED BY <1>4, <2>1
<1>9. CASE LoopStep
  <2>1. CASE Begin("reconcile") \/ Begin("reroute") \/ Persist \/ Merge
    <3> QED BY <1>2, <2>1, PassWrites
  <2>2. ASSUME NEW j \in Ids, NEW s \in XmStatus,
               \/ Settle(j, s) \/ SettleCancelled(j, s) \/ Postpone(j, s)
               \/ Restart(j, s) \/ Bury(j, s) \/ Park(j, s)
               \/ Pass(j, s) \/ Flag(j, s) \/ Promote(j, s) \/ Suspect(j, s)
        PROVE  Goal
    <3>1. queue' = queue /\ dirty' = dirty
      BY <2>2 DEF Settle, SettleCancelled, Postpone, Restart, Bury, Park, Pass, Flag, Promote,
         Suspect
    <3>2. Holds(pass', queue, dirty)
      BY <2>2, ReconcileHolds, RestartHolds, SweepHolds
    <3> QED BY <1>3, <3>1, <3>2
  <2>3. CASE (\E s \in XmStatus : Confirm(s)) \/ Cancel \/ CancelFails \/ Archive
    <3>1. queue' = queue /\ dirty' = dirty
      BY <2>3 DEF Confirm, Cancel, CancelFails, Archive
    <3>2. Holds(pass', queue, dirty)
      BY <2>3, MoveHolds
    <3> QED BY <1>3, <3>1, <3>2
  <2> QED BY <1>9, <2>1, <2>2, <2>3 DEF LoopStep
<1>10. CASE LoopCrash
  <2> QED BY <1>2, <1>10, PassWrites
<1> QED BY <1>5, <1>6, <1>7, <1>8, <1>9, <1>10 DEF Next

\* The invariant holds at first.
LEMMA InitInv == Init => QueueInv
<1> SUFFICES ASSUME Init PROVE QueueInv
  OBVIOUS
<1>1. queue \in [Ids -> MaybeRow] /\ OneBuild
  BY RowFacts DEF Init, NoCopy, MaybeRow, OneBuild, InState
<1>2. builder \in BuilderState /\ BuilderTells
  BY AtDispatchTyped DEF Init, BuilderTells, AtDispatch
<1>3. Holds(pass, queue, dirty)
  BY BetweenHolds DEF Init
<1>4. xm \in [Xids -> Experiment]
  <2>1. NoExperiment \in Experiment
    BY DEF NoExperiment, Experiment, XmState
  <2> HIDE DEF NoExperiment
  <2> QED BY <2>1 DEF Init
<1>5. WorldTyped /\ dirty \in SUBSET Ids
  <2>1. 0 \in 0..MaxCrashes
    BY QueueConstantsOK
  <2> QED BY <1>4, <2>1 DEF Init, WorldTyped
<1> QED BY <1>1, <1>2, <1>3, <1>5 DEF QueueInv, TypeOK, WorldTyped, Holds

\* Every step keeps it.
LEMMA StepInv ==
  QueueInv /\ [Next]_vars => QueueInv' /\ Stepped(queue, queue')
<1> SUFFICES ASSUME QueueInv, [Next]_vars
             PROVE  QueueInv' /\ Stepped(queue, queue')
  OBVIOUS
<1>1. CASE UNCHANGED vars
  <2>1. QueueInv'
    BY <1>1 DEF vars, QueueInv, TypeOK, BuilderTells, Holds, CopyFits, PassFits, OneBuild
  <2>2. Stepped(queue, queue')
    BY <1>1 DEF vars, QueueInv, TypeOK, Stepped, RowStep
  <2> QED BY <2>1, <2>2
<1>2. CASE Next
  <2>1. WorldTyped' /\ builder' \in BuilderState /\ BuilderTells'
    BY <1>2, WorldKept, BuilderKept
  <2>2. /\ Stepped(queue, queue') /\ OneBuild' /\ dirty' \in SUBSET Ids
        /\ Holds(pass', queue', dirty')
    BY <1>2, QueueKept
  <2>3. TypeOK'
    BY <2>1, <2>2 DEF TypeOK, WorldTyped, Stepped, Holds
  <2> QED BY <2>1, <2>2, <2>3 DEF QueueInv
<1> QED BY <1>1, <1>2

\* The inductive invariant holds in every reachable state.
THEOREM QueueInvariant == Spec => []QueueInv
<1>1. QueueInv /\ [Next]_vars => QueueInv'
  BY StepInv
<1> QED BY <1>1, InitInv, PTL DEF Spec

-----------------------------------------------------------------------------
(* What follows.                                                           *)

\* Every variable of the queue, its builder, its loop and XManager keeps its type.
THEOREM TypeCorrect == Spec => []TypeOK
<1>1. QueueInv => TypeOK
  BY DEF QueueInv
<1> QED BY <1>1, QueueInvariant, PTL

\* At most one row is BUILDING, whichever builder died, whatever the loop merges back from a
\* snapshot of before the claim, and whatever users clear or requeue (route_check.py,
\* claim_next_build: "the serial lock").
THEOREM SingleBuildSlot == Spec => []OneBuild
<1>1. QueueInv => OneBuild
  BY DEF QueueInv
<1> QED BY <1>1, QueueInvariant, PTL

\* One step as XidsKept wants it.
KeepsXids == \A j \in Ids : IsRow(queue[j]) /\ IsRow(queue'[j]) =>
                AllXids(queue[j]) \subseteq AllXids(queue'[j])

\* No write of the queue file loses an experiment that a row has recorded: not the merge of a pass
\* whose snapshot predates it, and no update by a builder that claimed the row long ago.
THEOREM NoXidLost == Spec => XidsKept
<1>1. QueueInv /\ [Next]_vars => [KeepsXids]_vars
  <2> SUFFICES ASSUME QueueInv, [Next]_vars, NEW j \in Ids, IsRow(queue[j]), IsRow(queue'[j])
               PROVE  AllXids(queue[j]) \subseteq AllXids(queue'[j])
    BY DEF KeepsXids
  <2>1. RowStep(queue[j], queue'[j])
    BY StepInv DEF Stepped
  <2> QED BY <2>1, RowFacts DEF RowStep
<1> QED BY <1>1, QueueInvariant, PTL DEF Spec, XidsKept, KeepsXids

\* One step as ClearedStays wants it.
StaysCleared == \A j \in Ids : queue[j] = Cleared => queue'[j] = Cleared

\* A row a user has cleared never comes back: not from a pass that has it in its snapshot, and not
\* from a builder that still works for it (merge_and_save_touched: "Rows deleted concurrently are
\* not resurrected").
THEOREM ClearedForGood == Spec => ClearedStays
<1>1. QueueInv /\ [Next]_vars => [StaysCleared]_vars
  <2> SUFFICES ASSUME QueueInv, [Next]_vars, NEW j \in Ids, queue[j] = Cleared
               PROVE  queue'[j] = Cleared
    BY DEF StaysCleared
  <2>1. RowStep(queue[j], queue'[j])
    BY StepInv DEF Stepped
  <2> QED BY <2>1, QueueConstantsOK DEF RowStep
<1> QED BY <1>1, QueueInvariant, PTL DEF Spec, ClearedStays, StaysCleared

=============================================================================
