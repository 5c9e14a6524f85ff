----------------------------- MODULE WriterProofs -----------------------------
(***************************************************************************)
(* Theorems about the safety of JobQueue, for any number of jobs and       *)
(* experiments, however many crashes, restarts and re-routes: no two live  *)
(* experiments write for one run, a live experiment belongs to a row that  *)
(* still stands for it, and none escapes its row.                          *)
(*                                                                         *)
(* They hold under Safe, which excludes what the code does not, and what   *)
(* breaks them: a build that ends without launching what it made, a child  *)
(* that outlives its builder, a package directory that is missing, and a   *)
(* row held for want of evidence that a user sends back.                   *)
(*                                                                         *)
(* They follow from one inductive invariant, WriterInv.  An experiment is  *)
(* hot while it runs, or may come to run.  A row has at most one hot       *)
(* experiment, its newest, or one it has not recorded and still asks for;  *)
(* and of the rows of one run, at most one is active: it may bring an      *)
(* experiment forth, or has a hot one.                                     *)
(***************************************************************************)
EXTENDS JobQueueProofs

\* What must not happen for the theorems below: a build that ends without its launch
\* line once it has made its experiment, with no work units ("nolaunch") or with work
\* units that failed ("zombie"); a child of the builder that outlives it ("orphan"); no
\* package directory for a job when it is planned ("nodir"); and users who requeue rows
\* that were held because their evidence could not be read. The code excludes none of
\* them: the theorems say that nothing else brings two writers about.
Safe ==
  /\ "nolaunch" \notin BuildEnds /\ "zombie" \notin BuildEnds
  /\ "orphan" \notin Faults /\ "nodir" \notin Faults
  /\ "requeue" \in Users => "unreadable" \notin Evidence

-----------------------------------------------------------------------------
(* What the operations do to the experiments of a row.                     *)

\* b is `a` as far as its run and its experiments go.
Same(a, b) ==
  /\ b \in Row /\ b.run = a.run /\ AllXids(b) = AllXids(a) /\ XidOf(b) = XidOf(a)
  /\ HasLive(b) <=> HasLive(a)

\* b is `a`, except that its newest submission may have ended.
Softer(a, b) ==
  /\ b \in Row /\ b.run = a.run /\ AllXids(b) = AllXids(a)
  /\ HasLive(b) => HasLive(a) /\ XidOf(b) = XidOf(a)
  /\ XidOf(b) \in {XidOf(a), NoXid}

\* b is `a` with a submission of experiment x opened.
Grown(a, b, x) ==
  /\ b \in Row /\ b.run = a.run /\ AllXids(b) = AllXids(a) \cup {x} /\ XidOf(b) = x /\ HasLive(b)

\* Setting fields other than the run and the submissions leaves a row the same.
LEMMA KeepsSame ==
  ASSUME NEW row \in Row, NEW r, Keeps(row, r)
  PROVE  Same(row, r)
BY DEF Keeps, Same, AllXids, XidOf, HasLive, Newest

\* The same row is a softer one.
LEMMA SameSofter ==
  ASSUME NEW row, NEW r, Same(row, r)
  PROVE  Softer(row, r)
BY DEF Same, Softer

\* Two such steps make one.
LEMMA SofterChain ==
  ASSUME NEW row, NEW r, NEW t, Softer(row, r), Softer(r, t)
  PROVE  Softer(row, t)
BY DEF Softer

\* The same of being the same.
LEMMA SameChain ==
  ASSUME NEW row, NEW r, NEW t, Same(row, r), Same(r, t)
  PROVE  Same(row, t)
BY DEF Same

\* The experiments of a row are experiments, and a live row is bound to one of them.
LEMMA XidsAre ==
  ASSUME NEW row \in Row
  PROVE  /\ AllXids(row) \subseteq Xids
         /\ XidOf(row) \in Xids \cup {NoXid}
         /\ XidOf(row) # NoXid => XidOf(row) \in AllXids(row)
         /\ HasLive(row) => XidOf(row) # NoXid
         /\ NoXid \notin Xids
<1>1. NoXid \notin Xids
  BY RowConstantsOK DEF NoXid, Xids
<1>2. \A i \in Steps(row) : row.submissions[i].xid \in Xids
  <2>1. row.submissions \in Seq(Submission)
    BY DEF Row
  <2>2. \A i \in Steps(row) : row.submissions[i] \in Submission
    BY <2>1 DEF Steps
  <2> QED BY <2>2 DEF Submission
<1>3. AllXids(row) \subseteq Xids
  BY <1>2 DEF AllXids, Steps
<1>4. row.submissions # <<>> => Newest(row).xid \in AllXids(row) /\ Newest(row).xid \in Xids
  BY <1>3, NewestIs
<1>5. HasLive(row) => Newest(row).state # "SUPERSEDED"
  BY DEF HasLive, SubLive
<1> QED BY <1>1, <1>3, <1>4, <1>5 DEF XidOf, HasLive

\* Resolve ends the newest submission or keeps it live, and loses none.
LEMMA ResolveView ==
  ASSUME NEW row \in Row, NEW s \in SubLive \cup SubEnded
  PROVE  LET r == Resolve(row, s) IN
         /\ Softer(row, r) /\ r.state = row.state
         /\ s \in SubLive => Same(row, r)
         /\ s \notin SubLive => ~HasLive(r)
<1> DEFINE r == Resolve(row, s)
<1>1. /\ r \in Row /\ r.run = row.run /\ r.state = row.state
      /\ Len(r.submissions) = Len(row.submissions)
      /\ \A i \in Steps(row) : r.submissions[i].xid = row.submissions[i].xid
      /\ HasLive(row) => Newest(r).state = s
      /\ ~HasLive(row) => r = row
  BY ResolveIs
<1> HIDE DEF r
<1>2. AllXids(r) = AllXids(row)
  <2>1. Steps(r) = Steps(row)
    BY <1>1 DEF Steps
  <2> QED BY <1>1, <2>1 DEF AllXids, Steps
<1>3. CASE ~HasLive(row)
  BY <1>1, <1>3 DEF Softer, Same, r
<1>4. CASE HasLive(row)
  <2>1. row.submissions # <<>> /\ Len(row.submissions) \in Steps(row)
        /\ Newest(row).state \in SubLive
    BY <1>4, NewestIs DEF HasLive
  <2>2. Newest(r).xid = Newest(row).xid
    BY <1>1, <2>1 DEF Newest
  <2>3. r.submissions # <<>>
    BY <1>1, <2>1 DEF Steps
  <2>4. Newest(row).state # "SUPERSEDED"
    BY <2>1 DEF SubLive
  <2>5. XidOf(row) = Newest(row).xid
    BY <2>1, <2>4 DEF XidOf
  <2>6. XidOf(r) = IF s = "SUPERSEDED" THEN NoXid ELSE XidOf(row)
    BY <1>1, <1>4, <2>2, <2>3, <2>5 DEF XidOf
  <2>7. HasLive(r) <=> s \in SubLive
    BY <1>1, <1>4, <2>3 DEF HasLive
  <2>8. s \in SubLive => s # "SUPERSEDED"
    BY DEF SubLive
  <2> QED BY <1>1, <1>2, <1>4, <2>6, <2>7, <2>8 DEF Softer, Same, r
<1> QED BY <1>3, <1>4

\* Opened binds the row to the new experiment.
LEMMA OpenedView ==
  ASSUME NEW row \in Row, NEW x \in Xids, NEW s \in SubLive
  PROVE  Grown(row, Opened(row, x, s), x) /\ Opened(row, x, s).state = row.state
<1> DEFINE r == Opened(row, x, s)
<1>1. /\ r \in Row /\ r.run = row.run /\ r.state = row.state
      /\ Len(r.submissions) = Len(row.submissions) + 1
      /\ \A i \in Steps(row) : r.submissions[i].xid = row.submissions[i].xid
      /\ Newest(r) = [xid |-> x, state |-> s]
  BY OpenedIs
<1> HIDE DEF r
<1>2. row.submissions \in Seq(Submission) /\ r.submissions \in Seq(Submission)
  BY <1>1 DEF Row
<1> DEFINE n == Len(row.submissions)
<1>3. n \in Nat /\ Len(r.submissions) = n + 1 /\ r.submissions # <<>>
  BY <1>1, <1>2
<1>4. r.submissions[n + 1].xid = x
  BY <1>1, <1>3 DEF Newest
<1>5. AllXids(r) = AllXids(row) \cup {x}
  <2>1. ASSUME NEW y \in AllXids(r) PROVE y \in AllXids(row) \cup {x}
    <3>1. PICK i \in 1..n + 1 : y = r.submissions[i].xid
      BY <1>3, <2>1 DEF AllXids
    <3>2. CASE i = n + 1
      BY <1>4, <3>1, <3>2
    <3>3. CASE i # n + 1
      <4>1. i \in Steps(row)
        BY <1>3, <3>1, <3>3 DEF Steps
      <4> QED BY <1>1, <3>1, <4>1 DEF AllXids, Steps
    <3> QED BY <3>2, <3>3
  <2>2. ASSUME NEW y \in AllXids(row) PROVE y \in AllXids(r)
    <3>1. PICK i \in Steps(row) : y = row.submissions[i].xid
      BY <2>2 DEF AllXids, Steps
    <3>2. i \in 1..n + 1
      BY <1>3, <3>1 DEF Steps
    <3> QED BY <1>1, <1>3, <3>1, <3>2 DEF AllXids
  <2>3. x \in AllXids(r)
    <3>1. n + 1 \in 1..n + 1
      BY <1>3
    <3> QED BY <1>3, <1>4, <3>1 DEF AllXids
  <2> QED BY <2>1, <2>2, <2>3
<1>6. XidOf(r) = x /\ HasLive(r)
  <2>1. Newest(r).xid = x /\ Newest(r).state = s /\ s # "SUPERSEDED"
    BY <1>1 DEF SubLive
  <2> QED BY <1>3, <2>1 DEF XidOf, HasLive
<1> QED BY <1>1, <1>5, <1>6 DEF Grown, r

\* Setting the state keeps the rest.
LEMMA SetStateIs ==
  ASSUME NEW row \in Row, NEW s \in JobState, NEW r, r = [row EXCEPT !.state = s]
  PROVE  Same(row, r) /\ r.state = s /\ r.attempts = row.attempts
<1>1. Keeps(row, r) /\ r.state = s
  BY SetState
<1>2. r.attempts = row.attempts
  BY Zenon DEF Row
<1> QED BY <1>1, <1>2, KeepsSame

\* Setting the state and its stamp keeps the submissions.
LEMMA SetStampedIs ==
  ASSUME NEW row \in Row, NEW s \in JobState, NEW r,
         r = [row EXCEPT !.state = s, !.stamped = TRUE]
  PROVE  Same(row, r) /\ r.state = s
<1>1. TRUE \in BOOLEAN
  OBVIOUS
<1>2. Keeps(row, r) /\ r.state = s
  BY <1>1, SetStateStamped
<1> QED BY <1>2, KeepsSame

\* The states a row is set to are states.
LEMMA StateNames ==
  /\ "QUEUED" \in JobState /\ "BUILD_REQUESTED" \in JobState /\ "BUILDING" \in JobState
  /\ "HELD" \in JobState /\ "BUDGET_DEFERRED" \in JobState /\ "SUBMITTED" \in JobState
  /\ "RUNNING" \in JobState /\ "DONE" \in JobState /\ "FAILED" \in JobState
BY DEF JobState

\* Requeue, Hold and ClaimForBuild keep the submissions.
LEMMA QueueOps ==
  ASSUME NEW row \in Row
  PROVE  /\ Same(row, Requeue(row)) /\ Requeue(row).state = "QUEUED"
         /\ Requeue(row).attempts = row.attempts
         /\ Same(row, Hold(row)) /\ Hold(row).state = "HELD"
         /\ Same(row, ClaimForBuild(row)) /\ ClaimForBuild(row).state = "BUILDING"
         /\ ClaimForBuild(row).attempts = row.attempts
<1>1. Requeue(row) = [row EXCEPT !.state = "QUEUED"]
  BY DEF Requeue
<1>2. Hold(row) = [row EXCEPT !.state = "HELD"]
  BY DEF Hold
<1>3. ClaimForBuild(row) = [row EXCEPT !.state = "BUILDING"]
  BY DEF ClaimForBuild
<1>4. /\ Same(row, Requeue(row)) /\ Requeue(row).state = "QUEUED"
      /\ Requeue(row).attempts = row.attempts
  BY <1>1, StateNames, SetStateIs, ZenonT(40)
<1>5. Same(row, Hold(row)) /\ Hold(row).state = "HELD" /\ Hold(row).attempts = row.attempts
  <2>1. "HELD" \in JobState
    BY StateNames
  <2> QED BY <1>2, <2>1, SetStateIs, Zenon
<1>6. /\ Same(row, ClaimForBuild(row)) /\ ClaimForBuild(row).state = "BUILDING"
      /\ ClaimForBuild(row).attempts = row.attempts
  BY <1>3, StateNames, SetStateIs, ZenonT(40)
<1> QED BY <1>4, <1>5, <1>6

\* So does what the dispatch sets.
LEMMA DispatchOps ==
  ASSUME NEW row \in Row, NEW s \in {"BUILD_REQUESTED", "BUDGET_DEFERRED"}, NEW r,
         r = [row EXCEPT !.state = s]
  PROVE  Same(row, r) /\ r.state = s /\ r.attempts = row.attempts
BY StateNames, SetStateIs

\* So does `tpu requeue`, and the job waits again.
LEMMA RequeueHeldIs ==
  ASSUME NEW row \in Row
  PROVE  Same(row, RequeueHeld(row)) /\ RequeueHeld(row).state = "QUEUED"
<1> DEFINE n == 0
<1>1. RequeueHeld(row) = [row EXCEPT !.state = "QUEUED", !.attempts = n]
  BY DEF RequeueHeld
<1>2. n \in Nat /\ "QUEUED" \in JobState
  BY StateNames
<1> HIDE DEF n
<1>3. Keeps(row, RequeueHeld(row)) /\ RequeueHeld(row).state = "QUEUED"
  BY <1>1, <1>2, Zenon DEF Row, Keeps
<1> QED BY <1>3, KeepsSame

\* Reclaim takes a row from BUILDING to where its submissions say, counting the attempt.
LEMMA ReclaimIs ==
  ASSUME NEW row \in Row
  PROVE  /\ row.state # "BUILDING" => Reclaim(row) = row
         /\ row.state = "BUILDING" => Same(row, Reclaim(row))
         /\ row.state = "BUILDING" /\ HasLive(row) => Reclaim(row).state = "SUBMITTED"
         /\ row.state = "BUILDING" /\ ~HasLive(row) =>
              Reclaim(row).state = "QUEUED" /\ Reclaim(row).attempts > 0
<1>1. row.state # "BUILDING" => Reclaim(row) = row
  BY DEF Reclaim
<1>2. CASE row.state = "BUILDING" /\ HasLive(row)
  <2>1. Reclaim(row) = [row EXCEPT !.state = "SUBMITTED", !.stamped = TRUE]
    BY <1>2 DEF Reclaim
  <2>2. Same(row, Reclaim(row)) /\ Reclaim(row).state = "SUBMITTED"
    BY <2>1, StateNames, SetStampedIs, Zenon
  <2> QED BY <1>2, <2>2
<1>3. CASE row.state = "BUILDING" /\ ~HasLive(row)
  <2> DEFINE n == row.attempts + 1
  <2>1. Reclaim(row) = [row EXCEPT !.state = "QUEUED", !.attempts = n]
    BY <1>3 DEF Reclaim
  <2>2. row.attempts \in Nat
    BY DEF Row
  <2>3. n \in Nat /\ n > 0
    BY <2>2
  <2> HIDE DEF n
  <2>4. /\ Keeps(row, Reclaim(row)) /\ Reclaim(row).state = "QUEUED"
        /\ Reclaim(row).attempts = n
    <3>1. "QUEUED" \in JobState
      BY StateNames
    <3> QED BY <2>1, <2>3, <3>1, Zenon DEF Row, Keeps
  <2> QED BY <1>3, <2>3, <2>4, KeepsSame
<1> QED BY <1>1, <1>2, <1>3

\* A failed build leaves its row to be tried again, or held.
LEMMA FailedIs ==
  ASSUME NEW row \in Row, builder.claimed \in Row
  PROVE  Same(row, Failed(row)) /\ Failed(row).state \in {"HELD", "QUEUED"}
<1> DEFINE n == builder.claimed.attempts + 1
           s == IF n >= MaxBuildAttempts THEN "HELD" ELSE "QUEUED"
<1>1. Failed(row) = [row EXCEPT !.attempts = n, !.state = s]
  BY DEF Failed
<1>2. builder.claimed.attempts \in Nat
  BY DEF Row
<1>3. n \in Nat
  BY <1>2
<1>4. s \in JobState /\ s \in {"HELD", "QUEUED"}
  BY StateNames
<1> HIDE DEF n, s
<1>5. Keeps(row, Failed(row)) /\ Failed(row).state = s
  BY <1>1, <1>3, <1>4, Zenon DEF Row, Keeps
<1> QED BY <1>4, <1>5, KeepsSame

\* A verdict ends the newest submission, unless it is RUNNING.
LEMMA BecomeIs ==
  ASSUME NEW row \in Row, NEW s \in Verdicts
  PROVE  /\ Softer(row, Become(row, s)) /\ Become(row, s).state = s
         /\ s = "RUNNING" => Same(row, Become(row, s))
         /\ s # "RUNNING" => ~HasLive(Become(row, s))
<1> DEFINE t == Resolve(row, s)
<1>1. s \in SubLive \cup SubEnded /\ s \in JobState
  BY DEF Verdicts, SubLive, SubEnded, JobState
<1>2. /\ Softer(row, t)
      /\ s \in SubLive => Same(row, t)
      /\ s \notin SubLive => ~HasLive(t)
  BY <1>1, ResolveView
<1>3. t \in Row
  BY <1>1, ResolveIs
<1>4. Become(row, s) = [t EXCEPT !.state = s]
  BY DEF Become
<1> HIDE DEF t
<1> DEFINE r == Become(row, s)
<1>5. s \in JobState
  BY <1>1
<1>6. Same(t, r) /\ r.state = s /\ r.attempts = t.attempts
  BY <1>3, <1>4, <1>5, SetStateIs, Zenon
<1>7. s = "RUNNING" <=> s \in SubLive
  BY DEF Verdicts, SubLive
<1> HIDE DEF r
<1>8. Softer(row, r)
  BY <1>2, <1>6, SameSofter, SofterChain
<1>9. s \in SubLive => Same(row, r)
  BY <1>2, <1>6, SameChain
<1>10. s \notin SubLive => ~HasLive(r)
  BY <1>2, <1>6 DEF Same
<1> QED BY <1>6, <1>7, <1>8, <1>9, <1>10 DEF r

\* mark_cancelled ends the newest submission, and the row.
LEMMA CancelledIs ==
  ASSUME NEW row \in Row
  PROVE  /\ Softer(row, MarkCancelled(row)) /\ MarkCancelled(row).state = "FAILED"
         /\ ~HasLive(MarkCancelled(row))
<1> DEFINE t == Resolve(row, "CANCELLED")
<1>1. "CANCELLED" \in SubEnded /\ "CANCELLED" \notin SubLive
  BY DEF SubEnded, SubLive
<1>2. Softer(row, t) /\ ~HasLive(t) /\ t \in Row
  BY <1>1, ResolveView, ResolveIs
<1>3. MarkCancelled(row) = [t EXCEPT !.state = "FAILED"]
  BY DEF MarkCancelled
<1> HIDE DEF t
<1>4. /\ Same(t, MarkCancelled(row)) /\ MarkCancelled(row).state = "FAILED"
      /\ MarkCancelled(row).attempts = t.attempts
  <2>1. "FAILED" \in JobState /\ t \in Row
    BY <1>2, StateNames
  <2> QED BY <1>3, <2>1, SetStateIs, ZenonT(40)
<1> QED BY <1>2, <1>4, SameSofter, SofterChain DEF Same

\* mark_reroute supersedes the newest submission, and the row waits again.
LEMMA MarkRerouteIs ==
  ASSUME NEW row \in Row
  PROVE  /\ Softer(row, MarkReroute(row)) /\ MarkReroute(row).state = "QUEUED"
         /\ ~HasLive(MarkReroute(row))
<1> DEFINE t == Supersede(row)
<1>1. "SUPERSEDED" \in SubEnded /\ "SUPERSEDED" \notin SubLive
  BY DEF SubEnded, SubLive
<1>2. Softer(row, t) /\ ~HasLive(t) /\ t \in Row
  BY <1>1, ResolveView, ResolveIs DEF Supersede
<1>3. MarkReroute(row) = [t EXCEPT !.state = "QUEUED", !.stamped = FALSE, !.unread = 0]
  BY DEF MarkReroute
<1> HIDE DEF t
<1>4. "QUEUED" \in JobState /\ 0 \in 0..CnsReadMax
  BY RowConstantsOK DEF JobState
<1>5. Keeps(t, MarkReroute(row)) /\ MarkReroute(row).state = "QUEUED"
  BY <1>2, <1>3, <1>4, SetMoved, Zenon
<1>6. Same(t, MarkReroute(row))
  BY <1>2, <1>5, KeepsSame
<1> QED BY <1>2, <1>5, <1>6, SameSofter, SofterChain DEF Same

\* Counting a resume, a failed read or a suspicion keeps the rest.
LEMMA CountsAre ==
  ASSUME NEW row \in Row
  PROVE  /\ Same(row, Unreadable(row)) /\ Unreadable(row).state = row.state
         /\ Same(row, [row EXCEPT !.unread = 0]) /\ [row EXCEPT !.unread = 0].state = row.state
         /\ Same(row, WarmInPlace(row)) /\ WarmInPlace(row).state = row.state
<1>1. /\ row.unread + 1 \in Nat /\ row.resumes + 1 \in Nat
      /\ CnsReadMax \in Nat /\ MaxAutoResumes \in Nat /\ 0 \in 0..CnsReadMax
  BY RowConstantsOK DEF Row
<1>2. Same(row, Unreadable(row)) /\ Unreadable(row).state = row.state
  <2> DEFINE n == Capped(row.unread + 1, CnsReadMax)
  <2>1. n \in 0..CnsReadMax
    BY <1>1, CappedIs
  <2>2. Unreadable(row) = [row EXCEPT !.unread = n]
    BY DEF Unreadable
  <2> HIDE DEF n
  <2>3. Keeps(row, Unreadable(row)) /\ Unreadable(row).state = row.state
    BY <2>1, <2>2, SetUnread, Zenon
  <2> QED BY <2>3, KeepsSame
<1>3. Same(row, [row EXCEPT !.unread = 0]) /\ [row EXCEPT !.unread = 0].state = row.state
  <2> DEFINE z == [row EXCEPT !.unread = 0]
  <2>1. Keeps(row, z) /\ z.state = row.state
    BY <1>1, SetUnread, Zenon
  <2> HIDE DEF z
  <2>2. Same(row, z)
    BY <2>1, KeepsSame
  <2> QED BY <2>1, <2>2 DEF z
<1>4. Same(row, WarmInPlace(row)) /\ WarmInPlace(row).state = row.state
  <2> DEFINE n == Capped(row.resumes + 1, MaxAutoResumes)
  <2>1. n \in 0..MaxAutoResumes
    BY <1>1, CappedIs
  <2>2. WarmInPlace(row) = [row EXCEPT !.resumes = n]
    BY DEF WarmInPlace
  <2> HIDE DEF n
  <2>3. Keeps(row, WarmInPlace(row)) /\ WarmInPlace(row).state = row.state
    BY <2>1, <2>2, SetResumes, Zenon
  <2> QED BY <2>3, KeepsSame
<1> QED BY <1>2, <1>3, <1>4

\* A restarted row waits, in the run of the one it restarts, bound to no experiment.
LEMMA RestartedView ==
  ASSUME NEW row \in Row, row.resumes < MaxAutoResumes
  PROVE  LET r == Restarted(row) IN
         /\ r \in Row /\ r.run = row.run /\ r.state = "QUEUED"
         /\ AllXids(r) = AllXids(row) /\ XidOf(r) = NoXid /\ ~HasLive(r)
<1> DEFINE r == Restarted(row)
           q == [i \in 1..Len(row.submissions) |->
                        [xid |-> row.submissions[i].xid, state |-> "SUPERSEDED"]]
<1>1. /\ r \in Row /\ r.run = row.run /\ r.state = "QUEUED" /\ r.submissions = q
  BY RestartedIs
<1> HIDE DEF r
<1>2. row.submissions \in Seq(Submission)
  BY DEF Row
<1>3. Len(q) = Len(row.submissions) /\ Len(q) \in Nat
  BY <1>2
<1>4. \A i \in 1..Len(q) : q[i].xid = row.submissions[i].xid /\ q[i].state = "SUPERSEDED"
  BY <1>3
<1>5. AllXids(r) = AllXids(row)
  BY <1>1, <1>3, <1>4 DEF AllXids
<1>6. q # <<>> => Len(q) \in 1..Len(q)
  BY <1>2, <1>3
<1>7. XidOf(r) = NoXid /\ ~HasLive(r)
  BY <1>1, <1>4, <1>6 DEF XidOf, HasLive, Newest, SubLive
<1> QED BY <1>1, <1>5, <1>7 DEF r

\* So does an enqueued one, in a run of its own.
LEMMA NewRowView ==
  ASSUME NEW j \in Ids
  PROVE  LET r == NewRow(j) IN
         /\ r \in Row /\ r.run = j /\ r.state = "QUEUED"
         /\ AllXids(r) = {} /\ XidOf(r) = NoXid /\ ~HasLive(r)
<1>1. NewRow(j) \in Row /\ NewRow(j).state = "QUEUED" /\ NewRow(j).run = j
  BY NewRowIs
<1>2. NewRow(j).submissions = <<>>
  BY DEF NewRow
<1>3. Len(NewRow(j).submissions) = 0
  BY <1>2
<1>4. AllXids(NewRow(j)) = {}
  BY <1>3 DEF AllXids
<1> QED BY <1>1, <1>2, <1>4 DEF XidOf, HasLive

\* Binding an experiment early, at launch, or when found again, opens its submission, or
\* keeps it.
LEMMA BindIs ==
  ASSUME NEW row \in Row, NEW x \in Xids
  PROVE  /\ Grown(row, OpenCreating(row, x), x) /\ OpenCreating(row, x).state = row.state
         /\ Grown(row, AdoptRecovered(row, x), x) /\ AdoptRecovered(row, x).state = "SUBMITTED"
         /\ Grown(row, ApplyPlacement(row, x), x) /\ ApplyPlacement(row, x).state = "SUBMITTED"
<1>1. "CREATING" \in SubLive /\ "SUBMITTED" \in SubLive
  BY DEF SubLive
<1>2. Grown(row, OpenCreating(row, x), x) /\ OpenCreating(row, x).state = row.state
  BY <1>1, OpenedView DEF OpenCreating
<1>3. ASSUME NEW t, Grown(row, t, x)
      PROVE  LET r == [t EXCEPT !.state = "SUBMITTED", !.stamped = TRUE] IN
             Grown(row, r, x) /\ r.state = "SUBMITTED"
  <2> DEFINE r == [t EXCEPT !.state = "SUBMITTED", !.stamped = TRUE]
  <2>1. t \in Row
    BY <1>3 DEF Grown
  <2>2. Same(t, r) /\ r.state = "SUBMITTED"
    <3>1. "SUBMITTED" \in JobState
      BY StateNames
    <3> QED BY <2>1, <3>1, SetStampedIs, Zenon
  <2> HIDE DEF r
  <2>3. Grown(row, r, x) /\ r.state = "SUBMITTED"
    BY <1>3, <2>2 DEF Same, Grown
  <2> QED BY <2>3 DEF r
<1>4. Grown(row, AdoptRecovered(row, x), x) /\ AdoptRecovered(row, x).state = "SUBMITTED"
  BY <1>2, <1>3 DEF AdoptRecovered
<1>5. Grown(row, ApplyPlacement(row, x), x) /\ ApplyPlacement(row, x).state = "SUBMITTED"
  <2> DEFINE placed == IF HasLive(row) /\ Newest(row).xid = x
                       THEN Resolve(row, "SUBMITTED") ELSE Opened(row, x, "SUBMITTED")
  <2>1. Grown(row, placed, x)
    <3>1. CASE HasLive(row) /\ Newest(row).xid = x
      <4>1. Same(row, Resolve(row, "SUBMITTED"))
        BY <1>1, ResolveView
      <4>2. XidOf(row) = x /\ x \in AllXids(row)
        BY <3>1, XidsAre DEF XidOf, HasLive, SubLive
      <4> QED BY <3>1, <4>1, <4>2 DEF Same, Grown
    <3>2. CASE ~(HasLive(row) /\ Newest(row).xid = x)
      BY <1>1, <3>2, OpenedView
    <3> QED BY <3>1, <3>2
  <2>2. ApplyPlacement(row, x) = [placed EXCEPT !.state = "SUBMITTED", !.stamped = TRUE]
    BY DEF ApplyPlacement
  <2> HIDE DEF placed
  <2> QED BY <1>3, <2>1, <2>2
<1> QED BY <1>2, <1>4, <1>5

-----------------------------------------------------------------------------
(* The inductive invariant.                                                *)

\* The states from which a row is dispatched.
Waiting == {"QUEUED", "BUILD_REQUESTED", "BUDGET_DEFERRED"}

\* The row may get another experiment: it waits, is being built, or a user may send it
\* back.
Launchable(row) ==
  \/ row.state \in Waiting
  \/ row.state = "HELD" /\ "requeue" \in Users
  \/ row.state = "BUILDING" /\ ~HasLive(row)

\* The row still asks for an experiment that was made and not recorded: plan_build, or
\* the attempt that is counted, makes the builder look for one.
Awaited(row) ==
  /\ ~HasLive(row)
  /\ row.state = "BUILDING" \/ (row.state \in Waiting /\ row.attempts > 0)

\* The row stands for an experiment, and asks for none.
Bound(row) ==
  row.state \in {"SUBMITTED", "RUNNING"} \/ (row.state = "BUILDING" /\ HasLive(row))

\* Experiment x is alive, or the builder is still to give it its work units.
Hot(x) ==
  \/ xm[x].state \in Alive
  \/ xm[x].state = "empty" /\ builder.xid = x /\ builder.pc \in {"created", "bound"}

\* The experiments XManager has made.
Made == {x \in Xids : xm[x].state # "none"}

\* Those made for job j.
Of(j) == {x \in Made : xm[x].job = j}

\* Those of them that the row of j has not recorded.
Unrecorded(j) == {x \in Of(j) : x \notin AllXids(queue[j])}

\* An experiment is made for a row, in that row's run, and a row with a hot one stays.
Experiments ==
  \A x \in Made :
    /\ xm[x].job \in Ids /\ queue[xm[x].job] # Unminted
    /\ IsRow(queue[xm[x].job]) => queue[xm[x].job].run = xm[x].run
    /\ Hot(x) => IsRow(queue[xm[x].job])

\* Of the experiments the row of j has recorded, only the newest may be hot, and only
\* while it is live; it was made for j, and what the row is bound to, XManager has made.
GoodRow(j, row) ==
  /\ AllXids(row) \subseteq Made
  /\ \A x \in AllXids(row) : Hot(x) => XidOf(row) = x /\ HasLive(row)
  /\ XidOf(row) # NoXid => xm[XidOf(row)].job = j
  /\ HasLive(row) => row.state \in Reconcilable

\* All rows of the queue file are so.
QueueGood ==
  \A j \in Ids : IsRow(queue[j]) => GoodRow(j, queue[j]) /\ queue[queue[j].run] # Unminted

\* A row has at most one experiment it has not recorded, and asks for it.
Lost ==
  \A j \in Ids : IsRow(queue[j]) =>
    /\ Unrecorded(j) # {} => Awaited(queue[j])
    /\ \A x, y \in Unrecorded(j) : x = y

\* The row is as the builder claimed it.
Untouched ==
  /\ queue[builder.job] = builder.claimed
  /\ builder.claimed.state = "BUILDING" /\ ~HasLive(builder.claimed)

\* What the place of the builder tells about the row it builds, and about the experiment
\* it made: before it makes one, none has escaped; the one it made is the one the row is
\* bound to, if any.
BuilderKnows ==
  /\ builder.pc \in {"dispatch", "apply", "claim", "plan", "build"} => builder.xid = NoXid
  /\ builder.pc \in {"plan", "build", "created"} => Untouched
  /\ builder.pc = "record" /\ builder.xid = NoXid => Untouched
  /\ builder.pc = "build" \/ (builder.pc = "record" /\ builder.xid = NoXid) =>
       Unrecorded(builder.job) = {}
  /\ builder.pc = "plan" /\ Unrecorded(builder.job) # {} => builder.claimed.attempts > 0
  /\ builder.xid # NoXid =>
       /\ builder.xid \in Of(builder.job)
       /\ IsRow(queue[builder.job]) /\ HasLive(queue[builder.job]) =>
            XidOf(queue[builder.job]) = builder.xid
       /\ IsRow(queue[builder.job]) => Unrecorded(builder.job) \subseteq {builder.xid}
  /\ builder.pc \in {"created", "bound"} => xm[builder.xid].state = "empty"
  /\ builder.pc = "record" =>
       /\ builder.end = "launched" => builder.xid # NoXid
       /\ builder.xid # NoXid => builder.end \in {"launched", "timeout"}

\* Pass p is moving row j, and nobody wrote the row since.
MovingRow(p, j) == p.pc \in Moving /\ p.row = j /\ j \notin dirty

\* Row j may bring an experiment forth, now or once pass p is merged, or has a hot one.
Active(p, j) ==
  \/ j \in p.fresh
  \/ IsRow(queue[j]) /\ Launchable(queue[j])
  \/ IsRow(queue[j]) /\ \E x \in Of(j) : Hot(x)
  \/ MovingRow(p, j)

\* The run of row j, as pass p will leave it.
RunOf(p, j) == IF j \in p.fresh THEN p.copy[j].run ELSE queue[j].run

\* Of the rows of one run, one is active at most.
Sole(p) == \A i, j \in Ids : Active(p, i) /\ Active(p, j) /\ RunOf(p, i) = RunOf(p, j) => i = j

\* The rows of the snapshot are good ones too.
CopyGood(p) ==
  \A j \in Ids : IsRow(p.copy[j]) => GoodRow(j, p.copy[j]) /\ p.copy[p.copy[j].run] # Unminted

\* What the snapshot of p tells of rows and their runs.
Seen(p) ==
  p.pc # "idle" => \A j \in Ids :
    /\ p.copy[j] = Unminted /\ IsRow(queue[j]) => queue[j].run = j
    /\ p.copy[j] = Cleared => queue[j] = Cleared
    /\ IsRow(p.copy[j]) /\ IsRow(queue[j]) => queue[j].run = p.copy[j].run
    /\ p.copy[j] # Unminted /\ j \notin p.fresh => queue[j] # Unminted

\* The rows p works on, and those it changed, are bound to an experiment in the queue
\* file, unless somebody wrote them since; what p leaves to be launched again is the row
\* it moves.
InWork(p) ==
  /\ \A j \in p.todo : /\ p.kind = "reconcile" => Judgeable(p.copy[j])
                       /\ p.kind = "reroute" => Movable(p.copy[j])
                       /\ j \notin dirty => IsRow(queue[j]) /\ Bound(queue[j])
  /\ \A j \in p.touched :
       /\ IsRow(p.copy[j]) /\ j \notin p.fresh
       /\ j \notin dirty => /\ IsRow(queue[j]) /\ Bound(queue[j])
                            /\ HasLive(p.copy[j]) =>
                                 HasLive(queue[j]) /\ XidOf(p.copy[j]) = XidOf(queue[j])
                            /\ Launchable(p.copy[j]) =>
                                 p.pc \in {"archive", "persist"} /\ p.row = j
  /\ p.pc \in Moving =>
       /\ p.row \notin dirty => IsRow(queue[p.row]) /\ Bound(queue[p.row])
       /\ p.pc \in {"confirm", "cancel"} =>
            /\ Movable(p.copy[p.row])
            /\ xm[XidOf(p.copy[p.row])].state \notin {"none", "empty"}

\* A row that a reconcile judges, or has found finished, has no experiment to come, and
\* no hot one but that being judged.
Judged(p) ==
  p.kind = "reconcile" => \A j \in Ids :
    IsRow(p.copy[j]) /\ IsRow(queue[j]) /\ (j \in p.todo \/ p.copy[j].state \in Finished) =>
      /\ ~Launchable(queue[j])
      /\ \A x \in Of(j) : Hot(x) => j \in p.todo /\ x = XidOf(p.copy[j])

\* All that a pass tells.
Tells(p) == CopyGood(p) /\ Seen(p) /\ InWork(p) /\ Judged(p) /\ Sole(p)

\* An experiment not made yet has no job.
NotMade == \A x \in Xids : xm[x].state = "none" => xm[x].job = NoId

\* All that is so whatever the pass does.
Core == NotMade /\ Experiments /\ QueueGood /\ Lost /\ BuilderKnows

\* The inductive invariant.
WriterInv == QueueInv /\ orphans = {} /\ Core /\ Tells(pass)

-----------------------------------------------------------------------------
(* What the pass tells stays true as it goes on.                           *)

\* A run is named by the job it began with.
LEMMA RunIsId ==
  \A row \in Row : row.run \in Ids
BY DEF Row

\* A row bound to an experiment is not to be launched.
LEMMA BoundIs ==
  ASSUME NEW row, Bound(row)
  PROVE  ~Launchable(row) /\ ~Awaited(row)
BY DEF Bound, Launchable, Awaited, Waiting

\* A row that is judged or moved is bound to an experiment.
LEMMA MakesBound ==
  ASSUME NEW row, Judgeable(row) \/ Movable(row)
  PROVE  Bound(row) /\ row.state \notin Finished /\ XidOf(row) # NoXid
BY DEF Judgeable, Movable, Bound, Reconcilable, Finished

\* A finished row is not to be launched.
LEMMA FinishedIs ==
  ASSUME NEW row, row.state \in Finished
  PROVE  ~Launchable(row) /\ ~Awaited(row) /\ row.state \notin Reconcilable
BY DEF Finished, Launchable, Awaited, Waiting, Reconcilable

\* Row j is one p is about to decide on.
InHand(p, j) ==
  (p.pc = "rows" /\ j \in p.todo) \/ (p.pc \in {"confirm", "cancel"} /\ p.row = j)

\* What is so of the row in hand.
LEMMA InHandIs ==
  ASSUME NEW p, NEW j \in Ids, queue \in [Ids -> MaybeRow], Holds(p, queue, dirty), InWork(p),
         InHand(p, j)
  PROVE  /\ p.pc # "idle" /\ j \notin p.fresh /\ IsRow(p.copy[j]) /\ p.copy[j] \in Row
         /\ p.copy \in [Ids -> MaybeRow]
         /\ p.fresh \in SUBSET Ids /\ p.touched \in SUBSET Ids /\ p.todo \in SUBSET Ids
         /\ Judgeable(p.copy[j]) \/ Movable(p.copy[j])
         /\ j \notin dirty => IsRow(queue[j]) /\ Bound(queue[j])
         /\ j \notin dirty /\ j \notin p.touched => p.copy[j] = queue[j]
<1>1. /\ p.copy \in [Ids -> MaybeRow] /\ p.kind \in {"reconcile", "reroute"}
      /\ p.fresh \in SUBSET Ids /\ p.touched \in SUBSET Ids /\ p.todo \in SUBSET Ids
  BY Zenon DEF Holds, PassState
<1>2. PassFits(p) /\ CopyFits(p, queue, dirty)
  BY DEF Holds
<1>3. p.pc # "idle"
  BY DEF InHand
<1>4. j \notin p.fresh /\ p.copy[j] \in Row
  BY <1>1, <1>2 DEF InHand, PassFits
<1>5. IsRow(p.copy[j])
  BY <1>4, RowFacts DEF MaybeRow
<1>6. Judgeable(p.copy[j]) \/ Movable(p.copy[j])
  BY <1>1 DEF InHand, InWork, Moving
<1>7. j \notin dirty => IsRow(queue[j]) /\ Bound(queue[j])
  BY DEF InHand, InWork, Moving
<1>8. j \notin dirty /\ j \notin p.touched => p.copy[j] = queue[j]
  BY <1>2, <1>3, <1>4 DEF CopyFits
<1> QED BY <1>1, <1>3, <1>4, <1>5, <1>6, <1>7, <1>8

\* What a pass tells stays true when it ends, supersedes or keeps the submission of the
\* row in hand.
LEMMA EditTells ==
  ASSUME NEW p, NEW q, NEW j \in Ids, NEW r,
         queue \in [Ids -> MaybeRow], Holds(p, queue, dirty), Tells(p), InHand(p, j),
         Softer(p.copy[j], r), GoodRow(j, r),
         q.copy = [p.copy EXCEPT ![j] = r], q.todo = p.todo \ {j}, q.touched = p.touched \cup {j},
         q.fresh = p.fresh, q.kind = p.kind,
         \/ q.pc = "rows" /\ ~Launchable(r)
         \/ q.pc = "archive" /\ q.row = j /\ p.pc = "cancel",
         p.kind = "reconcile" /\ r.state \in Finished => ~Hot(XidOf(p.copy[j]))
  PROVE  Tells(q)
<1>1. CopyGood(p) /\ Seen(p) /\ InWork(p) /\ Judged(p) /\ Sole(p)
  BY DEF Tells
<1>2. /\ p.pc # "idle" /\ j \notin p.fresh /\ IsRow(p.copy[j]) /\ p.copy[j] \in Row
      /\ p.copy \in [Ids -> MaybeRow]
      /\ p.fresh \in SUBSET Ids /\ p.touched \in SUBSET Ids /\ p.todo \in SUBSET Ids
      /\ Judgeable(p.copy[j]) \/ Movable(p.copy[j])
      /\ j \notin dirty => IsRow(queue[j]) /\ Bound(queue[j])
      /\ j \notin dirty /\ j \notin p.touched => p.copy[j] = queue[j]
  BY <1>1, InHandIs
<1>3. /\ r \in Row /\ IsRow(r) /\ r.run = p.copy[j].run
      /\ HasLive(r) => HasLive(p.copy[j]) /\ XidOf(r) = XidOf(p.copy[j])
  BY RowFacts DEF Softer, MaybeRow
<1>4. /\ q.copy[j] = r
      /\ \A i \in Ids : i # j => q.copy[i] = p.copy[i]
      /\ \A i : i \in Ids => (q.copy[i] = Unminted <=> p.copy[i] = Unminted)
  BY <1>2, <1>3 DEF IsRow
<1>5. CopyGood(q)
  <2>1. \A i \in Ids : IsRow(p.copy[i]) => p.copy[i].run \in Ids
    BY <1>2, RowFacts, RunIsId DEF MaybeRow
  <2> QED BY <1>1, <1>2, <1>3, <1>4, <2>1 DEF CopyGood
<1>6. Seen(q)
  BY <1>1, <1>2, <1>3, <1>4, ZenonT(40) DEF Seen, IsRow
<1>7. InWork(q)
  <2>1. \A i \in q.todo : /\ i \in p.todo /\ i \in Ids /\ i # j /\ q.copy[i] = p.copy[i]
    BY <1>2, <1>4
  <2>2. \A i \in q.todo : /\ q.kind = "reconcile" => Judgeable(q.copy[i])
                          /\ q.kind = "reroute" => Movable(q.copy[i])
                          /\ i \notin dirty => IsRow(queue[i]) /\ Bound(queue[i])
    BY <1>1, <2>1 DEF InWork
  <2>3. \A i \in q.touched : i \in Ids /\ IsRow(q.copy[i]) /\ i \notin q.fresh
    BY <1>1, <1>2, <1>3, <1>4 DEF InWork
  <2>4. ASSUME NEW i \in q.touched, i \notin dirty
        PROVE  /\ IsRow(queue[i]) /\ Bound(queue[i])
               /\ HasLive(q.copy[i]) => HasLive(queue[i]) /\ XidOf(q.copy[i]) = XidOf(queue[i])
               /\ Launchable(q.copy[i]) => q.pc \in {"archive", "persist"} /\ q.row = i
    <3>1. CASE i = j
      <4>1. HasLive(p.copy[j]) => HasLive(queue[j]) /\ XidOf(p.copy[j]) = XidOf(queue[j])
        BY <1>1, <1>2, <2>4, <3>1 DEF InWork
      <4> QED BY <1>2, <1>3, <1>4, <2>4, <3>1, <4>1
    <3>2. CASE i # j
      <4>1. i \in p.touched /\ i \in Ids /\ q.copy[i] = p.copy[i]
        BY <1>2, <1>4, <3>2
      <4>2. /\ IsRow(queue[i]) /\ Bound(queue[i])
            /\ HasLive(p.copy[i]) => HasLive(queue[i]) /\ XidOf(p.copy[i]) = XidOf(queue[i])
            /\ Launchable(p.copy[i]) => p.pc \in {"archive", "persist"} /\ p.row = i
        BY <1>1, <2>4, <4>1 DEF InWork
      <4> QED BY <4>1, <4>2 DEF InHand
    <3> QED BY <3>1, <3>2
  <2>5. q.pc \in Moving => /\ q.row \notin dirty => IsRow(queue[q.row]) /\ Bound(queue[q.row])
                           /\ q.pc \notin {"confirm", "cancel"}
    BY <1>2 DEF Moving
  <2> QED BY <2>2, <2>3, <2>4, <2>5 DEF InWork
<1>8. Judged(q)
  <2>1. SUFFICES ASSUME q.kind = "reconcile", NEW i \in Ids, IsRow(q.copy[i]), IsRow(queue[i]),
                        i \in q.todo \/ q.copy[i].state \in Finished
                 PROVE  /\ ~Launchable(queue[i])
                        /\ \A x \in Of(i) : Hot(x) => i \in q.todo /\ x = XidOf(q.copy[i])
    BY DEF Judged
  <2>2. CASE i # j
    BY <1>1, <1>2, <1>4, <2>1, <2>2 DEF Judged
  <2>3. CASE i = j
    <3>1. j \in p.todo /\ r.state \in Finished
      <4>1. p.pc \notin Moving
        BY <2>1 DEF Holds, PassFits, Moving
      <4> QED BY <1>4, <2>1, <2>3, <4>1 DEF InHand, Moving
    <3>2. /\ ~Launchable(queue[j])
          /\ \A x \in Of(j) : Hot(x) => x = XidOf(p.copy[j])
      BY <1>1, <1>2, <2>1, <2>3, <3>1 DEF Judged
    <3> QED BY <2>1, <2>3, <3>1, <3>2
  <2> QED BY <2>2, <2>3
<1>9. Sole(q)
  <2>1. \A i \in Ids : Active(q, i) => Active(p, i)
    BY DEF Active, MovingRow, Moving, InHand
  <2>2. \A i \in Ids : RunOf(q, i) = RunOf(p, i)
    BY <1>2, <1>4 DEF RunOf
  <2> QED BY <1>1, <2>1, <2>2 DEF Sole
<1> QED BY <1>5, <1>6, <1>7, <1>8, <1>9 DEF Tells

\* The same, as one formula about the present state.
EditLaw ==
  \A p, q, r : \A j \in Ids :
    /\ queue \in [Ids -> MaybeRow] /\ Holds(p, queue, dirty) /\ Tells(p) /\ InHand(p, j)
    /\ Softer(p.copy[j], r) /\ GoodRow(j, r)
    /\ q.copy = [p.copy EXCEPT ![j] = r] /\ q.todo = p.todo \ {j} /\ q.touched = p.touched \cup {j}
    /\ q.fresh = p.fresh /\ q.kind = p.kind
    /\ \/ q.pc = "rows" /\ ~Launchable(r)
       \/ q.pc = "archive" /\ q.row = j /\ p.pc = "cancel"
    /\ p.kind = "reconcile" /\ r.state \in Finished => ~Hot(XidOf(p.copy[j]))
    => Tells(q)

\* It holds in every state.
LEMMA EditLawHolds == EditLaw
<1> SUFFICES ASSUME NEW p, NEW q, NEW r, NEW j \in Ids,
         queue \in [Ids -> MaybeRow], Holds(p, queue, dirty), Tells(p), InHand(p, j),
         Softer(p.copy[j], r), GoodRow(j, r),
         q.copy = [p.copy EXCEPT ![j] = r], q.todo = p.todo \ {j}, q.touched = p.touched \cup {j},
         q.fresh = p.fresh, q.kind = p.kind,
         \/ q.pc = "rows" /\ ~Launchable(r)
         \/ q.pc = "archive" /\ q.row = j /\ p.pc = "cancel",
         p.kind = "reconcile" /\ r.state \in Finished => ~Hot(XidOf(p.copy[j]))
                PROVE Tells(q)
  BY DEF EditLaw
<1> QED BY EditTells

\* What a pass tells stays true when it leaves a row as it is, or goes on with a move.
LEMMA SkipTells ==
  ASSUME NEW p, NEW q,
         queue \in [Ids -> MaybeRow], Holds(p, queue, dirty), Tells(p),
         q.copy = p.copy, q.todo \subseteq p.todo, q.touched = p.touched, q.fresh = p.fresh,
         q.kind = p.kind,
         \/ q.pc = "rows" /\ p.pc \in {"rows", "confirm", "cancel"}
         \/ /\ q.pc \in {"confirm", "cancel"} /\ p.pc = "rows" /\ p.kind = "reroute"
            /\ q.row \in p.todo /\ Hot(XidOf(p.copy[q.row]))
            /\ xm[XidOf(p.copy[q.row])].state \notin {"none", "empty"}
         \/ q.pc = "cancel" /\ p.pc = "confirm" /\ q.row = p.row
         \/ q.pc = "persist" /\ p.pc = "archive" /\ q.row = p.row
  PROVE  Tells(q)
<1>1. CopyGood(p) /\ Seen(p) /\ InWork(p) /\ Judged(p) /\ Sole(p)
  BY DEF Tells
<1>2. /\ p.copy \in [Ids -> MaybeRow]
      /\ p.fresh \in SUBSET Ids /\ p.touched \in SUBSET Ids /\ p.todo \in SUBSET Ids
  BY Zenon DEF Holds, PassState
<1>3. PassFits(p)
  BY DEF Holds
<1>4. CopyGood(q) /\ Seen(q)
  BY <1>1 DEF CopyGood, Seen
<1>5. InWork(q)
  <2>1. \A i \in q.todo : /\ q.kind = "reconcile" => Judgeable(q.copy[i])
                          /\ q.kind = "reroute" => Movable(q.copy[i])
                          /\ i \notin dirty => IsRow(queue[i]) /\ Bound(queue[i])
    BY <1>1 DEF InWork
  <2>2. \A i \in q.touched :
          /\ IsRow(q.copy[i]) /\ i \notin q.fresh
          /\ i \notin dirty => /\ IsRow(queue[i]) /\ Bound(queue[i])
                               /\ HasLive(q.copy[i]) =>
                                    HasLive(queue[i]) /\ XidOf(q.copy[i]) = XidOf(queue[i])
                               /\ Launchable(q.copy[i]) =>
                                    q.pc \in {"archive", "persist"} /\ q.row = i
    BY <1>1 DEF InWork
  <2>3. q.pc \in Moving =>
          /\ q.row \notin dirty => IsRow(queue[q.row]) /\ Bound(queue[q.row])
          /\ q.pc \in {"confirm", "cancel"} =>
               /\ Movable(q.copy[q.row])
               /\ xm[XidOf(q.copy[q.row])].state \notin {"none", "empty"}
    BY <1>1 DEF InWork, Moving
  <2> QED BY <2>1, <2>2, <2>3 DEF InWork
<1>6. Judged(q)
  <2>1. SUFFICES ASSUME q.kind = "reconcile", NEW i \in Ids, IsRow(q.copy[i]), IsRow(queue[i]),
                        i \in q.todo \/ q.copy[i].state \in Finished
                 PROVE  /\ ~Launchable(queue[i])
                        /\ \A x \in Of(i) : Hot(x) => i \in q.todo /\ x = XidOf(q.copy[i])
    BY DEF Judged
  <2>2. i \in p.todo => p.copy[i].state \notin Finished
    BY <1>1, <2>1, MakesBound DEF InWork
  <2> QED BY <1>1, <2>1, <2>2 DEF Judged
<1>7. Sole(q)
  <2>1. \A i \in Ids : Active(q, i) => Active(p, i)
    <3>1. SUFFICES ASSUME NEW i \in Ids, MovingRow(q, i), p.pc = "rows"
                   PROVE  Active(p, i)
      BY DEF Active, MovingRow, Moving
    <3>2. /\ i \in p.todo /\ i \notin dirty /\ p.kind = "reroute"
          /\ Hot(XidOf(p.copy[i])) /\ xm[XidOf(p.copy[i])].state # "none"
      BY <3>1 DEF MovingRow, Moving
    <3>3. IsRow(queue[i]) /\ Movable(p.copy[i])
      BY <1>1, <3>2 DEF InWork
    <3>4. p.copy[i] \in Row /\ IsRow(p.copy[i])
      BY <1>3, <3>2, RowFacts DEF PassFits, MaybeRow
    <3>5. XidOf(p.copy[i]) # NoXid /\ XidOf(p.copy[i]) \in Xids
      BY <3>3, <3>4, MakesBound, XidsAre
    <3>6. XidOf(p.copy[i]) \in Of(i)
      BY <1>1, <3>2, <3>4, <3>5 DEF CopyGood, GoodRow, Of, Made
    <3> QED BY <3>2, <3>3, <3>6 DEF Active
  <2>2. \A i \in Ids : RunOf(q, i) = RunOf(p, i)
    BY DEF RunOf
  <2> QED BY <1>1, <2>1, <2>2 DEF Sole
<1> QED BY <1>4, <1>5, <1>6, <1>7 DEF Tells

\* And when it appends a row, to a run where nothing else is active.
LEMMA FreshTells ==
  ASSUME NEW p, NEW q, NEW k \in Ids, NEW s \in Row,
         queue \in [Ids -> MaybeRow], p.copy \in [Ids -> MaybeRow], Tells(p),
         p.fresh \in SUBSET Ids, p.touched \in SUBSET Ids, p.todo \in SUBSET Ids, PassFits(p),
         p.pc = "rows", queue[k] = Unminted, p.copy[k] = Unminted,
         GoodRow(k, s), s.state = "QUEUED", p.copy[s.run] # Unminted,
         \A i \in Ids : Active(p, i) => RunOf(p, i) # s.run,
         q.copy = [p.copy EXCEPT ![k] = s], q.todo = p.todo, q.touched = p.touched,
         q.fresh = p.fresh \cup {k}, q.kind = p.kind, q.pc = "rows"
  PROVE  Tells(q)
<1>1. CopyGood(p) /\ Seen(p) /\ InWork(p) /\ Judged(p) /\ Sole(p)
  BY DEF Tells
<1>2. IsRow(s) /\ s.run \in Ids /\ ~IsRow(Unminted)
  BY RowFacts, RunIsId DEF MaybeRow
<1>3. /\ q.copy[k] = s
      /\ \A i \in Ids : i # k => q.copy[i] = p.copy[i]
      /\ \A i \in Ids : p.copy[i] # Unminted => q.copy[i] # Unminted
  BY <1>2 DEF IsRow
<1>4. CopyGood(q)
  <2>1. \A i \in Ids : IsRow(p.copy[i]) => p.copy[i].run \in Ids
    BY RowFacts, RunIsId DEF MaybeRow
  <2> QED BY <1>1, <1>2, <1>3, <2>1 DEF CopyGood
<1>5. Seen(q)
  <2>1. s # Unminted /\ s # Cleared /\ ~IsRow(queue[k])
    BY <1>2 DEF IsRow
  <2> QED BY <1>1, <1>3, <2>1 DEF Seen
<1>6. k \notin p.touched /\ k \notin p.todo
  BY <1>1, <1>2, RowFacts DEF InWork, PassFits
<1>7. InWork(q)
  <2>1. \A i \in q.todo \cup q.touched : i \in Ids /\ q.copy[i] = p.copy[i] /\ i # k
    BY <1>3, <1>6
  <2>2. \A i \in q.todo : /\ q.kind = "reconcile" => Judgeable(q.copy[i])
                          /\ q.kind = "reroute" => Movable(q.copy[i])
                          /\ i \notin dirty => IsRow(queue[i]) /\ Bound(queue[i])
    BY <1>1, <2>1 DEF InWork
  <2>3. \A i \in q.touched :
          /\ IsRow(q.copy[i]) /\ i \notin q.fresh
          /\ i \notin dirty => /\ IsRow(queue[i]) /\ Bound(queue[i])
                               /\ HasLive(q.copy[i]) =>
                                    HasLive(queue[i]) /\ XidOf(q.copy[i]) = XidOf(queue[i])
                               /\ Launchable(q.copy[i]) =>
                                    q.pc \in {"archive", "persist"} /\ q.row = i
    BY <1>1, <2>1 DEF InWork
  <2>4. q.pc \notin Moving
    BY DEF Moving
  <2> QED BY <2>2, <2>3, <2>4 DEF InWork
<1>8. Judged(q)
  BY <1>1, <1>2, <1>3 DEF Judged
<1>9. Sole(q)
  <2>1. \A i \in Ids : Active(q, i) => i = k \/ Active(p, i)
    BY DEF Active, MovingRow, Moving
  <2>2. RunOf(q, k) = s.run /\ \A i \in Ids : i # k => RunOf(q, i) = RunOf(p, i)
    BY <1>3 DEF RunOf
  <2> QED BY <1>1, <2>1, <2>2 DEF Sole
<1> QED BY <1>4, <1>5, <1>7, <1>8, <1>9 DEF Tells

-----------------------------------------------------------------------------
(* What others do while a pass works.                                      *)

\* No experiment is made for another job, comes back, or turns hot.
XmKeeps ==
  \A x \in Xids :
    /\ xm[x].state # "none" =>
         xm'[x].state # "none" /\ xm'[x].job = xm[x].job /\ xm'[x].run = xm[x].run
    /\ xm[x].state \notin {"none", "empty"} => xm'[x].state \notin {"none", "empty"}
    /\ Hot(x)' /\ xm[x].state # "none" => Hot(x)
    /\ Hot(x)' => xm'[x].state # "none"

\* What the builder, users and XManager may do while pass p works: they make experiments
\* for rows that may have one, make no row launchable, and mark every row they write as
\* dirty.
Outside(p) ==
  /\ XmKeeps
  /\ \A x \in Xids : xm[x].state = "none" /\ xm'[x].state # "none" =>
       xm'[x].job \in Ids /\ IsRow(queue[xm'[x].job]) /\ Launchable(queue[xm'[x].job])
  /\ \A j \in Ids :
       /\ queue[j] # Unminted => queue'[j] # Unminted
       /\ queue[j] = Cleared => queue'[j] = Cleared
       /\ p.pc # "idle" => /\ queue'[j] = queue[j] \/ j \in dirty'
                           /\ j \in dirty => j \in dirty'
       /\ IsRow(queue'[j]) =>
            \/ /\ IsRow(queue[j]) /\ queue'[j].run = queue[j].run
               /\ Launchable(queue'[j]) => Launchable(queue[j])
            \/ queue[j] = Unminted /\ p.copy[j] = Unminted /\ queue'[j].run = j

\* What a pass tells stays true while they do.
LEMMA OutsideTells ==
  ASSUME NEW p, queue \in [Ids -> MaybeRow], Holds(p, queue, dirty), Tells(p), QueueGood,
         Outside(p)
  PROVE  Tells(p)'
<1>1. CopyGood(p) /\ Seen(p) /\ InWork(p) /\ Judged(p) /\ Sole(p) /\ XmKeeps
  BY DEF Tells, Outside
<1>2. /\ p.copy \in [Ids -> MaybeRow]
      /\ p.fresh \in SUBSET Ids /\ p.touched \in SUBSET Ids /\ p.todo \in SUBSET Ids
  BY Zenon DEF Holds, PassState
<1>3. PassFits(p) /\ CopyFits(p, queue, dirty)
  BY DEF Holds
<1>4. \A j \in Ids : IsRow(p.copy[j]) =>
        XidOf(p.copy[j]) = NoXid \/ XidOf(p.copy[j]) \in AllXids(p.copy[j])
  BY <1>2, RowFacts, XidsAre DEF MaybeRow
<1>5. CopyGood(p)'
  <2>1. SUFFICES ASSUME NEW j \in Ids, IsRow(p.copy[j])
                 PROVE  GoodRow(j, p.copy[j])' /\ p.copy[p.copy[j].run] # Unminted
    BY DEF CopyGood
  <2>2. GoodRow(j, p.copy[j]) /\ p.copy[p.copy[j].run] # Unminted
    BY <1>1, <2>1 DEF CopyGood
  <2>3. AllXids(p.copy[j]) \subseteq Made
    BY <2>2 DEF GoodRow
  <2>4. \A x \in AllXids(p.copy[j]) : x \in Made' /\ xm'[x].job = xm[x].job /\ (Hot(x)' => Hot(x))
    BY <1>1, <2>3 DEF Made, XmKeeps
  <2>5. XidOf(p.copy[j]) # NoXid => XidOf(p.copy[j]) \in AllXids(p.copy[j])
    BY <1>4, <2>1
  <2>6. AllXids(p.copy[j]) \subseteq Made'
    BY <2>4
  <2>7. \A x \in AllXids(p.copy[j]) : Hot(x)' => XidOf(p.copy[j]) = x /\ HasLive(p.copy[j])
    BY <2>2, <2>4 DEF GoodRow
  <2>8. XidOf(p.copy[j]) # NoXid => xm'[XidOf(p.copy[j])].job = j
    BY <2>2, <2>4, <2>5 DEF GoodRow
  <2>9. HasLive(p.copy[j]) => p.copy[j].state \in Reconcilable
    BY <2>2 DEF GoodRow
  <2> QED BY <2>2, <2>6, <2>7, <2>8, <2>9 DEF GoodRow
<1>6. Seen(p)'
  <2>1. SUFFICES ASSUME p.pc # "idle", NEW j \in Ids
                 PROVE  /\ p.copy[j] = Unminted /\ IsRow(queue'[j]) => queue'[j].run = j
                        /\ p.copy[j] = Cleared => queue'[j] = Cleared
                        /\ IsRow(p.copy[j]) /\ IsRow(queue'[j]) => queue'[j].run = p.copy[j].run
                        /\ p.copy[j] # Unminted /\ j \notin p.fresh => queue'[j] # Unminted
    BY DEF Seen, IsRow
  <2>2. /\ p.copy[j] = Unminted /\ IsRow(queue[j]) => queue[j].run = j
        /\ p.copy[j] = Cleared => queue[j] = Cleared
        /\ IsRow(p.copy[j]) /\ IsRow(queue[j]) => queue[j].run = p.copy[j].run
        /\ p.copy[j] # Unminted /\ j \notin p.fresh => queue[j] # Unminted
    BY <1>1, <2>1 DEF Seen
  <2>3. /\ queue[j] # Unminted => queue'[j] # Unminted
        /\ queue[j] = Cleared => queue'[j] = Cleared
        /\ IsRow(queue'[j]) =>
             \/ IsRow(queue[j]) /\ queue'[j].run = queue[j].run
             \/ queue[j] = Unminted /\ p.copy[j] = Unminted /\ queue'[j].run = j
    BY DEF Outside
  <2> QED BY <2>2, <2>3, RowFacts
<1>7. \A j \in Ids : p.pc # "idle" /\ j \notin dirty' => j \notin dirty /\ queue'[j] = queue[j]
  BY DEF Outside
<1>8. InWork(p)'
  <2>1. ASSUME NEW j \in p.todo
        PROVE  /\ p.kind = "reconcile" => Judgeable(p.copy[j])
               /\ p.kind = "reroute" => Movable(p.copy[j])
               /\ j \notin dirty' => IsRow(queue'[j]) /\ Bound(queue'[j])
    <3>1. p.pc # "idle" /\ j \in Ids
      BY <1>2, <1>3 DEF PassFits
    <3>2. j \notin dirty' => j \notin dirty /\ queue'[j] = queue[j]
      BY <1>7, <3>1
    <3> QED BY <1>1, <3>2 DEF InWork
  <2>2. ASSUME NEW j \in p.touched
        PROVE  /\ IsRow(p.copy[j]) /\ j \notin p.fresh
               /\ j \notin dirty' => /\ IsRow(queue'[j]) /\ Bound(queue'[j])
                                     /\ HasLive(p.copy[j]) =>
                                          HasLive(queue'[j]) /\ XidOf(p.copy[j]) = XidOf(queue'[j])
                                     /\ Launchable(p.copy[j]) =>
                                          p.pc \in {"archive", "persist"} /\ p.row = j
    <3>1. p.pc # "idle" /\ j \in Ids
      BY <1>2, <1>3 DEF PassFits
    <3>2. j \notin dirty' => j \notin dirty /\ queue'[j] = queue[j]
      BY <1>7, <3>1
    <3> QED BY <1>1, <3>2 DEF InWork
  <2>3. ASSUME p.pc \in Moving
        PROVE  /\ p.row \notin dirty' => IsRow(queue'[p.row]) /\ Bound(queue'[p.row])
               /\ p.pc \in {"confirm", "cancel"} =>
                    /\ Movable(p.copy[p.row])
                    /\ xm'[XidOf(p.copy[p.row])].state \notin {"none", "empty"}
    <3>1. p.pc # "idle" /\ p.row \in Ids /\ p.copy[p.row] \in Row
      BY <1>3, <2>3 DEF PassFits, Moving
    <3>2. p.row \notin dirty' => p.row \notin dirty /\ queue'[p.row] = queue[p.row]
      BY <1>7, <3>1
    <3>3. p.row \notin dirty' => IsRow(queue'[p.row]) /\ Bound(queue'[p.row])
      BY <1>1, <2>3, <3>2 DEF InWork
    <3>4. ASSUME p.pc \in {"confirm", "cancel"}
          PROVE  /\ Movable(p.copy[p.row])
                 /\ xm'[XidOf(p.copy[p.row])].state \notin {"none", "empty"}
      <4>1. /\ Movable(p.copy[p.row])
            /\ xm[XidOf(p.copy[p.row])].state \notin {"none", "empty"}
        BY <1>1, <2>3, <3>4 DEF InWork
      <4>2. XidOf(p.copy[p.row]) \in Xids
        BY <3>1, <4>1, MakesBound, XidsAre
      <4> QED BY <1>1, <4>1, <4>2 DEF XmKeeps
    <3> QED BY <3>3, <3>4
  <2> QED BY <2>1, <2>2, <2>3 DEF InWork
<1>9. \A j \in Ids : \A x \in Of(j)' : Hot(x)' =>
        (x \in Of(j) /\ Hot(x)) \/ (IsRow(queue[j]) /\ Launchable(queue[j]))
  <2>1. SUFFICES ASSUME NEW j \in Ids, NEW x \in Xids,
                        xm'[x].state # "none", xm'[x].job = j, Hot(x)'
                 PROVE  (x \in Of(j) /\ Hot(x)) \/ (IsRow(queue[j]) /\ Launchable(queue[j]))
    BY DEF Of, Made
  <2>2. CASE xm[x].state # "none"
    <3>1. xm'[x].job = xm[x].job /\ (Hot(x)' => Hot(x))
      BY <1>1, <2>2 DEF XmKeeps
    <3>2. x \in Of(j)
      BY <2>1, <2>2, <3>1 DEF Of, Made
    <3>3. Hot(x)
      BY <2>1, <3>1
    <3> QED BY <3>2, <3>3
  <2>3. CASE xm[x].state = "none"
    BY <2>1, <2>3 DEF Outside
  <2> QED BY <2>2, <2>3
<1>10. Judged(p)'
  <2>1. SUFFICES ASSUME p.kind = "reconcile", NEW j \in Ids, IsRow(p.copy[j]), IsRow(queue'[j]),
                        j \in p.todo \/ p.copy[j].state \in Finished
                 PROVE  /\ ~Launchable(queue'[j])
                        /\ \A x \in Of(j)' : Hot(x)' => j \in p.todo /\ x = XidOf(p.copy[j])
    BY DEF Judged
  <2>2. /\ IsRow(queue[j])
        /\ Launchable(queue'[j]) => Launchable(queue[j])
    BY <2>1, RowFacts DEF Outside
  <2>3. /\ ~Launchable(queue[j])
        /\ \A x \in Of(j) : Hot(x) => j \in p.todo /\ x = XidOf(p.copy[j])
    BY <1>1, <2>1, <2>2 DEF Judged
  <2> QED BY <1>9, <2>2, <2>3
<1>11. ASSUME NEW i \in Ids, Active(p, i)'
       PROVE  \/ Active(p, i) /\ RunOf(p, i)' = RunOf(p, i)
              \/ queue[i] = Unminted /\ p.copy[i] = Unminted /\ RunOf(p, i)' = i
  <2>1. CASE i \in p.fresh
    BY <2>1 DEF Active, RunOf
  <2>2. CASE i \notin p.fresh /\ MovingRow(p, i)'
    <3>1. p.pc # "idle" /\ p.pc \in Moving /\ p.row = i /\ i \notin dirty'
      BY <2>2 DEF MovingRow, Moving
    <3>2. i \notin dirty /\ queue'[i] = queue[i]
      BY <1>7, <3>1
    <3> QED BY <2>2, <3>1, <3>2 DEF Active, MovingRow, RunOf
  <2>3. CASE i \notin p.fresh /\ ~MovingRow(p, i)'
    <3>1. IsRow(queue'[i]) /\ (Launchable(queue'[i]) \/ \E x \in Of(i)' : Hot(x)')
      BY <1>11, <2>3 DEF Active
    <3>2. CASE queue[i] = Unminted /\ p.copy[i] = Unminted /\ queue'[i].run = i
      BY <2>3, <3>2 DEF RunOf
    <3>3. CASE /\ IsRow(queue[i]) /\ queue'[i].run = queue[i].run
               /\ Launchable(queue'[i]) => Launchable(queue[i])
      <4>1. Launchable(queue[i]) \/ \E x \in Of(i) : Hot(x)
        BY <1>9, <3>1, <3>3
      <4> QED BY <2>3, <3>3, <4>1 DEF Active, RunOf
    <3> QED BY <3>1, <3>2, <3>3 DEF Outside
  <2> QED BY <2>1, <2>2, <2>3
<1>12. ASSUME NEW i \in Ids, Active(p, i)
       PROVE  /\ RunOf(p, i) \in Ids
              /\ p.copy[RunOf(p, i)] # Unminted \/ queue[RunOf(p, i)] # Unminted
  <2>1. CASE i \in p.fresh
    <3>1. p.copy[i] \in Row
      BY <1>3, <2>1 DEF CopyFits
    <3> QED BY <1>1, <2>1, <3>1, RowFacts, RunIsId DEF CopyGood, RunOf, MaybeRow
  <2>2. CASE i \notin p.fresh
    <3>1. IsRow(queue[i])
      BY <1>1, <1>12, <2>2 DEF Active, MovingRow, InWork
    <3>2. queue[i] \in Row
      BY <3>1, RowFacts
    <3> QED BY <2>2, <3>1, <3>2, RunIsId DEF QueueGood, RunOf
  <2> QED BY <2>1, <2>2
<1>13. Sole(p)'
  <2>1. SUFFICES ASSUME NEW i \in Ids, NEW j \in Ids, Active(p, i)', Active(p, j)',
                        RunOf(p, i)' = RunOf(p, j)'
                 PROVE  i = j
    BY DEF Sole
  <2>2. CASE Active(p, i) /\ RunOf(p, i)' = RunOf(p, i)
    BY <1>1, <1>11, <1>12, <2>1, <2>2 DEF Sole
  <2>3. CASE queue[i] = Unminted /\ p.copy[i] = Unminted /\ RunOf(p, i)' = i
    BY <1>11, <1>12, <2>1, <2>3
  <2> QED BY <1>11, <2>1, <2>2, <2>3
<1> QED BY <1>5, <1>6, <1>8, <1>10, <1>13 DEF Tells

\* What is true of p is true of the pass that has become p.
LEMMA TellsNow ==
  ASSUME NEW p, pass' = p, Tells(p)'
  PROVE  Tells(pass)'
BY DEF Tells, CopyGood, Seen, InWork, Judged, Sole, Active, MovingRow, RunOf

\* What a pass tells depends on the queue, the experiments and the builder only.
LEMMA TellsSame ==
  ASSUME NEW p, Tells(p), UNCHANGED <<queue, dirty, xm, builder>>
  PROVE  Tells(p)'
<1>1. \A x : Hot(x)' <=> Hot(x)
  BY DEF Hot
<1>2. Made' = Made /\ \A j : Of(j)' = Of(j)
  BY DEF Made, Of
<1>3. CopyGood(p)'
  BY <1>1, <1>2 DEF Tells, CopyGood, GoodRow
<1>4. Seen(p)' /\ InWork(p)'
  BY DEF Tells, Seen, InWork, IsRow
<1>5. Judged(p)'
  BY <1>1, <1>2 DEF Tells, Judged
<1>6. Sole(p)'
  <2>1. \A i \in Ids : Active(p, i)' => Active(p, i)
    BY <1>1, <1>2 DEF Active, MovingRow
  <2>2. \A i \in Ids : RunOf(p, i)' = RunOf(p, i)
    BY DEF RunOf
  <2> QED BY <2>1, <2>2 DEF Tells, Sole
<1> QED BY <1>3, <1>4, <1>5, <1>6 DEF Tells

-----------------------------------------------------------------------------
(* What is written to the queue file.                                      *)

\* No experiment is made, and none turns hot.
Cools == XmKeeps /\ \A x \in Xids : xm[x].state = "none" => xm'[x].state = "none"

\* The step keeps row j, clears it, appends it, or writes it such that its experiments
\* stay its own, and one it has not recorded stays awaited.
RowKept(j) ==
  \/ queue'[j] = queue[j]
  \/ queue[j] # Unminted /\ queue'[j] = Cleared /\ \A x \in Of(j) : ~Hot(x)
  \/ /\ queue'[j] \in Row /\ GoodRow(j, queue'[j]) /\ queue'[queue'[j].run] # Unminted
     /\ \/ queue[j] = Unminted
        \/ /\ IsRow(queue[j]) /\ queue'[j].run = queue[j].run
           /\ \/ Of(j) \subseteq AllXids(queue'[j])
              \/ /\ AllXids(queue'[j]) = AllXids(queue[j])
                 /\ Awaited(queue[j]) => Awaited(queue'[j])

\* When no experiment is made, those of a job stay.
LEMMA CoolsSame ==
  ASSUME Cools
  PROVE  /\ Made' = Made
         /\ \A j : Of(j)' = Of(j)
         /\ \A x \in Made : Hot(x)' => Hot(x)
<1>1. Made' = Made
  BY DEF Cools, XmKeeps, Made
<1>2. \A x \in Made : xm'[x].job = xm[x].job /\ (Hot(x)' => Hot(x))
  BY DEF Cools, XmKeeps, Made
<1> QED BY <1>1, <1>2 DEF Of

\* A good row stays good as XManager goes on.
LEMMA GoodStays ==
  ASSUME XmKeeps, NEW j, NEW row \in Row, GoodRow(j, row)
  PROVE  GoodRow(j, row)'
<1>1. XidOf(row) # NoXid => XidOf(row) \in AllXids(row)
  BY XidsAre
<1>2. AllXids(row) \subseteq Made
  BY DEF GoodRow
<1>3. \A x \in AllXids(row) : x \in Made' /\ xm'[x].job = xm[x].job /\ (Hot(x)' => Hot(x))
  BY <1>2 DEF Made, XmKeeps
<1>4. AllXids(row) \subseteq Made'
  BY <1>3
<1>5. \A x \in AllXids(row) : Hot(x)' => XidOf(row) = x /\ HasLive(row)
  BY <1>3 DEF GoodRow
<1>6. XidOf(row) # NoXid => xm'[XidOf(row)].job = j
  BY <1>1, <1>3 DEF GoodRow
<1>7. HasLive(row) => row.state \in Reconcilable
  BY DEF GoodRow
<1> QED BY <1>4, <1>5, <1>6, <1>7 DEF GoodRow

\* So is what the queue has become.
LEMMA GoodNow ==
  ASSUME NEW j, NEW row, queue'[j] = row, GoodRow(j, row)'
  PROVE  GoodRow(j, queue[j])'
BY DEF GoodRow

\* Such writes keep the rows good.
LEMMA KeptLaw ==
  ASSUME queue \in [Ids -> MaybeRow], Experiments, QueueGood, Lost, Cools,
         \A j \in Ids : RowKept(j)
  PROVE  Experiments' /\ QueueGood' /\ Lost'
<1>1. \A j \in Ids : queue[j] # Unminted => queue'[j] # Unminted
  BY QueueConstantsOK DEF RowKept
<1>2. /\ Made' = Made
      /\ \A j : Of(j)' = Of(j)
      /\ \A x \in Made : Hot(x)' => Hot(x)
  BY CoolsSame
<1>3. Experiments'
  <2>1. SUFFICES ASSUME NEW x \in Made'
                 PROVE  /\ xm'[x].job \in Ids /\ queue'[xm'[x].job] # Unminted
                        /\ IsRow(queue'[xm'[x].job]) => queue'[xm'[x].job].run = xm'[x].run
                        /\ Hot(x)' => IsRow(queue'[xm'[x].job])
    BY DEF Experiments, IsRow
  <2>2. x \in Made /\ xm'[x].job = xm[x].job /\ xm'[x].run = xm[x].run /\ (Hot(x)' => Hot(x))
    BY <1>2, <2>1 DEF Cools, XmKeeps, Made
  <2> DEFINE j == xm[x].job
  <2>3. /\ j \in Ids /\ queue[j] # Unminted
        /\ IsRow(queue[j]) => queue[j].run = xm[x].run
        /\ Hot(x) => IsRow(queue[j])
    BY <2>2 DEF Experiments
  <2>4. x \in Of(j)
    BY <2>2 DEF Of
  <2> HIDE DEF j
  <2>5. RowKept(j)
    BY <2>3
  <2>6. IsRow(queue'[j]) => queue'[j].run = xm[x].run
    BY <2>3, <2>5, RowFacts DEF RowKept
  <2>7. Hot(x)' => IsRow(queue'[j])
    BY <2>2, <2>3, <2>4, <2>5, RowFacts DEF RowKept, MaybeRow
  <2>8. xm'[x].job = j
    BY <2>2 DEF j
  <2> QED BY <1>1, <2>2, <2>3, <2>6, <2>7, <2>8
<1>4. QueueGood'
  <2>1. SUFFICES ASSUME NEW j \in Ids, IsRow(queue'[j])
                 PROVE  GoodRow(j, queue[j])' /\ queue'[queue'[j].run] # Unminted
    BY DEF QueueGood, IsRow
  <2>2. PICK row : row = queue'[j]
    OBVIOUS
  <2>3. /\ row \in Row /\ GoodRow(j, row) /\ queue'[row.run] # Unminted
    <3>1. CASE queue'[j] = queue[j]
      <4>1. row = queue[j] /\ IsRow(queue[j]) /\ row \in Row
        BY <2>1, <2>2, <3>1, RowFacts DEF MaybeRow
      <4>2. GoodRow(j, row) /\ queue[row.run] # Unminted
        BY <4>1 DEF QueueGood
      <4> QED BY <1>1, <4>1, <4>2, RunIsId
    <3>2. CASE queue'[j] # queue[j]
      BY <2>1, <2>2, <3>2, RowFacts DEF RowKept
    <3> QED BY <3>1, <3>2
  <2>4. GoodRow(j, row)'
    BY <2>3, GoodStays DEF Cools
  <2> QED BY <2>2, <2>3, <2>4, GoodNow
<1>5. Lost'
  <2>1. SUFFICES ASSUME NEW j \in Ids, IsRow(queue'[j])
                 PROVE  /\ Unrecorded(j)' # {} => Awaited(queue'[j])
                        /\ \A x, y \in Unrecorded(j)' : x = y
    BY DEF Lost, IsRow
  <2>2. Unrecorded(j)' = {x \in Of(j) : x \notin AllXids(queue'[j])}
    BY <1>2 DEF Unrecorded
  <2>3. CASE queue'[j] = queue[j]
    BY <2>1, <2>2, <2>3 DEF Lost, Unrecorded, IsRow
  <2>4. CASE queue[j] = Unminted
    <3>1. Of(j) = {}
      BY <2>4 DEF Experiments, Of
    <3> QED BY <2>2, <3>1
  <2>5. CASE IsRow(queue[j]) /\ Of(j) \subseteq AllXids(queue'[j])
    BY <2>2, <2>5
  <2>6. CASE /\ IsRow(queue[j]) /\ AllXids(queue'[j]) = AllXids(queue[j])
             /\ Awaited(queue[j]) => Awaited(queue'[j])
    BY <2>2, <2>6 DEF Lost, Unrecorded
  <2>7. RowKept(j)
    OBVIOUS
  <2> QED BY <2>1, <2>3, <2>4, <2>5, <2>6, <2>7, RowFacts DEF RowKept
<1> QED BY <1>3, <1>4, <1>5

\* The builder makes no experiment that may come to run.
BuilderCools ==
  \/ builder'.pc \notin {"created", "bound"}
  \/ builder'.xid = builder.xid /\ builder.pc \in {"created", "bound"}

\* XManager changes experiments that are hot, and leaves them made.
XmMoves ==
  \A x \in Xids :
    \/ xm'[x] = xm[x]
    \/ /\ Hot(x) /\ xm'[x].state \notin {"none", "empty"}
       /\ xm'[x].job = xm[x].job /\ xm'[x].run = xm[x].run

\* Then none turns hot.
LEMMA CoolsBy ==
  ASSUME XmMoves, BuilderCools
  PROVE  Cools
<1>1. SUFFICES ASSUME NEW x \in Xids
      PROVE  /\ xm[x].state # "none" =>
                  xm'[x].state # "none" /\ xm'[x].job = xm[x].job /\ xm'[x].run = xm[x].run
             /\ xm[x].state \notin {"none", "empty"} => xm'[x].state \notin {"none", "empty"}
             /\ Hot(x)' /\ xm[x].state # "none" => Hot(x)
             /\ Hot(x)' => xm'[x].state # "none"
             /\ xm[x].state = "none" => xm'[x].state = "none"
  BY DEF Cools, XmKeeps
<1>2. Hot(x) => xm[x].state # "none"
  BY DEF Hot, Alive
<1>3. Hot(x)' => xm'[x].state # "none"
  BY DEF Hot, Alive
<1>4. CASE xm'[x] = xm[x]
  <2>1. Hot(x)' => Hot(x)
    BY <1>4 DEF Hot, BuilderCools
  <2> QED BY <1>3, <1>4, <2>1
<1>5. CASE xm'[x] # xm[x]
  BY <1>2, <1>3, <1>5 DEF XmMoves
<1> QED BY <1>4, <1>5

\* Whoever writes row j, it is not the row that is being built, nor bound to another
\* experiment.
RowSpared(j) ==
  \/ queue'[j] = queue[j]
  \/ /\ ~(IsRow(queue[j]) /\ queue[j].state = "BUILDING" /\ ~HasLive(queue[j]))
     /\ IsRow(queue'[j]) /\ HasLive(queue'[j]) =>
          IsRow(queue[j]) /\ HasLive(queue[j]) /\ XidOf(queue'[j]) = XidOf(queue[j])

\* The types of the builder's job and experiment.
LEMMA BuilderPlace ==
  ASSUME QueueInv, BuilderKnows
  PROVE  /\ builder.pc \in BuilderPC
         /\ builder.pc \in {"plan", "build", "created", "bound", "record"} =>
              builder.job \in Ids /\ builder.claimed \in Row
         /\ builder.xid # NoXid => builder.pc \in {"created", "bound", "record"}
                                   /\ builder.xid \in Xids
         /\ builder.pc \in {"created", "bound"} => builder.xid # NoXid
<1>1. builder.pc \in BuilderPC /\ builder.xid \in Xids \cup {NoXid}
  BY DEF QueueInv, TypeOK, BuilderState
<1>2. BuilderTells
  BY DEF QueueInv
<1>3. NoXid \notin Xids
  BY RowConstantsOK DEF NoXid, Xids
<1> QED BY <1>1, <1>2, <1>3 DEF BuilderTells, BuilderPC, BuilderKnows

\* What the builder knows stays true when others write such rows.
LEMMA BuilderStays ==
  ASSUME QueueInv, BuilderKnows, Experiments, Cools, builder' = builder,
         \A x \in Xids : xm[x].state = "empty" => xm'[x].state = "empty",
         \A j \in Ids : RowKept(j) /\ RowSpared(j)
  PROVE  BuilderKnows'
<1>1. /\ builder.pc \in BuilderPC
      /\ builder.pc \in {"plan", "build", "created", "bound", "record"} =>
           builder.job \in Ids /\ builder.claimed \in Row
      /\ builder.xid # NoXid => builder.pc \in {"created", "bound", "record"}
                                /\ builder.xid \in Xids
      /\ builder.pc \in {"created", "bound"} => builder.xid # NoXid
  BY BuilderPlace
<1>2. Made' = Made /\ \A j : Of(j)' = Of(j)
  BY CoolsSame
<1>3. builder.pc \in {"plan", "build", "created", "bound", "record"} /\ Untouched =>
        /\ queue'[builder.job] = queue[builder.job]
        /\ Untouched'
        /\ Unrecorded(builder.job)' = Unrecorded(builder.job)
  <2>1. SUFFICES ASSUME builder.pc \in {"plan", "build", "created", "bound", "record"}, Untouched
                 PROVE  /\ queue'[builder.job] = queue[builder.job]
                        /\ Untouched'
                        /\ Unrecorded(builder.job)' = Unrecorded(builder.job)
    OBVIOUS
  <2>2. builder.job \in Ids /\ IsRow(queue[builder.job])
    BY <1>1, <2>1, RowFacts DEF Untouched, MaybeRow
  <2>3. queue'[builder.job] = queue[builder.job]
    BY <2>1, <2>2 DEF RowSpared, Untouched
  <2>4. Untouched'
    BY <2>1, <2>3 DEF Untouched
  <2>5. Unrecorded(builder.job)' = Unrecorded(builder.job)
    BY <1>2, <2>3 DEF Unrecorded
  <2> QED BY <2>3, <2>4, <2>5
<1>4. ASSUME builder.xid # NoXid
      PROVE  /\ builder.xid \in Of(builder.job)'
             /\ IsRow(queue'[builder.job]) /\ HasLive(queue'[builder.job]) =>
                  XidOf(queue'[builder.job]) = builder.xid
             /\ IsRow(queue'[builder.job]) => Unrecorded(builder.job)' \subseteq {builder.xid}
  <2> DEFINE j == builder.job
  <2>1. j \in Ids
    BY <1>1, <1>4
  <2>2. /\ builder.xid \in Of(j)
        /\ IsRow(queue[j]) /\ HasLive(queue[j]) => XidOf(queue[j]) = builder.xid
        /\ IsRow(queue[j]) => Unrecorded(j) \subseteq {builder.xid}
    BY <1>4 DEF BuilderKnows
  <2>3. builder.xid \in Of(j)'
    BY <1>2, <2>2
  <2>4. queue[j] # Unminted
    BY <2>2 DEF Experiments, Of
  <2>5. Unrecorded(j)' = {x \in Of(j) : x \notin AllXids(queue'[j])}
    BY <1>2 DEF Unrecorded
  <2> HIDE DEF j
  <2>6. RowKept(j) /\ RowSpared(j)
    BY <2>1
  <2>7. IsRow(queue'[j]) /\ HasLive(queue'[j]) => XidOf(queue'[j]) = builder.xid
    BY <2>2, <2>6 DEF RowSpared
  <2>8. IsRow(queue'[j]) => {x \in Of(j) : x \notin AllXids(queue'[j])} \subseteq {builder.xid}
    BY <2>2, <2>4, <2>6, RowFacts DEF RowKept, Unrecorded
  <2> QED BY <2>3, <2>5, <2>7, <2>8 DEF j
<1>5. builder.pc \in {"created", "bound"} => xm'[builder.xid].state = "empty"
  BY <1>1 DEF BuilderKnows
<1> QED BY <1>1, <1>3, <1>4, <1>5 DEF BuilderKnows

\* A step that writes such rows, and is not of the pass, keeps the invariant.
LEMMA WriteInv ==
  ASSUME WriterInv, QueueInv', UNCHANGED <<pass, orphans>>,
         XmMoves, BuilderCools, BuilderKnows',
         \A j \in Ids : RowKept(j),
         \A j \in Ids : IsRow(queue[j]) /\ IsRow(queue'[j]) /\ Launchable(queue'[j]) =>
                          Launchable(queue[j]),
         \A j \in Ids : queue[j] = Unminted /\ queue'[j] # Unminted =>
                          pass.copy[j] = Unminted /\ queue'[j].run = j,
         \A j \in Ids : pass.pc # "idle" =>
                          (queue'[j] = queue[j] \/ j \in dirty') /\ (j \in dirty => j \in dirty')
  PROVE  WriterInv'
<1>1. QueueInv /\ Core /\ Tells(pass) /\ orphans = {}
  BY DEF WriterInv
<1>2. Experiments /\ QueueGood /\ Lost /\ BuilderKnows /\ NotMade
  BY <1>1 DEF Core
<1>3. queue \in [Ids -> MaybeRow] /\ Holds(pass, queue, dirty)
  BY <1>1 DEF QueueInv, TypeOK
<1>4. Cools
  BY CoolsBy
<1>5. Experiments' /\ QueueGood' /\ Lost'
  BY <1>2, <1>3, <1>4, KeptLaw
<1>6. PICK p : p = pass
  OBVIOUS
<1>7. Outside(p)
  <2>1. XmKeeps /\ \A x \in Xids : xm[x].state = "none" => xm'[x].state = "none"
    BY <1>4 DEF Cools
  <2>2. ASSUME NEW j \in Ids
        PROVE  /\ queue[j] # Unminted => queue'[j] # Unminted
               /\ queue[j] = Cleared => queue'[j] = Cleared
               /\ IsRow(queue'[j]) /\ IsRow(queue[j]) => queue'[j].run = queue[j].run
    BY RowFacts, QueueConstantsOK DEF RowKept
  <2>3. \A j \in Ids : IsRow(queue'[j]) => IsRow(queue[j]) \/ queue[j] = Unminted
    BY <2>2 DEF IsRow
  <2> QED BY <1>6, <2>1, <2>2, <2>3, RowFacts DEF Outside
<1>8. Tells(p)'
  BY <1>1, <1>2, <1>3, <1>6, <1>7, OutsideTells
<1>9. Tells(pass)'
  BY <1>6, <1>8, TellsNow
<1>10. NotMade'
  BY <1>2 DEF NotMade, XmMoves
<1> QED BY <1>1, <1>5, <1>9, <1>10 DEF WriterInv, Core

\* A row with the same submissions stays good.
LEMMA SameGood ==
  ASSUME NEW row \in Row, NEW r, NEW j, Same(row, r), GoodRow(j, row),
         HasLive(row) => r.state \in Reconcilable
  PROVE  GoodRow(j, r)
BY DEF Same, GoodRow

\* It is a write as above.
LEMMA SameKept ==
  ASSUME queue \in [Ids -> MaybeRow], QueueGood, Lost,
         \A i \in Ids : queue[i] # Unminted => queue'[i] # Unminted,
         NEW j \in Ids, IsRow(queue[j]), Same(queue[j], queue'[j]),
         HasLive(queue[j]) => queue'[j].state \in Reconcilable,
         Awaited(queue[j]) => Awaited(queue'[j]) \/ Unrecorded(j) = {}
  PROVE  RowKept(j)
<1>1. queue[j] \in Row
  BY RowFacts
<1>2. /\ queue'[j] \in Row /\ queue'[j].run = queue[j].run
      /\ AllXids(queue'[j]) = AllXids(queue[j])
  BY DEF Same
<1>3. GoodRow(j, queue[j]) /\ queue[queue[j].run] # Unminted
  BY DEF QueueGood
<1>4. GoodRow(j, queue'[j])
  BY <1>1, <1>3, SameGood
<1>5. queue'[queue'[j].run] # Unminted
  BY <1>1, <1>2, <1>3, RunIsId
<1>6. Unrecorded(j) = {} => Of(j) \subseteq AllXids(queue'[j])
  BY <1>2 DEF Unrecorded
<1> QED BY <1>2, <1>4, <1>5, <1>6 DEF RowKept

-----------------------------------------------------------------------------
(* Users and XManager.                                                     *)

\* An XManager that does nothing, moves nothing.
LEMMA IdleWorld ==
  ASSUME UNCHANGED xm
  PROVE  XmMoves /\ \A x \in Xids : xm[x].state = "empty" => xm'[x].state = "empty"
BY DEF XmMoves

\* What save_row does to the queue file.
LEMMA SaveRowIs ==
  ASSUME queue \in [Ids -> MaybeRow], dirty \in SUBSET Ids, NEW j \in Ids, NEW r, SaveRow(j, r)
  PROVE  /\ queue' = [queue EXCEPT ![j] = r]
         /\ queue'[j] = r /\ \A i \in Ids : i # j => queue'[i] = queue[i]
         /\ \A i \in Ids : pass.pc # "idle" =>
              (queue'[i] = queue[i] \/ i \in dirty') /\ (i \in dirty => i \in dirty')
<1>1. queue' = [queue EXCEPT ![j] = r]
  BY DEF SaveRow, Save
<1>2. \A i \in Ids : pass.pc # "idle" =>
              (queue'[i] = queue[i] \/ i \in dirty') /\ (i \in dirty => i \in dirty')
  BY <1>1 DEF SaveRow, Save
<1> QED BY <1>1, <1>2

\* A write of one row, by a user, keeps the invariant.
LEMMA OutsideRow ==
  ASSUME WriterInv, QueueInv', UNCHANGED <<builder, pass, xm, orphans>>,
         NEW j \in Ids, NEW r, SaveRow(j, r), RowKept(j), RowSpared(j),
         IsRow(queue[j]) /\ IsRow(r) /\ Launchable(r) => Launchable(queue[j]),
         queue[j] = Unminted /\ r # Unminted => pass.copy[j] = Unminted /\ r.run = j
  PROVE  WriterInv'
<1>1. QueueInv /\ Core
  BY DEF WriterInv
<1>2. queue \in [Ids -> MaybeRow] /\ dirty \in SUBSET Ids
  BY <1>1 DEF QueueInv, TypeOK
<1>3. /\ queue'[j] = r /\ \A i \in Ids : i # j => queue'[i] = queue[i]
      /\ \A i \in Ids : pass.pc # "idle" =>
              (queue'[i] = queue[i] \/ i \in dirty') /\ (i \in dirty => i \in dirty')
  BY <1>2, SaveRowIs
<1>4. XmMoves /\ (\A x \in Xids : xm[x].state = "empty" => xm'[x].state = "empty")
  BY IdleWorld
<1>5. BuilderCools
  BY DEF BuilderCools
<1>6. \A i \in Ids : RowKept(i) /\ RowSpared(i)
  BY <1>3 DEF RowKept, RowSpared
<1>7. BuilderKnows'
  BY <1>1, <1>4, <1>5, <1>6, CoolsBy, BuilderStays DEF Core
<1>8. \A i \in Ids : IsRow(queue[i]) /\ IsRow(queue'[i]) /\ Launchable(queue'[i]) =>
                          Launchable(queue[i])
  BY <1>3
<1>9. \A i \in Ids : queue[i] = Unminted /\ queue'[i] # Unminted =>
                          pass.copy[i] = Unminted /\ queue'[i].run = i
  BY <1>3
<1> QED BY <1>3, <1>4, <1>5, <1>6, <1>7, <1>8, <1>9, WriteInv

\* Users keep it when they enqueue, requeue or clear a row.
LEMMA UserInv ==
  ASSUME WriterInv, QueueInv', NEW j \in Ids, Enqueue(j) \/ RequeueRow(j) \/ ClearRow(j)
  PROVE  WriterInv'
<1>1. QueueInv /\ Core /\ Experiments /\ QueueGood /\ Lost
  BY DEF WriterInv, Core
<1>2. queue \in [Ids -> MaybeRow] /\ dirty \in SUBSET Ids
  BY <1>1 DEF QueueInv, TypeOK
<1>3. UNCHANGED <<builder, pass, xm, orphans>>
  BY DEF Enqueue, RequeueRow, ClearRow, world
<1>4. CASE Enqueue(j)
  <2> DEFINE r == NewRow(j)
  <2>1. /\ r \in Row /\ r.run = j /\ r.state = "QUEUED"
        /\ AllXids(r) = {} /\ XidOf(r) = NoXid /\ ~HasLive(r)
    BY NewRowView
  <2>2. SaveRow(j, r) /\ queue[j] = Unminted /\ pass.copy[j] = Unminted
    BY <1>4 DEF Enqueue, Mintable
  <2> HIDE DEF r
  <2>3. queue'[j] = r
    BY <1>2, <2>2, SaveRowIs
  <2>4. GoodRow(j, r)
    BY <2>1 DEF GoodRow
  <2>5. r # Unminted
    BY <2>1, QueueConstantsOK
  <2>6. RowKept(j) /\ RowSpared(j)
    BY <2>1, <2>2, <2>3, <2>4, <2>5, RowFacts DEF RowKept, RowSpared
  <2> QED BY <1>3, <2>1, <2>2, <2>6, RowFacts, OutsideRow
<1>5. CASE RequeueRow(j)
  <2> DEFINE r == RequeueHeld(queue[j])
  <2>1. IsRow(queue[j]) /\ queue[j].state = "HELD" /\ "requeue" \in Users /\ SaveRow(j, r)
    BY <1>5 DEF RequeueRow, InState
  <2>2. queue[j] \in Row
    BY <1>2, <2>1, RowFacts
  <2>3. Same(queue[j], r) /\ r.state = "QUEUED"
    BY <2>2, RequeueHeldIs
  <2> HIDE DEF r
  <2>4. queue'[j] = r /\ \A i \in Ids : i # j => queue'[i] = queue[i]
    BY <1>2, <2>1, SaveRowIs
  <2>5. ~HasLive(queue[j]) /\ ~Awaited(queue[j]) /\ Launchable(queue[j])
    <3>1. GoodRow(j, queue[j])
      BY <1>1, <2>1 DEF QueueGood
    <3>2. ~HasLive(queue[j])
      BY <2>1, <3>1 DEF GoodRow, Reconcilable
    <3> QED BY <2>1, <3>2 DEF Awaited, Launchable, Waiting
  <2>6. r \in Row /\ r # Unminted
    BY <2>3, QueueConstantsOK DEF Same
  <2>7. RowKept(j)
    BY <1>1, <1>2, <2>1, <2>3, <2>4, <2>5, <2>6, SameKept
  <2>8. RowSpared(j)
    BY <2>1, <2>3, <2>4, <2>5 DEF RowSpared, Same
  <2> QED BY <1>3, <2>1, <2>5, <2>7, <2>8, OutsideRow, RowFacts
<1>6. CASE ClearRow(j)
  <2>1. IsRow(queue[j]) /\ queue[j].state \in Finished /\ SaveRow(j, Cleared)
    BY <1>6 DEF ClearRow, InState
  <2>2. queue'[j] = Cleared
    BY <1>2, <2>1, SaveRowIs
  <2>3. GoodRow(j, queue[j]) /\ ~Awaited(queue[j])
    BY <1>1, <2>1, FinishedIs DEF QueueGood
  <2>4. Unrecorded(j) = {}
    BY <1>1, <2>1, <2>3 DEF Lost
  <2>5. \A x \in Of(j) : ~Hot(x)
    <3>1. SUFFICES ASSUME NEW x \in Of(j), Hot(x)
                   PROVE  FALSE
      OBVIOUS
    <3>2. x \in AllXids(queue[j])
      BY <2>4, <3>1 DEF Unrecorded
    <3> QED BY <2>1, <2>3, <3>1, <3>2, FinishedIs DEF GoodRow
  <2>6. queue[j] # Unminted
    BY <2>1 DEF IsRow
  <2>7. RowKept(j)
    BY <2>2, <2>5, <2>6 DEF RowKept
  <2>8. RowSpared(j)
    BY <2>1, <2>2, RowFacts DEF RowSpared, Finished
  <2> QED BY <1>3, <2>1, <2>6, <2>7, <2>8, OutsideRow, RowFacts
<1> QED BY <1>4, <1>5, <1>6

\* They keep it when they stop or mark an experiment, and so does XManager.
LEMMA WorldInv ==
  ASSUME WriterInv, QueueInv',
         (\E x \in Xids : UserStop(x) \/ UserMark(x)) \/ XManager
  PROVE  WriterInv'
<1>1. QueueInv /\ Core
  BY DEF WriterInv
<1>2. UNCHANGED <<queue, dirty, builder, pass, orphans>>
  BY DEF UserStop, UserMark, XManager, Evolve
<1>3. xm \in [Xids -> Experiment]
  BY <1>1 DEF QueueInv, TypeOK
<1>4. /\ XmMoves
      /\ \A x \in Xids : xm[x].state = "empty" => xm'[x].state = "empty"
  <2>1. CASE \E x \in Xids : UserMark(x)
    BY <2>1, IdleWorld DEF UserMark
  <2>2. ASSUME NEW x \in Xids, NEW s \in {"pending", "running", "completed", "stopped"},
               xm[x].state \in Alive, xm' = [xm EXCEPT ![x].state = s]
        PROVE  /\ XmMoves
               /\ \A y \in Xids : xm[y].state = "empty" => xm'[y].state = "empty"
    <3>1. \A y \in Xids : y # x => xm'[y] = xm[y]
      BY <1>3, <2>2
    <3>2. xm[x] \in Experiment
      BY <1>3
    <3>3. xm'[x].state = s /\ xm'[x].job = xm[x].job /\ xm'[x].run = xm[x].run
      BY <1>3, <2>2, <3>2 DEF Experiment
    <3>4. Hot(x) /\ xm[x].state # "empty"
      BY <2>2 DEF Hot, Alive
    <3> QED BY <3>1, <3>3, <3>4 DEF XmMoves
  <2>3. CASE \E x \in Xids : UserStop(x)
    BY <2>2, <2>3 DEF UserStop
  <2>4. CASE XManager
    <3>1. PICK x \in Xids, f \in {"pending", "running"},
               s \in {"pending", "running", "completed", "stopped"} : Evolve(x, f, s)
      BY <2>4 DEF XManager
    <3> QED BY <2>2, <3>1 DEF Evolve, Alive
  <2> QED BY <2>1, <2>3, <2>4
<1>5. \A i \in Ids : RowKept(i) /\ RowSpared(i)
  BY <1>2 DEF RowKept, RowSpared
<1>6. BuilderCools
  BY <1>2 DEF BuilderCools
<1>7. BuilderKnows'
  BY <1>1, <1>2, <1>4, <1>5, <1>6, CoolsBy, BuilderStays DEF Core
<1> QED BY <1>2, <1>4, <1>5, <1>6, <1>7, WriteInv

-----------------------------------------------------------------------------
(* The dispatch and the builder.                                           *)

\* What a write of the whole file does.
LEMMA SaveIs ==
  ASSUME NEW q, Save(q)
  PROVE  /\ queue' = q
         /\ \A i \in Ids : pass.pc # "idle" =>
              (queue'[i] = queue[i] \/ i \in dirty') /\ (i \in dirty => i \in dirty')
BY DEF Save

\* A step of the builder that writes rows, and neither makes nor launches an experiment,
\* keeps it.
LEMMA BuilderWrites ==
  ASSUME WriterInv, QueueInv', UNCHANGED <<pass, xm, orphans>>, BuilderCools, BuilderKnows',
         \A i \in Ids : pass.pc # "idle" =>
              (queue'[i] = queue[i] \/ i \in dirty') /\ (i \in dirty => i \in dirty'),
         \A i \in Ids : queue'[i] = queue[i] \/
            (RowKept(i) /\ IsRow(queue[i]) /\ (Launchable(queue'[i]) => Launchable(queue[i])))
  PROVE  WriterInv'
<1>1. XmMoves
  BY IdleWorld
<1>2. \A i \in Ids : RowKept(i)
  BY DEF RowKept
<1>3. \A i \in Ids : IsRow(queue[i]) /\ IsRow(queue'[i]) /\ Launchable(queue'[i]) =>
                          Launchable(queue[i])
  OBVIOUS
<1>4. \A i \in Ids : queue[i] = Unminted /\ queue'[i] # Unminted =>
                          pass.copy[i] = Unminted /\ queue'[i].run = i
  BY RowFacts
<1> QED BY <1>1, <1>2, <1>3, <1>4, WriteInv

\* A row that is not reconciled has no live submission.
LEMMA NotLive ==
  ASSUME QueueGood, NEW j \in Ids, IsRow(queue[j]), queue[j].state \notin Reconcilable
  PROVE  ~HasLive(queue[j])
BY DEF QueueGood, GoodRow

\* An id that was used stays so.
LEMMA MintedStays ==
  ASSUME Stepped(queue, queue')
  PROVE  \A i \in Ids : queue[i] # Unminted => queue'[i] # Unminted
BY QueueConstantsOK DEF Stepped, RowStep

\* The dispatch keeps the invariant.
LEMMA DispatchInv ==
  ASSUME WriterInv, QueueInv', Stepped(queue, queue'), Dispatch \/ Apply
  PROVE  WriterInv'
<1>1. QueueInv /\ Core /\ Experiments /\ QueueGood /\ Lost /\ BuilderKnows
  BY DEF WriterInv, Core
<1>2. queue \in [Ids -> MaybeRow] /\ builder \in BuilderState
  BY <1>1 DEF QueueInv, TypeOK
<1>3. UNCHANGED <<pass, xm, orphans>>
  BY DEF Dispatch, Apply, world
<1>4. builder'.pc \in {"claim", "apply"} /\ builder'.xid = NoXid
  <2>1. builder.xid = NoXid
    BY <1>1 DEF Dispatch, Apply, BuilderKnows
  <2> QED BY <1>2, <2>1 DEF Dispatch, Apply, BuilderState
<1>5. BuilderKnows'
  BY <1>4 DEF BuilderKnows
<1>6. BuilderCools
  BY <1>4 DEF BuilderCools
<1>7. PICK q : /\ Save(q)
               /\ \A i \in Ids : q[i] = queue[i] \/
                    (/\ i \in InState(queue, {"BUDGET_DEFERRED", "QUEUED"})
                     /\ \E s \in {"QUEUED", "BUILD_REQUESTED", "BUDGET_DEFERRED"} :
                          q[i] = [queue[i] EXCEPT !.state = s])
  <2>1. CASE Dispatch
    <3> DEFINE q == [j \in Ids |-> IF j \in InState(queue, {"BUDGET_DEFERRED"})
                             THEN Requeue(queue[j]) ELSE queue[j]]
    <3>1. Save(q)
      BY <2>1 DEF Dispatch
    <3>2. \A i \in Ids : q[i] = queue[i] \/
                    (/\ i \in InState(queue, {"BUDGET_DEFERRED", "QUEUED"})
                     /\ q[i] = [queue[i] EXCEPT !.state = "QUEUED"])
      BY DEF InState, Requeue
    <3> HIDE DEF q
    <3> QED BY <3>1, <3>2
  <2>2. CASE Apply
    <3>1. PICK fit, over \in SUBSET builder.queued :
            LET still == InState(queue, {"QUEUED"})
            IN Save([j \in Ids |->
               CASE j \in fit \cap still  -> [queue[j] EXCEPT !.state = "BUILD_REQUESTED"]
                 [] j \in over \cap still -> [queue[j] EXCEPT !.state = "BUDGET_DEFERRED"]
                 [] OTHER -> queue[j]])
      BY <2>2 DEF Apply
    <3> DEFINE still == InState(queue, {"QUEUED"})
               q == [j \in Ids |->
               CASE j \in fit \cap still  -> [queue[j] EXCEPT !.state = "BUILD_REQUESTED"]
                 [] j \in over \cap still -> [queue[j] EXCEPT !.state = "BUDGET_DEFERRED"]
                 [] OTHER -> queue[j]]
    <3>2. Save(q)
      BY <3>1
    <3>3. \A i \in Ids : i \in still => i \in InState(queue, {"BUDGET_DEFERRED", "QUEUED"})
      BY DEF InState
    <3>4. \A i \in Ids : q[i] = queue[i] \/
                    (/\ i \in still
                     /\ \E s \in {"QUEUED", "BUILD_REQUESTED", "BUDGET_DEFERRED"} :
                          q[i] = [queue[i] EXCEPT !.state = s])
      <4> HIDE DEF still
      <4> QED OBVIOUS
    <3> HIDE DEF q, still
    <3> QED BY <3>2, <3>3, <3>4
  <2> QED BY <2>1, <2>2
<1>8. /\ queue' = q
      /\ \A i \in Ids : pass.pc # "idle" =>
              (queue'[i] = queue[i] \/ i \in dirty') /\ (i \in dirty => i \in dirty')
  BY <1>7, SaveIs
<1>9. \A i \in Ids : queue[i] # Unminted => queue'[i] # Unminted
  BY MintedStays
<1>10. ASSUME NEW i \in Ids, queue'[i] # queue[i]
       PROVE  RowKept(i) /\ IsRow(queue[i]) /\ (Launchable(queue'[i]) => Launchable(queue[i]))
  <2>1. PICK s \in {"QUEUED", "BUILD_REQUESTED", "BUDGET_DEFERRED"} :
          queue'[i] = [queue[i] EXCEPT !.state = s]
    BY <1>7, <1>8, <1>10
  <2>2. IsRow(queue[i]) /\ queue[i].state \in {"BUDGET_DEFERRED", "QUEUED"}
    BY <1>7, <1>8, <1>10 DEF InState
  <2>3. queue[i] \in Row /\ s \in JobState
    BY <1>2, <2>2, RowFacts DEF JobState
  <2>4. Same(queue[i], queue'[i]) /\ queue'[i].state = s /\ queue'[i].attempts = queue[i].attempts
    BY <2>1, <2>3, SetStateIs
  <2>5. ~HasLive(queue[i])
    BY <1>1, <2>2, NotLive DEF Reconcilable
  <2>6. Awaited(queue[i]) => Awaited(queue'[i])
    BY <2>2, <2>4, <2>5 DEF Same, Awaited, Waiting
  <2>7. RowKept(i)
    BY <1>1, <1>2, <1>9, <2>2, <2>4, <2>5, <2>6, SameKept
  <2>8. Launchable(queue[i])
    BY <2>2 DEF Launchable, Waiting
  <2> QED BY <2>2, <2>7, <2>8
<1> QED BY <1>3, <1>5, <1>6, <1>8, <1>10, BuilderWrites

\* The claim keeps it: what it reclaims still asks for the experiment a dead builder
\* made.
LEMMA ClaimInv ==
  ASSUME WriterInv, QueueInv', Stepped(queue, queue'), Claim
  PROVE  WriterInv'
<1>1. QueueInv /\ Core /\ Experiments /\ QueueGood /\ Lost /\ BuilderKnows
  BY DEF WriterInv, Core
<1>2. queue \in [Ids -> MaybeRow] /\ builder \in BuilderState
  BY <1>1 DEF QueueInv, TypeOK
<1>3. UNCHANGED <<pass, xm, orphans>> /\ builder.pc = "claim" /\ builder.xid = NoXid
  BY <1>1 DEF Claim, world, BuilderKnows
<1>4. \A i \in Ids : queue[i] # Unminted => queue'[i] # Unminted
  BY MintedStays
<1>5. \A i \in Ids : Reclaimed[i] = IF IsRow(queue[i]) THEN Reclaim(queue[i]) ELSE queue[i]
  BY DEF Reclaimed
<1>6. ASSUME NEW i \in Ids, IsRow(queue[i]), queue'[i] = Reclaimed[i], queue'[i] # queue[i]
      PROVE  RowKept(i) /\ IsRow(queue[i]) /\ (Launchable(queue'[i]) => Launchable(queue[i]))
  <2>1. queue[i] \in Row /\ queue'[i] = Reclaim(queue[i])
    BY <1>2, <1>5, <1>6, RowFacts
  <2>2. /\ queue[i].state = "BUILDING" /\ Same(queue[i], queue'[i])
        /\ HasLive(queue[i]) => queue'[i].state = "SUBMITTED"
        /\ ~HasLive(queue[i]) => queue'[i].state = "QUEUED" /\ queue'[i].attempts > 0
    BY <1>6, <2>1, ReclaimIs
  <2>3. Awaited(queue[i]) => Awaited(queue'[i])
    BY <2>2 DEF Awaited, Waiting, Same
  <2>4. HasLive(queue[i]) => queue'[i].state \in Reconcilable
    BY <2>2 DEF Reconcilable
  <2>5. RowKept(i)
    BY <1>1, <1>2, <1>4, <1>6, <2>2, <2>3, <2>4, SameKept
  <2>6. Launchable(queue'[i]) => Launchable(queue[i])
    BY <2>2 DEF Launchable, Waiting
  <2> QED BY <1>6, <2>5, <2>6
<1>7. CASE Save(Reclaimed) /\ builder' = AtDispatch
  <2>1. /\ queue' = Reclaimed
        /\ \A i \in Ids : pass.pc # "idle" =>
              (queue'[i] = queue[i] \/ i \in dirty') /\ (i \in dirty => i \in dirty')
    BY <1>7, SaveIs
  <2>2. builder'.pc = "dispatch" /\ builder'.xid = NoXid
    BY <1>7 DEF AtDispatch
  <2>3. BuilderKnows' /\ BuilderCools
    BY <2>2 DEF BuilderKnows, BuilderCools
  <2>4. \A i \in Ids : queue'[i] # queue[i] => IsRow(queue[i])
    BY <1>5, <2>1
  <2> QED BY <1>3, <1>6, <2>1, <2>3, <2>4, BuilderWrites
<1>8. ASSUME NEW j \in InState(Reclaimed, {"BUILD_REQUESTED"}),
             Save([Reclaimed EXCEPT ![j] = ClaimForBuild(@)]),
             builder' = [builder EXCEPT !.pc = "plan", !.job = j,
                                        !.claimed = ClaimForBuild(Reclaimed[j])]
      PROVE  WriterInv'
  <2>1. j \in Ids /\ IsRow(Reclaimed[j]) /\ Reclaimed[j].state = "BUILD_REQUESTED"
    BY <1>8 DEF InState
  <2>2. IsRow(queue[j]) /\ queue[j] \in Row
    BY <1>2, <1>5, <2>1, RowFacts
  <2>3. Reclaimed[j] = queue[j]
    <3>1. Reclaimed[j] = Reclaim(queue[j])
      BY <1>5, <2>1, <2>2
    <3> QED BY <2>1, <2>2, <3>1, ReclaimIs
  <2> DEFINE r == ClaimForBuild(queue[j])
  <2>4. Same(queue[j], r) /\ r.state = "BUILDING" /\ r.attempts = queue[j].attempts
    BY <2>2, QueueOps
  <2> HIDE DEF r
  <2>5. /\ queue' = [Reclaimed EXCEPT ![j] = r]
        /\ \A i \in Ids : pass.pc # "idle" =>
              (queue'[i] = queue[i] \/ i \in dirty') /\ (i \in dirty => i \in dirty')
    BY <1>8, <2>3, SaveIs DEF r
  <2>6. queue'[j] = r /\ \A i \in Ids : i # j => queue'[i] = Reclaimed[i]
    BY <2>1, <2>5 DEF Reclaimed
  <2>7. ~HasLive(queue[j]) /\ queue[j].state = "BUILD_REQUESTED"
    BY <1>1, <2>1, <2>2, <2>3, NotLive DEF Reconcilable
  <2>8. RowKept(j) /\ Launchable(queue[j])
    <3>1. Awaited(queue'[j])
      BY <2>4, <2>6, <2>7 DEF Awaited, Same
    <3>2. RowKept(j)
      BY <1>1, <1>2, <1>4, <2>1, <2>2, <2>4, <2>6, <2>7, <3>1, SameKept
    <3> QED BY <2>7, <3>2 DEF Launchable, Waiting
  <2>9. /\ builder'.pc = "plan" /\ builder'.xid = NoXid /\ builder'.job = j
        /\ builder'.claimed = r
    BY <1>2, <1>3, <1>8, <2>3 DEF BuilderState, r
  <2>10. Unrecorded(j)' = Unrecorded(j)
    <3>1. Of(j)' = Of(j)
      BY <1>3 DEF Of, Made
    <3> QED BY <2>4, <2>6, <3>1 DEF Unrecorded, Same
  <2>11. Unrecorded(j) # {} => r.attempts > 0
    BY <1>1, <2>1, <2>2, <2>4, <2>7 DEF Lost, Awaited
  <2>12. Untouched'
    BY <2>4, <2>6, <2>7, <2>9 DEF Untouched, Same
  <2>13. BuilderKnows'
    BY <2>9, <2>10, <2>11, <2>12 DEF BuilderKnows
  <2>14. BuilderCools
    BY <2>9 DEF BuilderCools
  <2>15. \A i \in Ids : queue'[i] # queue[i] => IsRow(queue[i])
    BY <1>5, <2>2, <2>6
  <2> QED BY <1>3, <1>6, <2>2, <2>5, <2>6, <2>8, <2>13, <2>14, <2>15, BuilderWrites
<1> QED BY <1>7, <1>8 DEF Claim, Reclaimed

\* What update_row does.
LEMMA UpdateIs ==
  ASSUME queue \in [Ids -> MaybeRow], dirty \in SUBSET Ids, builder.job \in Ids, NEW r, Update(r)
  PROVE  /\ IsRow(TheRow) => queue'[builder.job] = r
         /\ ~IsRow(TheRow) => queue' = queue
         /\ \A i \in Ids : i # builder.job => queue'[i] = queue[i]
         /\ \A i \in Ids : pass.pc # "idle" =>
              (queue'[i] = queue[i] \/ i \in dirty') /\ (i \in dirty => i \in dirty')
<1>1. CASE IsRow(TheRow)
  <2>1. SaveRow(builder.job, r)
    BY <1>1 DEF Update
  <2> QED BY <1>1, <2>1, SaveRowIs
<1>2. CASE ~IsRow(TheRow)
  BY <1>2 DEF Update
<1> QED BY <1>1, <1>2

\* A step of the builder that writes only its own row keeps it.
LEMMA UpdateInv ==
  ASSUME WriterInv, QueueInv', UNCHANGED <<pass, xm, orphans>>, builder.job \in Ids,
         NEW r, Update(r), BuilderCools, BuilderKnows',
         IsRow(TheRow) => RowKept(builder.job) /\ (Launchable(r) => Launchable(TheRow))
  PROVE  WriterInv'
<1>1. queue \in [Ids -> MaybeRow] /\ dirty \in SUBSET Ids
  BY DEF WriterInv, QueueInv, TypeOK
<1>2. /\ IsRow(TheRow) => queue'[builder.job] = r
      /\ ~IsRow(TheRow) => queue' = queue
      /\ \A i \in Ids : i # builder.job => queue'[i] = queue[i]
      /\ \A i \in Ids : pass.pc # "idle" =>
              (queue'[i] = queue[i] \/ i \in dirty') /\ (i \in dirty => i \in dirty')
  BY <1>1, UpdateIs
<1>3. \A i \in Ids : queue'[i] = queue[i] \/
            (RowKept(i) /\ IsRow(queue[i]) /\ (Launchable(queue'[i]) => Launchable(queue[i])))
  BY <1>2 DEF TheRow
<1> QED BY <1>2, <1>3, BuilderWrites

\* While the row is as the claim left it, any state it waits in keeps what escaped
\* awaited.
LEMMA UntouchedRow ==
  ASSUME WriterInv, Untouched, builder.job \in Ids, Stepped(queue, queue'),
         NEW r, Same(TheRow, r), IsRow(TheRow) => queue'[builder.job] = r,
         Awaited(r) \/ Unrecorded(builder.job) = {}
  PROVE  IsRow(TheRow) => RowKept(builder.job) /\ (Launchable(r) => Launchable(TheRow))
<1>1. QueueGood /\ Lost /\ queue \in [Ids -> MaybeRow]
  BY DEF WriterInv, Core, QueueInv, TypeOK
<1>2. TheRow.state = "BUILDING" /\ ~HasLive(TheRow)
  BY DEF Untouched, TheRow
<1>3. Launchable(TheRow)
  BY <1>2 DEF Launchable
<1>4. SUFFICES ASSUME IsRow(TheRow)
               PROVE  RowKept(builder.job)
  BY <1>3
<1>5. \A i \in Ids : queue[i] # Unminted => queue'[i] # Unminted
  BY MintedStays
<1> QED BY <1>1, <1>2, <1>4, <1>5, SameKept DEF TheRow

\* What find_escaped finds for an untouched row is all that has escaped it.
LEMMA EscapedIs ==
  ASSUME WriterInv, Untouched, builder.job \in Ids
  PROVE  Escaped = Unrecorded(builder.job) /\ Escaped \subseteq Xids
<1>1. \A x \in Xids : xm[x].job = builder.job => xm[x].state # "none"
  BY QueueConstantsOK DEF WriterInv, Core, NotMade
<1> QED BY <1>1 DEF Escaped, Unrecorded, Of, Made, Untouched

\* It finds one experiment at most.
LEMMA OneEscaped ==
  ASSUME WriterInv, Untouched, builder.job \in Ids, builder.claimed \in Row
  PROVE  ~(Cardinality(Escaped) > 1)
<1>1. IsRow(queue[builder.job])
  BY RowFacts DEF Untouched, MaybeRow
<1>2. \A x, y \in Escaped : x = y
  BY <1>1, EscapedIs DEF WriterInv, Core, Lost
<1>3. CASE Escaped = {}
  BY <1>3, FS_EmptySet
<1>4. CASE Escaped # {}
  <2>1. PICK x : x \in Escaped
    BY <1>4
  <2>2. Escaped = {x}
    BY <1>2, <2>1
  <2>3. Cardinality({x}) = 1
    BY FS_Singleton
  <2> QED BY <2>2, <2>3
<1> QED BY <1>3, <1>4

\* A builder back at the dispatch knows nothing, and needs to know nothing.
LEMMA AtDispatchKnows ==
  ASSUME builder' = AtDispatch
  PROVE  BuilderKnows' /\ BuilderCools
<1>1. builder'.pc = "dispatch" /\ builder'.xid = NoXid
  BY DEF AtDispatch
<1> QED BY <1>1 DEF BuilderKnows, BuilderCools

\* The row takes up the experiment x of its own, and then none of its own escapes it.
LEMMA GrownRow ==
  ASSUME WriterInv, NEW j \in Ids, IsRow(queue[j]), NEW x \in Of(j), Grown(queue[j], queue'[j], x),
         queue'[j].state \in Reconcilable, Stepped(queue, queue'),
         Unrecorded(j) \subseteq {x}, HasLive(queue[j]) => XidOf(queue[j]) = x
  PROVE  RowKept(j)
<1>1. QueueGood /\ queue \in [Ids -> MaybeRow]
  BY DEF WriterInv, Core, QueueInv, TypeOK
<1>2. GoodRow(j, queue[j]) /\ queue[queue[j].run] # Unminted /\ queue[j] \in Row
  BY <1>1, RowFacts DEF QueueGood
<1>3. /\ queue'[j] \in Row /\ queue'[j].run = queue[j].run
      /\ AllXids(queue'[j]) = AllXids(queue[j]) \cup {x} /\ XidOf(queue'[j]) = x
      /\ HasLive(queue'[j])
  BY DEF Grown
<1>4. GoodRow(j, queue'[j])
  <2>1. AllXids(queue'[j]) \subseteq Made /\ xm[x].job = j
    BY <1>2, <1>3 DEF GoodRow, Of
  <2>2. \A y \in AllXids(queue'[j]) : Hot(y) => y = x
    BY <1>2, <1>3 DEF GoodRow
  <2> QED BY <1>3, <2>1, <2>2 DEF GoodRow
<1>5. Of(j) \subseteq AllXids(queue'[j])
  BY <1>3 DEF Unrecorded
<1>6. queue'[queue'[j].run] # Unminted
  BY <1>2, <1>3, MintedStays, RunIsId
<1> QED BY <1>3, <1>4, <1>5, <1>6 DEF RowKept

\* Planning keeps the invariant, whether it holds the row, requeues it, or adopts what
\* escaped.
LEMMA PlanInv ==
  ASSUME Safe, WriterInv, QueueInv', Stepped(queue, queue'),
         PlanHold \/ PlanRequeue \/ PlanAdopt
  PROVE  WriterInv'
<1>1. QueueInv /\ BuilderKnows /\ builder.pc = "plan"
  BY DEF WriterInv, Core, PlanHold, PlanRequeue, PlanAdopt
<1>2. builder.job \in Ids /\ builder.claimed \in Row /\ Untouched
  BY <1>1, BuilderPlace DEF BuilderKnows
<1>3. IsRow(TheRow) /\ TheRow \in Row /\ TheRow = builder.claimed
  BY <1>2, RowFacts DEF Untouched, TheRow, MaybeRow
<1>4. UNCHANGED <<pass, xm, orphans>> /\ builder' = AtDispatch
  BY DEF PlanHold, PlanRequeue, PlanAdopt, world
<1>5. BuilderKnows' /\ BuilderCools
  BY <1>4, AtDispatchKnows
<1>6. queue \in [Ids -> MaybeRow] /\ dirty \in SUBSET Ids
  BY <1>1 DEF QueueInv, TypeOK
<1>7. CASE PlanHold
  BY <1>2, <1>7, OneEscaped DEF PlanHold, Safe
<1>8. CASE PlanRequeue
  <2> DEFINE r == Requeue(TheRow)
  <2>1. Same(TheRow, r) /\ r.state = "QUEUED" /\ r.attempts = TheRow.attempts
    BY <1>3, QueueOps
  <2>2. Update(r)
    BY <1>8 DEF PlanRequeue
  <2> HIDE DEF r
  <2>3. queue'[builder.job] = r
    BY <1>2, <1>3, <1>6, <2>2, UpdateIs
  <2>4. Awaited(r) \/ Unrecorded(builder.job) = {}
    BY <1>1, <1>2, <1>3, <2>1 DEF BuilderKnows, Untouched, Awaited, Same, Waiting
  <2>5. RowKept(builder.job) /\ (Launchable(r) => Launchable(TheRow))
    BY <1>2, <1>3, <2>1, <2>3, <2>4, UntouchedRow
  <2> QED BY <1>2, <1>4, <1>5, <2>2, <2>5, UpdateInv
<1>9. CASE PlanAdopt
  <2> DEFINE x == CHOOSE y \in Escaped : TRUE
             r == AdoptRecovered(TheRow, x)
  <2>1. Cardinality(Escaped) = 1 /\ Update(r)
    BY <1>9 DEF PlanAdopt
  <2>2. x \in Escaped
    BY <2>1, FS_EmptySet
  <2>3. Escaped = Unrecorded(builder.job) /\ Escaped \subseteq Xids
    BY <1>2, EscapedIs
  <2> HIDE DEF x
  <2>4. Grown(TheRow, r, x) /\ r.state = "SUBMITTED"
    BY <1>3, <2>2, <2>3, BindIs
  <2> HIDE DEF r
  <2>5. queue'[builder.job] = r
    BY <1>2, <1>3, <1>6, <2>1, UpdateIs
  <2>6. x \in Of(builder.job) /\ Unrecorded(builder.job) \subseteq {x}
    BY <1>2, <1>3, <2>2, <2>3 DEF WriterInv, Core, Lost, Unrecorded, TheRow
  <2>7. ~HasLive(TheRow)
    BY <1>2, <1>3 DEF Untouched
  <2>8. RowKept(builder.job)
    BY <1>2, <1>3, <2>4, <2>5, <2>6, <2>7, GrownRow DEF TheRow, Reconcilable
  <2>9. ~Launchable(r)
    BY <2>4 DEF Launchable, Waiting
  <2> QED BY <1>2, <1>4, <1>5, <2>1, <2>8, <2>9, UpdateInv
<1> QED BY <1>7, <1>8, <1>9

\* So does going on to build, when nothing escaped, and a build that ends before an
\* experiment is made.
LEMMA BuildInv ==
  ASSUME WriterInv, QueueInv', PlanBuild \/ \E end \in BuildEnds : EndEarly(end)
  PROVE  WriterInv'
<1>1. QueueInv /\ BuilderKnows /\ builder \in BuilderState
  BY DEF WriterInv, Core, QueueInv, TypeOK
<1>2. UNCHANGED <<queue, dirty, pass, xm, orphans>>
  BY DEF PlanBuild, EndEarly, world
<1>3. Made' = Made /\ (\A j : Of(j)' = Of(j)) /\ \A j : Unrecorded(j)' = Unrecorded(j)
  BY <1>2 DEF Made, Of, Unrecorded
<1>4. /\ builder.pc \in {"plan", "build"} /\ builder.xid = NoXid /\ Untouched
      /\ builder.job \in Ids /\ builder.claimed \in Row
  BY <1>1, BuilderPlace DEF BuilderKnows, PlanBuild, EndEarly
<1>5. Unrecorded(builder.job) = {}
  <2>1. CASE \E end \in BuildEnds : EndEarly(end)
    BY <1>1, <2>1 DEF BuilderKnows, EndEarly
  <2>2. CASE PlanBuild
    <3>1. builder.pc = "plan" /\ (MustProbe => Escaped = {})
      BY <2>2 DEF PlanBuild
    <3>2. Unrecorded(builder.job) # {} => MustProbe
      BY <1>1, <1>4, <3>1 DEF BuilderKnows, MustProbe, Untouched
    <3> QED BY <1>4, <3>1, <3>2, EscapedIs
  <2> QED BY <2>1, <2>2
<1>6. /\ builder'.pc \in {"build", "record"} /\ builder'.xid = NoXid /\ builder'.job = builder.job
      /\ builder'.claimed = builder.claimed
      /\ builder'.pc = "record" => builder'.end # "launched"
  BY <1>1, <1>4 DEF PlanBuild, BuilderAt, EndEarly, BuilderState
<1>7. Untouched'
  BY <1>2, <1>4, <1>6 DEF Untouched
<1>8. Unrecorded(builder.job)' = {}
  BY <1>2, <1>3, <1>5, <1>6
<1>9. BuilderKnows'
  BY <1>6, <1>7, <1>8 DEF BuilderKnows
<1>10. BuilderCools
  BY <1>6 DEF BuilderCools
<1> QED BY <1>2, <1>9, <1>10, BuilderWrites

\* So does the early binding.
LEMMA BindInv ==
  ASSUME WriterInv, QueueInv', Stepped(queue, queue'), Bind
  PROVE  WriterInv'
<1>1. QueueInv /\ BuilderKnows /\ Experiments /\ QueueGood /\ Lost /\ builder \in BuilderState
  BY DEF WriterInv, Core, QueueInv, TypeOK
<1>2. builder.pc = "created" /\ UNCHANGED <<pass, xm, orphans>>
  BY DEF Bind, world
<1> DEFINE j == builder.job
           x == builder.xid
<1>3. /\ j \in Ids /\ builder.claimed \in Row /\ Untouched /\ x \in Xids /\ x # NoXid
      /\ x \in Of(j) /\ xm[x].state = "empty"
      /\ IsRow(queue[j]) => Unrecorded(j) \subseteq {x}
  BY <1>1, <1>2, BuilderPlace DEF BuilderKnows
<1>4. IsRow(TheRow) /\ TheRow \in Row /\ TheRow = queue[j] /\ ~HasLive(TheRow)
      /\ TheRow.state = "BUILDING"
  BY <1>3, RowFacts DEF Untouched, TheRow, MaybeRow
<1>5. queue \in [Ids -> MaybeRow] /\ dirty \in SUBSET Ids
  BY <1>1 DEF QueueInv, TypeOK
<1>6. /\ builder'.pc = "bound" /\ builder'.xid = x /\ builder'.job = j
  BY <1>1 DEF Bind, BuilderAt, BuilderState
<1>7. BuilderCools
  BY <1>2, <1>6 DEF BuilderCools
<1>8. \A i : Of(i)' = Of(i)
  BY <1>2 DEF Of, Made
<1>9. Unrecorded(j)' = {y \in Of(j) : y \notin AllXids(queue'[j])}
  BY <1>6, <1>8 DEF Unrecorded
<1>10. Of(builder.job)' = Of(j) /\ Unrecorded(builder.job)' = Unrecorded(j)'
  BY <1>6, <1>8 DEF Unrecorded
<1> HIDE DEF j, x
<1>11. ASSUME HasLive(queue'[j]) => XidOf(queue'[j]) = x,
              Unrecorded(j)' \subseteq {x}
       PROVE  BuilderKnows'
  <2>1. /\ builder'.xid \in Of(builder.job)'
        /\ IsRow(queue'[builder'.job]) /\ HasLive(queue'[builder'.job]) =>
            XidOf(queue'[builder'.job]) = builder'.xid
        /\ IsRow(queue'[builder'.job]) => Unrecorded(builder.job)' \subseteq {builder'.xid}
        /\ xm'[builder'.xid].state = "empty"
    BY <1>2, <1>3, <1>6, <1>10, <1>11
  <2> QED BY <1>3, <1>6, <2>1 DEF BuilderKnows
<1>12. CASE UNCHANGED <<queue, dirty>>
  <2>1. Unrecorded(j)' \subseteq {x}
    BY <1>3, <1>4, <1>9, <1>12 DEF Unrecorded
  <2>2. ~HasLive(queue'[j])
    BY <1>4, <1>12
  <2>3. BuilderKnows'
    BY <1>11, <2>1, <2>2
  <2> QED BY <1>2, <1>7, <1>12, <2>3, BuilderWrites
<1>13. CASE Update(OpenCreating(TheRow, builder.xid))
  <2> DEFINE r == OpenCreating(TheRow, x)
  <2>1. Update(r)
    BY <1>13 DEF x
  <2>2. Grown(TheRow, r, x) /\ r.state = "BUILDING"
    BY <1>3, <1>4, BindIs
  <2> HIDE DEF r
  <2>3. queue'[j] = r
    BY <1>3, <1>4, <1>5, <2>1, UpdateIs DEF j
  <2>4. RowKept(j)
    BY <1>3, <1>4, <2>2, <2>3, GrownRow DEF Reconcilable
  <2>5. ~Launchable(r)
    BY <2>2 DEF Launchable, Waiting, Grown
  <2>6. Unrecorded(j)' \subseteq {x}
    BY <1>3, <1>4, <1>9, <2>2, <2>3 DEF Unrecorded, Grown
  <2>7. BuilderKnows'
    BY <1>11, <2>2, <2>3, <2>6 DEF Grown
  <2> QED BY <1>2, <1>3, <1>7, <2>1, <2>4, <2>5, <2>7, UpdateInv DEF j
<1> QED BY <1>12, <1>13 DEF Bind

\* So does the end of a launch.
LEMMA EndInv ==
  ASSUME Safe, WriterInv, QueueInv', NEW end \in BuildEnds, End(end)
  PROVE  WriterInv'
<1>1. QueueInv /\ BuilderKnows /\ builder \in BuilderState /\ xm \in [Xids -> Experiment]
  BY DEF WriterInv, Core, QueueInv, TypeOK
<1>2. builder.pc = "bound" /\ UNCHANGED <<queue, dirty, pass, orphans>>
  BY DEF End
<1> DEFINE j == builder.job
           x == builder.xid
<1>3. /\ x \in Xids /\ x # NoXid /\ x \in Of(j) /\ xm[x].state = "empty"
      /\ IsRow(queue[j]) /\ HasLive(queue[j]) => XidOf(queue[j]) = x
      /\ IsRow(queue[j]) => Unrecorded(j) \subseteq {x}
  BY <1>1, <1>2, BuilderPlace DEF BuilderKnows
<1>4. end \in {"launched", "timeout"}
  BY DEF End, Safe
<1>5. /\ builder'.pc = "record" /\ builder'.xid = x /\ builder'.job = j /\ builder'.end = end
  BY <1>1 DEF End, BuilderState
<1>6. BuilderCools
  BY <1>5 DEF BuilderCools
<1>7. XmMoves
  <2>1. xm' = xm \/ xm' = [xm EXCEPT ![x].state = "pending"]
    BY <1>4 DEF End
  <2>2. CASE xm' = [xm EXCEPT ![x].state = "pending"]
    <3>1. \A y \in Xids : y # x => xm'[y] = xm[y]
      BY <1>1, <1>3, <2>2
    <3>2. xm[x] \in Experiment
      BY <1>1, <1>3
    <3>3. xm'[x].state = "pending" /\ xm'[x].job = xm[x].job /\ xm'[x].run = xm[x].run
      BY <1>1, <1>3, <2>2, <3>2 DEF Experiment
    <3>4. Hot(x)
      BY <1>2, <1>3 DEF Hot
    <3> QED BY <3>1, <3>3, <3>4 DEF XmMoves
  <2> QED BY <2>1, <2>2, IdleWorld
<1>8. \A i : Of(i)' = Of(i)
  BY <1>6, <1>7, CoolsBy, CoolsSame
<1>9. Of(builder.job)' = Of(j) /\ Unrecorded(builder.job)' = Unrecorded(j)
  BY <1>2, <1>5, <1>8 DEF Unrecorded
<1> HIDE DEF j, x
<1>10. BuilderKnows'
  <2>1. /\ builder'.xid \in Of(builder.job)'
        /\ IsRow(queue'[builder'.job]) /\ HasLive(queue'[builder'.job]) =>
            XidOf(queue'[builder'.job]) = builder'.xid
        /\ IsRow(queue'[builder'.job]) => Unrecorded(builder.job)' \subseteq {builder'.xid}
    BY <1>2, <1>3, <1>5, <1>9
  <2> QED BY <1>3, <1>4, <1>5, <2>1 DEF BuilderKnows
<1>11. \A i \in Ids : RowKept(i)
  BY <1>2 DEF RowKept
<1> QED BY <1>2, <1>6, <1>7, <1>10, <1>11, WriteInv

\* So does a crash of the builder, whose experiment, if it was bound to no row, is still
\* awaited.
LEMMA CrashInv ==
  ASSUME Safe, WriterInv, QueueInv', BuilderCrash
  PROVE  WriterInv'
<1>1. UNCHANGED <<queue, dirty, pass, xm, orphans>> /\ builder' = AtDispatch
  BY DEF BuilderCrash, Safe, world
<1>2. BuilderKnows' /\ BuilderCools
  BY <1>1, AtDispatchKnows
<1> QED BY <1>1, <1>2, BuilderWrites

\* So does the record of a build.
LEMMA RecordInv ==
  ASSUME WriterInv, QueueInv', Stepped(queue, queue'), Record
  PROVE  WriterInv'
<1>1. QueueInv /\ BuilderKnows /\ builder \in BuilderState
  BY DEF WriterInv, Core, QueueInv, TypeOK
<1>2. /\ builder.pc = "record" /\ Update(Result(TheRow)) /\ builder' = AtDispatch
      /\ UNCHANGED <<pass, xm, orphans>>
  BY DEF Record, world
<1>3. BuilderKnows' /\ BuilderCools
  BY <1>2, AtDispatchKnows
<1>4. builder.job \in Ids /\ builder.claimed \in Row
  BY <1>1, <1>2, BuilderPlace
<1>5. queue \in [Ids -> MaybeRow] /\ dirty \in SUBSET Ids
  BY <1>1 DEF QueueInv, TypeOK
<1> DEFINE j == builder.job
           x == builder.xid
           r == Result(TheRow)
<1>6. CASE builder.xid = NoXid
  <2>1. Untouched /\ Unrecorded(j) = {} /\ builder.end # "launched"
    BY <1>1, <1>2, <1>6 DEF BuilderKnows
  <2>2. IsRow(TheRow) /\ TheRow \in Row
    BY <1>4, <2>1, RowFacts DEF Untouched, TheRow, MaybeRow
  <2>3. Same(TheRow, r)
    <3>1. CASE builder.end = "deferred"
      <4>1. r = [TheRow EXCEPT !.state = "BUDGET_DEFERRED"]
        BY <1>6, <3>1 DEF Result
      <4> HIDE DEF r
      <4> QED BY <2>2, <4>1, StateNames, SetStateIs, Zenon
    <3>2. CASE builder.end = "stage"
      BY <1>6, <2>2, <3>2, QueueOps DEF Result
    <3>3. CASE builder.end \notin {"deferred", "stage"}
      BY <1>4, <1>6, <2>2, <3>3, FailedIs DEF Result
    <3> QED BY <3>1, <3>2, <3>3
  <2> HIDE DEF r
  <2>4. queue'[builder.job] = r
    BY <1>2, <1>4, <1>5, <2>2, UpdateIs DEF r
  <2>5. RowKept(builder.job) /\ (Launchable(r) => Launchable(TheRow))
    BY <1>4, <2>1, <2>2, <2>3, <2>4, UntouchedRow
  <2> QED BY <1>2, <1>3, <1>4, <2>5, UpdateInv DEF r
<1>7. CASE builder.xid # NoXid
  <2>1. /\ x \in Xids /\ x \in Of(j) /\ builder.end \in {"launched", "timeout"}
        /\ IsRow(queue[j]) /\ HasLive(queue[j]) => XidOf(queue[j]) = x
        /\ IsRow(queue[j]) => Unrecorded(j) \subseteq {x}
    BY <1>1, <1>2, <1>7, BuilderPlace DEF BuilderKnows
  <2>2. r = ApplyPlacement(TheRow, x)
    BY <1>7, <2>1 DEF Result
  <2> HIDE DEF r
  <2>3. CASE IsRow(TheRow)
    <3>1. TheRow \in Row /\ TheRow = queue[j]
      BY <1>4, <1>5, <2>3, RowFacts DEF TheRow
    <3> HIDE DEF x
    <3>2. Grown(TheRow, r, x) /\ r.state = "SUBMITTED"
      BY <2>1, <2>2, <3>1, BindIs
    <3>3. queue'[j] = r
      BY <1>2, <1>4, <1>5, <2>3, UpdateIs DEF r
    <3>4. j \in Ids /\ IsRow(queue[j])
      BY <1>4, <2>3, <3>1
    <3> HIDE DEF j
    <3>5. RowKept(j)
      BY <2>1, <3>1, <3>2, <3>3, <3>4, GrownRow DEF Reconcilable
    <3>6. ~Launchable(r)
      BY <3>2 DEF Launchable, Waiting
    <3> QED BY <1>2, <1>3, <1>4, <3>5, <3>6, UpdateInv DEF r, j
  <2>4. CASE ~IsRow(TheRow)
    BY <1>2, <1>3, <1>4, <2>4, UpdateInv
  <2> QED BY <2>3, <2>4
<1> QED BY <1>6, <1>7

\* So does the making of an experiment: its run had no other row active, for its own
\* was.
LEMMA CreateInv ==
  ASSUME WriterInv, QueueInv', Create
  PROVE  WriterInv'
<1>1. /\ QueueInv /\ NotMade /\ Experiments /\ QueueGood /\ Lost /\ BuilderKnows
      /\ Tells(pass) /\ orphans = {}
  BY DEF WriterInv, Core
<1>2. /\ builder \in BuilderState /\ xm \in [Xids -> Experiment] /\ TypeOK
      /\ queue \in [Ids -> MaybeRow] /\ Holds(pass, queue, dirty)
  BY <1>1 DEF QueueInv, TypeOK
<1>3. builder.pc = "build" /\ XidsLeft /\ UNCHANGED <<queue, dirty, pass, orphans>>
  BY DEF Create
<1> DEFINE j == builder.job
           n == NextXid
<1>4. n \in Xids /\ xm[n].state = "none"
  BY <1>2, <1>3, NextXidIs
<1>5. xm' = [xm EXCEPT ![n] = [state |-> "empty", job |-> j, run |-> builder.claimed.run]]
  BY DEF Create, Created
<1>6. /\ xm'[n].state = "empty" /\ xm'[n].job = j /\ xm'[n].run = builder.claimed.run
      /\ \A x \in Xids : x # n => xm'[x] = xm[x]
  BY <1>2, <1>4, <1>5
<1>7. builder'.pc = "created" /\ builder'.xid = n /\ builder'.job = j
      /\ builder'.claimed = builder.claimed
  BY <1>2 DEF Create, BuilderState
<1>8. j \in Ids /\ builder.claimed \in Row /\ Untouched /\ Unrecorded(j) = {}
  BY <1>1, <1>3, BuilderPlace DEF BuilderKnows
<1> HIDE DEF n
<1>9. /\ IsRow(queue[j]) /\ queue[j] \in Row /\ queue[j] = builder.claimed
      /\ queue[j].state = "BUILDING" /\ ~HasLive(queue[j])
  BY <1>8, RowFacts DEF Untouched, MaybeRow
<1>10. n # NoXid
  BY <1>4, RowConstantsOK DEF NoXid, Xids
<1>11. \A x \in Xids : x # n /\ Hot(x)' => Hot(x)
  <2>1. SUFFICES ASSUME NEW x \in Xids, x # n, Hot(x)'
                 PROVE  Hot(x)
    OBVIOUS
  <2>2. xm'[x] = xm[x] /\ builder'.xid # x
    BY <1>6, <1>7, <2>1
  <2> QED BY <2>1, <2>2 DEF Hot
<1>12. XmKeeps
  BY <1>4, <1>6, <1>11 DEF XmKeeps, Hot, Alive
<1>13. Made' = Made \cup {n} /\ n \notin Made
  BY <1>4, <1>6 DEF Made
<1>14. /\ \A i : i # j => Of(i)' = Of(i)
       /\ {x \in Made' : xm'[x].job = j} = Of(j) \cup {n}
  BY <1>6, <1>13 DEF Of, Made
<1>15. NotMade'
  BY <1>1, <1>6 DEF NotMade
<1>16. Experiments'
  <2>1. SUFFICES ASSUME NEW x \in Made'
                 PROVE  /\ xm'[x].job \in Ids /\ queue[xm'[x].job] # Unminted
                        /\ IsRow(queue[xm'[x].job]) => queue[xm'[x].job].run = xm'[x].run
                        /\ Hot(x)' => IsRow(queue[xm'[x].job])
    BY <1>3 DEF Experiments, IsRow
  <2>2. CASE x = n
    BY <1>6, <1>8, <1>9, <2>2, RowFacts
  <2>3. CASE x # n
    <3>1. x \in Made /\ x \in Xids /\ xm'[x] = xm[x]
      BY <1>6, <1>13, <2>1, <2>3 DEF Made
    <3> QED BY <1>1, <1>11, <2>3, <3>1 DEF Experiments
  <2> QED BY <2>2, <2>3
<1>17. QueueGood'
  <2>1. SUFFICES ASSUME NEW i \in Ids, IsRow(queue[i])
                 PROVE  GoodRow(i, queue[i])' /\ queue[queue[i].run] # Unminted
    BY <1>3 DEF QueueGood, IsRow
  <2>2. PICK row : row = queue[i]
    OBVIOUS
  <2>3. row \in Row /\ GoodRow(i, row) /\ queue[row.run] # Unminted
    BY <1>1, <1>2, <2>1, <2>2, RowFacts DEF QueueGood
  <2>4. GoodRow(i, row)'
    BY <1>12, <2>3, GoodStays
  <2>5. queue'[i] = row
    BY <1>3, <2>2
  <2> QED BY <2>2, <2>3, <2>4, <2>5, GoodNow
<1>18. Lost'
  <2>1. SUFFICES ASSUME NEW i \in Ids, IsRow(queue[i])
                 PROVE  /\ Unrecorded(i)' # {} => Awaited(queue[i])
                        /\ \A x, y \in Unrecorded(i)' : x = y
    BY <1>3 DEF Lost, IsRow
  <2>2. Unrecorded(i)' = {x \in Of(i)' : x \notin AllXids(queue[i])}
    BY <1>3 DEF Unrecorded
  <2>3. CASE i # j
    BY <1>1, <1>14, <2>1, <2>2, <2>3 DEF Lost, Unrecorded
  <2>4. CASE i = j
    <3>1. Of(i)' = Of(j) \cup {n}
      BY <1>14, <2>4 DEF Of
    <3>2. Unrecorded(i)' \subseteq {n}
      BY <1>8, <2>2, <2>4, <3>1 DEF Unrecorded
    <3>3. Awaited(queue[i])
      BY <1>9, <2>4 DEF Awaited
    <3> QED BY <3>2, <3>3
  <2> QED BY <2>3, <2>4
<1>19. BuilderKnows'
  <2>1. Of(builder.job)' = Of(j) \cup {n}
    BY <1>7, <1>14 DEF Of
  <2>2. Unrecorded(builder.job)' \subseteq {n}
    BY <1>3, <1>7, <1>8, <2>1 DEF Unrecorded
  <2>3. Untouched'
    BY <1>3, <1>7, <1>8 DEF Untouched
  <2>4. ~HasLive(queue'[builder'.job])
    BY <1>3, <1>7, <1>9
  <2>5. builder'.xid \in Of(builder.job)' /\ xm'[builder'.xid].state = "empty"
    BY <1>6, <1>7, <2>1
  <2> QED BY <1>7, <2>2, <2>3, <2>4, <2>5 DEF BuilderKnows
<1>20. Tells(pass)'
  <2>1. PICK p : p = pass
    OBVIOUS
  <2>2. Launchable(queue[j])
    BY <1>9 DEF Launchable
  <2>3. \A x \in Xids : xm[x].state = "none" /\ xm'[x].state # "none" =>
       xm'[x].job \in Ids /\ IsRow(queue[xm'[x].job]) /\ Launchable(queue[xm'[x].job])
    BY <1>6, <1>8, <1>9, <2>2
  <2>4. Outside(p)
    BY <1>3, <1>12, <2>3 DEF Outside
  <2>5. Tells(p)'
    BY <1>1, <1>2, <2>1, <2>4, OutsideTells
  <2> QED BY <1>3, <2>1, <2>5, TellsNow
<1> QED BY <1>1, <1>3, <1>15, <1>16, <1>17, <1>18, <1>19, <1>20 DEF WriterInv, Core

-----------------------------------------------------------------------------
(* The reconcile pass.                                                     *)

\* A step of the pass on its own snapshot keeps the invariant, when what it tells stays
\* true.
LEMMA PassInv ==
  ASSUME WriterInv, QueueInv', UNCHANGED <<queue, dirty, builder, xm, orphans>>,
         NEW q, pass' = q, Tells(q)
  PROVE  WriterInv'
<1>1. QueueInv /\ Core /\ Experiments /\ QueueGood /\ Lost /\ BuilderKnows /\ NotMade
      /\ orphans = {}
  BY DEF WriterInv, Core
<1>2. queue \in [Ids -> MaybeRow]
  BY <1>1 DEF QueueInv, TypeOK
<1>3. XmMoves /\ (\A x \in Xids : xm[x].state = "empty" => xm'[x].state = "empty")
  BY IdleWorld
<1>4. BuilderCools
  BY DEF BuilderCools
<1>5. \A i \in Ids : RowKept(i) /\ RowSpared(i)
  BY DEF RowKept, RowSpared
<1>6. Cools
  BY <1>3, <1>4, CoolsBy
<1>7. Experiments' /\ QueueGood' /\ Lost'
  BY <1>1, <1>2, <1>5, <1>6, KeptLaw
<1>8. BuilderKnows'
  BY <1>1, <1>3, <1>5, <1>6, BuilderStays
<1>9. NotMade'
  BY <1>1 DEF NotMade
<1>10. Tells(pass)'
  <2>1. Tells(q)'
    BY TellsSame
  <2> QED BY <2>1, TellsNow
<1> QED BY <1>1, <1>7, <1>8, <1>9, <1>10 DEF WriterInv, Core

\* A snapshot tells all that, when it is taken.
LEMMA BeginTells ==
  ASSUME QueueInv, Core, Sole(pass), pass.pc = "idle", NEW q,
         q.pc = "rows", q.copy = queue, q.fresh = {}, q.touched = {},
         q.todo \in SUBSET Ids, q.kind \in {"reconcile", "reroute"},
         \A j \in q.todo : /\ IsRow(queue[j])
                           /\ q.kind = "reconcile" => Judgeable(queue[j])
                           /\ q.kind = "reroute" => Movable(queue[j])
  PROVE  Tells(q)
<1>1. Experiments /\ QueueGood /\ Lost
  BY DEF Core
<1>2. queue \in [Ids -> MaybeRow] /\ PassFits(pass)
  BY DEF QueueInv, TypeOK, Holds
<1>3. pass.fresh = {} /\ pass.pc \notin Moving /\ q.pc \notin Moving /\ q.pc # "idle"
  BY <1>2 DEF PassFits, Moving
<1>4. CopyGood(q)
  BY <1>1 DEF CopyGood, QueueGood
<1>5. Seen(q)
  <2>1. \A j \in Ids : queue[j] = Unminted => ~IsRow(queue[j])
    BY DEF IsRow
  <2> QED BY <2>1 DEF Seen
<1>6. \A j \in q.todo : IsRow(queue[j]) /\ Bound(queue[j]) /\ ~Launchable(queue[j])
                        /\ ~Awaited(queue[j]) /\ queue[j].state \notin Finished
  BY MakesBound, BoundIs
<1>7. InWork(q)
  BY <1>3, <1>6 DEF InWork
<1>8. Judged(q)
  <2>1. SUFFICES ASSUME NEW j \in Ids, IsRow(queue[j]), j \in q.todo \/ queue[j].state \in Finished
                 PROVE  /\ ~Launchable(queue[j])
                        /\ \A x \in Of(j) : Hot(x) => j \in q.todo /\ x = XidOf(queue[j])
    BY DEF Judged
  <2>2. ~Launchable(queue[j]) /\ ~Awaited(queue[j])
    BY <1>6, <2>1, FinishedIs
  <2>3. Of(j) \subseteq AllXids(queue[j])
    BY <1>1, <2>1, <2>2 DEF Lost, Unrecorded
  <2>4. GoodRow(j, queue[j])
    BY <1>1, <2>1 DEF QueueGood
  <2>5. ASSUME NEW x \in Of(j), Hot(x)
        PROVE  j \in q.todo /\ x = XidOf(queue[j])
    <3>1. XidOf(queue[j]) = x /\ queue[j].state \in Reconcilable
      BY <2>3, <2>4, <2>5 DEF GoodRow
    <3> QED BY <2>1, <3>1, FinishedIs
  <2> QED BY <2>2, <2>5
<1>9. Sole(q)
  <2>1. \A i \in Ids : Active(q, i) => Active(pass, i)
    BY <1>3 DEF Active, MovingRow
  <2>2. \A i \in Ids : RunOf(q, i) = RunOf(pass, i)
    BY <1>3 DEF RunOf
  <2> QED BY <2>1, <2>2 DEF Sole
<1> QED BY <1>4, <1>5, <1>7, <1>8, <1>9 DEF Tells

\* The begin of a pass keeps the invariant.
LEMMA BeginInv ==
  ASSUME WriterInv, QueueInv', NEW kind \in {"reconcile", "reroute"}, Begin(kind)
  PROVE  WriterInv'
<1>1. QueueInv /\ Core /\ Sole(pass)
  BY DEF WriterInv, Tells
<1>2. UNCHANGED <<queue, dirty, builder, xm, orphans>> /\ pass.pc = "idle"
  BY DEF Begin, world
<1> DEFINE Wanted(row) == IF kind = "reconcile" THEN Judgeable(row)
                                                ELSE Movable(row) /\ moves < RerouteLimit
           t == {j \in Ids : IsRow(queue[j]) /\ Wanted(queue[j])}
           b == Between(kind)
<1>3. pass' = [b EXCEPT !.pc = "rows", !.copy = queue, !.todo = t]
  BY Zenon DEF Begin
<1>4. /\ t \in SUBSET Ids
      /\ \A j \in t : /\ IsRow(queue[j])
                      /\ kind = "reconcile" => Judgeable(queue[j])
                      /\ kind = "reroute" => Movable(queue[j])
  OBVIOUS
<1>5. b \in PassState /\ b.fresh = {} /\ b.touched = {} /\ b.kind = kind
  <2>1. b \in PassState
    BY BetweenHolds DEF Holds
  <2> QED BY <2>1 DEF Between
<1> HIDE DEF t, b, Wanted
<1>6. PICK q : q = [b EXCEPT !.pc = "rows", !.copy = queue, !.todo = t]
  OBVIOUS
<1>7. /\ q.pc = "rows" /\ q.copy = queue /\ q.todo = t /\ q.fresh = {} /\ q.touched = {}
      /\ q.kind = kind
  BY <1>5, <1>6, Zenon DEF PassState
<1>8. Tells(q)
  BY <1>1, <1>2, <1>4, <1>7, BeginTells
<1> QED BY <1>2, <1>3, <1>6, <1>8, PassInv

\* What a pass does to a row it looks at keeps what it tells.
LEMMA RowEdit ==
  ASSUME WriterInv, NEW j \in pass.todo, pass.pc = "rows",
         NEW r, Softer(pass.copy[j], r), ~Launchable(r),
         HasLive(r) => r.state \in Reconcilable,
         HasLive(pass.copy[j]) /\ ~HasLive(r) => ~Hot(XidOf(pass.copy[j])),
         pass.kind = "reconcile" /\ r.state \in Finished => ~Hot(XidOf(pass.copy[j]))
  PROVE  Tells(Edit(j, r))
<1>1. QueueInv /\ Tells(pass) /\ CopyGood(pass)
  BY DEF WriterInv, Tells
<1>2. queue \in [Ids -> MaybeRow] /\ Holds(pass, queue, dirty) /\ pass \in PassState
  BY <1>1 DEF QueueInv, TypeOK
<1>3. j \in Ids /\ pass.copy[j] \in Row
  BY <1>1, TodoIs
<1>4. r \in Row
  BY DEF Softer
<1>5. GoodRow(j, pass.copy[j])
  BY <1>1, <1>3, RowFacts DEF CopyGood, MaybeRow
<1>6. GoodRow(j, r)
  BY <1>5 DEF Softer, GoodRow
<1>7. PICK q : q = Edit(j, r)
  OBVIOUS
<1>8. /\ q.pc = pass.pc /\ q.kind = pass.kind
      /\ q.copy = [pass.copy EXCEPT ![j] = r]
      /\ q.todo = pass.todo \ {j} /\ q.touched = pass.touched \cup {j} /\ q.fresh = pass.fresh
  BY <1>2, <1>3, <1>4, <1>7, EditIs
<1>9. InHand(pass, j)
  BY DEF InHand
<1>10. Tells(q)
  BY <1>1, <1>2, <1>3, <1>6, <1>8, <1>9, EditTells
<1> QED BY <1>7, <1>10

\* So does leaving it as it is.
LEMMA RowSkip ==
  ASSUME WriterInv, NEW j \in pass.todo, pass.pc = "rows"
  PROVE  Tells(Skip(j))
<1>1. QueueInv /\ Tells(pass)
  BY DEF WriterInv
<1>2. queue \in [Ids -> MaybeRow] /\ Holds(pass, queue, dirty) /\ pass \in PassState
  BY <1>1 DEF QueueInv, TypeOK
<1>3. j \in Ids
  BY <1>1, TodoIs
<1>4. PICK q : q = Skip(j)
  OBVIOUS
<1>5. /\ q.pc = pass.pc /\ q.kind = pass.kind /\ q.copy = pass.copy
      /\ q.todo = pass.todo \ {j} /\ q.touched = pass.touched /\ q.fresh = pass.fresh
  BY <1>2, <1>3, <1>4, SkipIs
<1>6. Tells(q)
  BY <1>1, <1>2, <1>5, SkipTells
<1> QED BY <1>4, <1>6

\* So does reading the cancels.
LEMMA ConsultedTells ==
  ASSUME TypeOK, NEW p \in PassState, Tells(p), p.pc = "rows"
  PROVE  Tells(Consulted(p))
<1>1. PICK q : q = Consulted(p)
  OBVIOUS
<1>2. /\ q.pc = p.pc /\ q.kind = p.kind /\ q.copy = p.copy
      /\ q.todo = p.todo /\ q.touched = p.touched /\ q.fresh = p.fresh
      /\ q.row = p.row
  BY <1>1, ConsultedIs
<1>3. Tells(q)
  BY <1>2 DEF Tells, CopyGood, Seen, InWork, Judged, Sole, Active, MovingRow, RunOf
<1> QED BY <1>1, <1>3

\* And both, one after the other.
LEMMA EditConsulted ==
  ASSUME TypeOK, NEW j \in Ids, NEW r \in Row, Tells(Edit(j, r)), pass.pc = "rows"
  PROVE  Tells(Consulted(Edit(j, r)))
<1>1. pass \in PassState
  BY DEF TypeOK
<1>2. Edit(j, r) \in PassState /\ Edit(j, r).pc = "rows"
  BY <1>1, EditIs
<1> QED BY <1>2, ConsultedTells

\* A verdict that ends the row is about an experiment that is not hot.
LEMMA VerdictCold ==
  ASSUME orphans = {}, NEW j, NEW s, Looks(j, s), Verdict(j, s) \in {"DONE", "FAILED"}
  PROVE  ~Hot(XidOf(pass.copy[j]))
<1> DEFINE x == XidOf(pass.copy[j])
<1>1. s \in {"COMPLETED", "TERMINAL", "GONE"}
  BY DEF Verdict, DecideReconcile
<1>2. s = Status(x)
  BY <1>1 DEF Looks, Probed
<1> HIDE DEF x
<1>3. \/ xm[x].state \in {"completed", "stopped"}
      \/ xm[x].state \notin Alive /\ ~BeingBuilt(x)
  BY <1>1, <1>2 DEF Status, Alive
<1>4. ~Hot(x)
  BY <1>3 DEF Hot, Alive, BeingBuilt
<1> QED BY <1>4 DEF x

\* What a dead row is written as is live no more.
LEMMA DeadViews ==
  ASSUME NEW j, pass.copy[j] \in Row
  PROVE  /\ Softer(pass.copy[j], ReadAndDead(j)) /\ ReadAndDead(j).state = "FAILED"
         /\ ~HasLive(ReadAndDead(j))
         /\ Softer(pass.copy[j], UnreadAndDead(j)) /\ UnreadAndDead(j).state = "FAILED"
         /\ ~HasLive(UnreadAndDead(j))
         /\ Softer(pass.copy[j], Hold(UnreadAndDead(j))) /\ Hold(UnreadAndDead(j)).state = "HELD"
         /\ ~HasLive(Hold(UnreadAndDead(j)))
<1> DEFINE b == Become(pass.copy[j], "FAILED")
           u == UnreadAndDead(j)
           z == ReadAndDead(j)
           h == Hold(u)
<1>1. Softer(pass.copy[j], b) /\ b.state = "FAILED" /\ ~HasLive(b)
  BY BecomeIs DEF Verdicts
<1>2. b \in Row
  BY <1>1 DEF Softer
<1>3. z = [b EXCEPT !.unread = 0] /\ u = Unreadable(b)
  BY DEF ReadAndDead, UnreadAndDead
<1> HIDE DEF b, u, z
<1>4. Same(b, z) /\ z.state = b.state /\ Same(b, u) /\ u.state = b.state
  BY <1>2, <1>3, CountsAre
<1>5. u \in Row
  BY <1>4 DEF Same
<1>6. Same(u, h) /\ h.state = "HELD"
  BY <1>5, QueueOps
<1> HIDE DEF h
<1>7. Softer(b, z) /\ Softer(b, u) /\ Softer(u, h)
  BY <1>4, <1>6, SameSofter
<1>8. Softer(pass.copy[j], z) /\ Softer(pass.copy[j], u)
  BY <1>1, <1>7, SofterChain
<1>9. Softer(pass.copy[j], h)
  BY <1>7, <1>8, SofterChain
<1>10. ~HasLive(z) /\ ~HasLive(u) /\ ~HasLive(h)
  BY <1>1, <1>4, <1>6 DEF Same
<1> QED BY <1>1, <1>4, <1>6, <1>8, <1>9, <1>10 DEF u, z, h

\* The reconcile keeps the invariant when it settles, postpones, buries or parks a row.
LEMMA ReconcileInv ==
  ASSUME Safe, WriterInv, QueueInv', NEW j \in Ids, NEW s,
         \/ Settle(j, s) \/ SettleCancelled(j, s) \/ Postpone(j, s)
         \/ Bury(j, s) \/ Park(j, s)
  PROVE  WriterInv'
<1>1. UNCHANGED <<queue, dirty, builder, xm, orphans>>
  BY DEF Settle, SettleCancelled, Postpone, Bury, Park, world
<1>2. TypeOK /\ QueueInv /\ Looks(j, s) /\ orphans = {} /\ Tells(pass)
  BY DEF WriterInv, QueueInv, Settle, SettleCancelled, Postpone, Bury, Park, Dies
<1>3. /\ pass.pc = "rows" /\ pass.kind = "reconcile" /\ j \in pass.todo
      /\ pass.copy[j] \in Row
  BY <1>2, LooksIs
<1> DEFINE row == pass.copy[j]
           cold == ~Hot(XidOf(row))
<1>4. /\ GoodRow(j, row) /\ Judgeable(row)
  BY <1>2, <1>3, RowFacts DEF Tells, CopyGood, InWork, MaybeRow
<1>5. /\ ~HasLive(row) => cold
      /\ row.state \in Reconcilable /\ ~Launchable(row)
  <2>1. Bound(row) /\ XidOf(row) # NoXid
    BY <1>4, MakesBound
  <2>2. XidOf(row) \in AllXids(row) /\ ~Launchable(row)
    BY <1>3, <2>1, XidsAre, BoundIs
  <2> QED BY <1>4, <2>2 DEF GoodRow, Judgeable
<1>6. Verdict(j, s) \in {"DONE", "FAILED"} => cold
  BY <1>2, VerdictCold
<1> HIDE DEF cold
<1>7. PICK q : q = pass'
  OBVIOUS
<1>8. ASSUME NEW r, Softer(row, r), ~Launchable(r), HasLive(r) => r.state \in Reconcilable,
             (HasLive(row) /\ ~HasLive(r)) => cold, r.state \in Finished => cold
      PROVE  Tells(Edit(j, r)) /\ Tells(Consulted(Edit(j, r)))
  <2>1. Tells(Edit(j, r))
    BY <1>3, <1>8, RowEdit DEF cold
  <2>2. r \in Row
    BY <1>8 DEF Softer
  <2> QED BY <1>2, <1>3, <2>1, <2>2, EditConsulted
<1>9. Tells(q)
  <2>1. CASE Settle(j, s) /\ Verdict(j, s) = "leave"
    BY <1>3, <1>7, <2>1, RowSkip DEF Settle
  <2>2. CASE Settle(j, s) /\ Verdict(j, s) # "leave"
    <3> DEFINE v == Verdict(j, s)
               r == Become(row, v)
    <3>1. v \in {"DONE", "RUNNING"}
      BY <2>2, VerdictIs DEF Settle, Verdict, Verdicts
    <3>2. v \in Verdicts
      BY <3>1 DEF Verdicts
    <3>3. q = Edit(j, r)
      BY <1>7, <2>2 DEF Settle
    <3> HIDE DEF v
    <3>4. /\ Softer(row, r) /\ r.state = v
          /\ v = "RUNNING" => Same(row, r)
          /\ v # "RUNNING" => ~HasLive(r)
      BY <1>3, <3>2, BecomeIs
    <3> HIDE DEF r
    <3>5. v = "DONE" => cold
      BY <1>6 DEF v
    <3>6. /\ ~Launchable(r)
          /\ HasLive(r) => r.state \in Reconcilable
          /\ (HasLive(row) /\ ~HasLive(r)) => cold
          /\ r.state \in Finished => cold
      BY <3>1, <3>4, <3>5 DEF Launchable, Waiting, Reconcilable, Same, Finished
    <3> QED BY <1>8, <3>3, <3>4, <3>6
  <2>3. CASE SettleCancelled(j, s)
    <3> DEFINE r == MarkCancelled(row)
    <3>1. Softer(row, r) /\ r.state = "FAILED" /\ ~HasLive(r)
      BY <1>3, CancelledIs
    <3>2. cold /\ q = Consulted(Edit(j, r))
      BY <1>6, <1>7, <2>3 DEF SettleCancelled
    <3> HIDE DEF r
    <3>3. ~Launchable(r)
      BY <3>1 DEF Launchable, Waiting
    <3> QED BY <1>8, <3>1, <3>2, <3>3
  <2>4. CASE Postpone(j, s)
    <3> DEFINE r == Unreadable(row)
    <3>1. Same(row, r) /\ r.state = row.state
      BY <1>3, CountsAre
    <3>2. cold /\ q = Consulted(Edit(j, r))
      BY <1>6, <1>7, <2>4 DEF Postpone, Dies
    <3> HIDE DEF r
    <3>3. Softer(row, r)
      BY <3>1, SameSofter
    <3>4. ~Launchable(r) /\ r.state \in Reconcilable
      BY <1>5, <3>1 DEF Launchable, Same
    <3> QED BY <1>8, <3>2, <3>3, <3>4
  <2>5. CASE Bury(j, s)
    <3> DEFINE r == ReadAndDead(j)
    <3>1. Softer(row, r) /\ r.state = "FAILED" /\ ~HasLive(r)
      BY <1>3, DeadViews
    <3>2. cold /\ q = Consulted(Edit(j, r))
      BY <1>6, <1>7, <2>5 DEF Bury, Dies
    <3> HIDE DEF r
    <3>3. ~Launchable(r)
      BY <3>1 DEF Launchable, Waiting
    <3> QED BY <1>8, <3>1, <3>2, <3>3
  <2>6. CASE Park(j, s)
    <3> DEFINE r == Hold(UnreadAndDead(j))
    <3>1. Softer(row, r) /\ r.state = "HELD" /\ ~HasLive(r)
      BY <1>3, DeadViews
    <3>2. cold /\ q = Consulted(Edit(j, r))
      BY <1>6, <1>7, <2>6 DEF Park, Dies
    <3> HIDE DEF r
    <3>3. "requeue" \notin Users
      BY <2>6 DEF Park, LastRead, Safe
    <3>4. ~Launchable(r)
      BY <3>1, <3>3 DEF Launchable, Waiting
    <3>5. r.state \notin Finished
      BY <3>1 DEF Finished
    <3> QED BY <1>8, <3>1, <3>2, <3>4, <3>5
  <2> QED BY <2>1, <2>2, <2>3, <2>4, <2>5, <2>6
<1> QED BY <1>1, <1>7, <1>9, PassInv

\* A row that may be restarted is the only one of its run that may bring an experiment
\* forth.
LEMMA NoRival ==
  ASSUME WriterInv, NEW j \in pass.todo, pass.pc = "rows", pass.kind = "reconcile",
         ~HasSibling(j), ~Hot(XidOf(pass.copy[j]))
  PROVE  \A i \in Ids : Active(pass, i) => RunOf(pass, i) # pass.copy[j].run
<1>1. QueueInv /\ Tells(pass)
  BY DEF WriterInv
<1>2. j \in Ids /\ pass.copy[j] \in Row /\ IsRow(pass.copy[j])
  BY <1>1, TodoIs, RowFacts DEF MaybeRow
<1>3. CopyFits(pass, queue, dirty) /\ pass.copy \in [Ids -> MaybeRow] /\ PassFits(pass)
  BY <1>1, Zenon DEF QueueInv, Holds, PassState
<1>4. /\ \A i \in Ids : IsRow(pass.copy[i]) => pass.copy[i] \in Row
      /\ \A i \in Ids : /\ IsRow(pass.copy[i]) /\ pass.copy[i].state \notin Finished /\ i # j
                        => pass.copy[i].run # pass.copy[j].run
  <2>1. \A i \in Ids : IsRow(pass.copy[i]) => pass.copy[i] \in Row
    BY <1>3, RowFacts
  <2>2. \A i \in Ids : IsRow(pass.copy[i]) /\ pass.copy[i].state \notin Finished =>
                         i \in InState(pass.copy, Unfinished)
    BY <2>1 DEF InState, Unfinished, Row
  <2> QED BY <2>1, <2>2 DEF HasSibling
<1>5. SUFFICES ASSUME NEW i \in Ids, Active(pass, i), RunOf(pass, i) = pass.copy[j].run
               PROVE  FALSE
  OBVIOUS
<1>6. CASE i \in pass.fresh
  <2>1. pass.copy[i] \in Row /\ pass.copy[i].state = "QUEUED" /\ i # j
    BY <1>1, <1>3, <1>6, TodoIs DEF CopyFits
  <2>2. IsRow(pass.copy[i]) /\ pass.copy[i].state \notin Finished
    BY <2>1, RowFacts DEF Finished, MaybeRow
  <2> QED BY <1>4, <1>5, <1>6, <2>1, <2>2 DEF RunOf
<1>7. CASE i \notin pass.fresh
  <2>1. /\ IsRow(queue[i]) /\ queue[i].run = pass.copy[j].run
        /\ Launchable(queue[i]) \/ \E x \in Of(i) : Hot(x)
    BY <1>5, <1>7 DEF Active, RunOf, MovingRow, Moving
  <2>2. Seen(pass) /\ Judged(pass) /\ InWork(pass) /\ CopyGood(pass)
    BY <1>1 DEF Tells
  <2>3. /\ pass.copy[i] = Unminted => queue[i].run = i
        /\ pass.copy[i] # Cleared
        /\ IsRow(pass.copy[i]) => queue[i].run = pass.copy[i].run
    BY <2>1, <2>2, RowFacts DEF Seen
  <2>4. IsRow(pass.copy[i]) /\ pass.copy[i].run = pass.copy[j].run
    <3>1. pass.copy[pass.copy[j].run] # Unminted
      BY <1>2, <2>2 DEF CopyGood
    <3> QED BY <2>1, <2>3, <3>1 DEF IsRow
  <2>5. i = j \/ pass.copy[i].state \in Finished
    BY <1>4, <2>4
  <2>6. /\ ~Launchable(queue[i])
        /\ \A x \in Of(i) : Hot(x) => i \in pass.todo /\ x = XidOf(pass.copy[i])
    BY <2>1, <2>2, <2>4, <2>5 DEF Judged
  <2>7. i \in pass.todo => pass.copy[i].state \notin Finished
    BY <2>2, MakesBound DEF InWork
  <2> QED BY <2>1, <2>5, <2>6, <2>7
<1> QED BY <1>6, <1>7

\* So a restart keeps the invariant.
LEMMA RestartInv ==
  ASSUME WriterInv, QueueInv', NEW j \in Ids, NEW s, Restart(j, s)
  PROVE  WriterInv'
<1>1. UNCHANGED <<queue, dirty, builder, xm, orphans>>
  BY DEF Restart, world
<1>2. /\ TypeOK /\ QueueInv /\ Looks(j, s) /\ orphans = {} /\ Tells(pass)
      /\ MayRestart(j) /\ Verdict(j, s) = "FAILED"
  BY DEF WriterInv, QueueInv, Restart, Dies
<1>3. /\ pass.pc = "rows" /\ pass.kind = "reconcile" /\ j \in pass.todo
      /\ pass.copy[j] \in Row /\ IsRow(pass.copy[j])
  BY <1>2, LooksIs, RowFacts DEF MaybeRow
<1>4. PICK k \in Ids, r \in {ReadAndDead(j), UnreadAndDead(j)} :
         /\ Mintable(k)
         /\ pass' = [Consulted(Edit(j, r)) EXCEPT !.copy[k] = Restarted(pass.copy[j]),
                                                 !.fresh = @ \cup {k}]
  BY DEF Restart
<1>5. Softer(pass.copy[j], r) /\ r.state = "FAILED" /\ ~HasLive(r) /\ r \in Row
  BY <1>3, DeadViews DEF Softer
<1>6. ~Hot(XidOf(pass.copy[j])) /\ ~Launchable(r)
  BY <1>2, <1>5, VerdictCold DEF Launchable, Waiting
<1>7. Tells(Consulted(Edit(j, r)))
  <2>1. Tells(Edit(j, r))
    BY <1>3, <1>5, <1>6, RowEdit
  <2> QED BY <1>2, <1>3, <1>5, <2>1, EditConsulted
<1>8. GoodRow(j, pass.copy[j]) /\ pass.copy[pass.copy[j].run] # Unminted
  BY <1>2, <1>3 DEF Tells, CopyGood
<1> DEFINE t == Restarted(pass.copy[j])
           e == Consulted(Edit(j, r))
<1>9. /\ t \in Row /\ t.run = pass.copy[j].run /\ t.state = "QUEUED"
      /\ AllXids(t) = AllXids(pass.copy[j]) /\ XidOf(t) = NoXid /\ ~HasLive(t)
  BY <1>2, <1>3, RestartedView DEF MayRestart
<1> HIDE DEF t
<1>10. GoodRow(k, t)
  BY <1>6, <1>8, <1>9 DEF GoodRow
<1>11. PICK p : p = e
  OBVIOUS
<1>12. /\ p \in PassState /\ p.pc = "rows" /\ p.kind = "reconcile"
       /\ p.copy = [pass.copy EXCEPT ![j] = r]
       /\ p.todo = pass.todo \ {j} /\ p.touched = pass.touched \cup {j} /\ p.fresh = pass.fresh
  <2>1. pass \in PassState
    BY <1>2 DEF TypeOK
  <2> DEFINE d == Edit(j, r)
  <2>2. /\ d \in PassState /\ d.pc = pass.pc /\ d.kind = pass.kind
        /\ d.copy = [pass.copy EXCEPT ![j] = r]
        /\ d.todo = pass.todo \ {j} /\ d.touched = pass.touched \cup {j} /\ d.fresh = pass.fresh
    BY <1>5, <2>1, EditIs
  <2>3. p = Consulted(d)
    BY <1>11
  <2> HIDE DEF d
  <2>4. /\ p \in PassState /\ p.pc = d.pc /\ p.kind = d.kind /\ p.copy = d.copy
        /\ p.todo = d.todo /\ p.touched = d.touched /\ p.fresh = d.fresh
    BY <1>2, <2>2, <2>3, ConsultedIs
  <2> QED BY <1>3, <2>2, <2>4
<1>13. queue[k] = Unminted /\ pass.copy[k] = Unminted /\ k # j
  BY <1>3, <1>4, RowFacts DEF Mintable
<1>14. PICK q : q = [p EXCEPT !.copy[k] = t, !.fresh = @ \cup {k}]
  OBVIOUS
<1>15. pass' = q
  BY <1>4, <1>11, <1>14 DEF t
<1>16. /\ q.pc = p.pc /\ q.kind = p.kind
       /\ q.copy = [p.copy EXCEPT ![k] = t]
       /\ q.todo = p.todo /\ q.touched = p.touched /\ q.fresh = p.fresh \cup {k}
  <2>1. p \in PassState /\ t \in Row
    BY <1>9, <1>12
  <2> DEFINE c == [p.copy EXCEPT ![k] = t]
             f == p.fresh \cup {k}
  <2>2. q = [p EXCEPT !.copy = c, !.fresh = f]
    BY <1>14, Zenon
  <2> HIDE DEF c, f
  <2>3. /\ q.pc = p.pc /\ q.kind = p.kind /\ q.copy = c
        /\ q.todo = p.todo /\ q.touched = p.touched /\ q.fresh = f
    BY <2>1, <2>2, Zenon DEF PassState
  <2> QED BY <2>3 DEF c, f
<1>17. Tells(p) /\ queue \in [Ids -> MaybeRow]
  BY <1>2, <1>7, <1>11 DEF TypeOK
<1>18. /\ pass.copy \in [Ids -> MaybeRow] /\ p.copy \in [Ids -> MaybeRow]
       /\ p.fresh \in SUBSET Ids /\ p.touched \in SUBSET Ids /\ p.todo \in SUBSET Ids
  BY <1>2, <1>12, Zenon DEF TypeOK, PassState
<1>19. PassFits(p)
  <2>1. PassFits(pass) /\ p.pc # "idle" /\ p.pc \notin {"confirm", "cancel", "archive", "persist"}
    BY <1>2, <1>12 DEF QueueInv, Holds
  <2>2. \A i \in p.todo : p.copy[i] \in Row
    BY <1>12, <1>18, <2>1 DEF PassFits
  <2> QED BY <1>12, <2>1, <2>2 DEF PassFits
<1>20. /\ p.copy[k] = Unminted /\ p.copy[t.run] # Unminted
  BY <1>5, <1>8, <1>9, <1>12, <1>13, <1>18, RowFacts, RunIsId
<1>21. \A i \in Ids : Active(p, i) => RunOf(p, i) # t.run
  <2>1. \A i \in Ids : Active(pass, i) => RunOf(pass, i) # pass.copy[j].run
    BY <1>2, <1>3, <1>6, NoRival DEF MayRestart
  <2>2. \A i \in Ids : Active(p, i) => Active(pass, i)
    BY <1>12 DEF Active, MovingRow, Moving
  <2>3. \A i \in Ids : i \in pass.fresh => i # j
    BY <1>2, <1>3, TodoIs
  <2>4. \A i \in Ids : RunOf(p, i) = RunOf(pass, i)
    BY <1>12, <1>18, <2>3 DEF RunOf
  <2> QED BY <1>9, <2>1, <2>2, <2>4
<1>22. Tells(q)
  <2>1. p.pc = "rows" /\ q.pc = "rows" /\ t.state = "QUEUED" /\ t \in Row
    BY <1>9, <1>12, <1>16
  <2>2. queue[k] = Unminted
    BY <1>13
  <2> QED BY <1>10, <1>16, <1>17, <1>18, <1>19, <1>20, <1>21, <2>1, <2>2, FreshTells, Zenon
<1> QED BY <1>1, <1>15, <1>22, PassInv

-----------------------------------------------------------------------------
(* The reroute sweep.                                                      *)

\* The reroute sweep keeps it as it chooses what to move.
LEMMA SweepInv ==
  ASSUME WriterInv, QueueInv', NEW j \in Ids, NEW s,
         \/ Pass(j, s) \/ Flag(j, s) \/ Promote(j, s) \/ Suspect(j, s)
  PROVE  WriterInv'
<1>1. UNCHANGED <<queue, dirty, builder, xm, orphans>> /\ Sweeps(j, s)
  BY DEF Pass, Flag, Promote, Suspect, world
<1>2. QueueInv /\ Tells(pass)
  BY DEF WriterInv
<1>3. /\ pass.pc = "rows" /\ pass.kind = "reroute" /\ j \in pass.todo
      /\ pass.copy[j] \in Row /\ Holds(pass, queue, dirty) /\ pass \in PassState
      /\ queue \in [Ids -> MaybeRow]
  BY <1>1, <1>2, TodoIs DEF Sweeps, QueueInv, TypeOK
<1> DEFINE row == pass.copy[j]
<1>4. Movable(row) /\ InWork(pass)
  BY <1>2, <1>3 DEF Tells, InWork
<1>5. row.state \in {"SUBMITTED", "RUNNING"} /\ XidOf(row) # NoXid
  BY <1>4 DEF Movable
<1>6. PICK q : q = pass'
  OBVIOUS
<1>7. ASSUME NEW r, Same(row, r), r.state \in {"SUBMITTED", "RUNNING"}
      PROVE  Tells(Edit(j, r))
  <2>1. Softer(row, r)
    BY <1>7, SameSofter
  <2>2. ~Launchable(r) /\ r.state \in Reconcilable /\ (HasLive(r) <=> HasLive(row))
    BY <1>7 DEF Launchable, Waiting, Reconcilable, Same
  <2> QED BY <1>3, <2>1, <2>2, RowEdit
<1>8. Tells(q)
  <2>1. Tells(Skip(j))
    BY <1>3, RowSkip
  <2>2. CASE Pass(j, s)
    <3> DEFINE r == [row EXCEPT !.unread = 0]
    <3>1. Same(row, r) /\ r.state = row.state
      BY <1>3, CountsAre
    <3>2. q \in {Skip(j), Edit(j, r)}
      BY <1>6, <2>2 DEF Pass
    <3> HIDE DEF r
    <3> QED BY <1>5, <1>7, <2>1, <3>1, <3>2
  <2>3. CASE Flag(j, s)
    <3> DEFINE r == Unreadable(row)
    <3>1. Same(row, r) /\ r.state = row.state
      BY <1>3, CountsAre
    <3>2. q = Edit(j, r)
      BY <1>6, <2>3 DEF Flag
    <3> HIDE DEF r
    <3> QED BY <1>5, <1>7, <3>1, <3>2
  <2>4. CASE Promote(j, s)
    <3> DEFINE b == Become(row, "RUNNING")
               r == [b EXCEPT !.unread = 0]
    <3>1. Same(row, b) /\ b.state = "RUNNING"
      BY <1>3, BecomeIs DEF Verdicts
    <3>2. b \in Row
      BY <3>1 DEF Same
    <3>3. q = Edit(j, r)
      BY <1>6, <2>4 DEF Promote
    <3> HIDE DEF b
    <3>4. Same(b, r) /\ r.state = b.state
      BY <3>2, CountsAre
    <3> HIDE DEF r
    <3>5. Same(row, r)
      BY <3>1, <3>4, SameChain
    <3> QED BY <1>7, <3>1, <3>3, <3>4, <3>5
  <2>5. CASE Suspect(j, s)
    <3> DEFINE e == Skip(j)
               l == IF s = "PENDING" THEN "confirm" ELSE "cancel"
               x == XidOf(row)
    <3>1. /\ e \in PassState /\ e.kind = pass.kind /\ e.copy = pass.copy
          /\ e.todo = pass.todo \ {j} /\ e.touched = pass.touched /\ e.fresh = pass.fresh
      BY <1>3, SkipIs
    <3>2. q = [e EXCEPT !.pc = l, !.row = j]
      BY <1>6, <2>5 DEF Suspect
    <3>3. l \in {"confirm", "cancel"}
      OBVIOUS
    <3>4. Hot(x) /\ xm[x].state \notin {"none", "empty"}
      <4>1. s \in {"PENDING", "RUNNING"} /\ s = Status(x)
        BY <1>1, <2>5 DEF Suspect, Sweeps, Probed
      <4> HIDE DEF x
      <4>2. xm[x].state \in Alive
        BY <4>1 DEF Status, Alive
      <4> QED BY <4>2 DEF Hot, Alive
    <3> HIDE DEF e, l, x
    <3>5. /\ q.pc = l /\ q.row = j /\ q.kind = e.kind /\ q.copy = e.copy
          /\ q.todo = e.todo /\ q.touched = e.touched /\ q.fresh = e.fresh
      BY <3>1, <3>2, Zenon DEF PassState
    <3> QED BY <1>2, <1>3, <3>1, <3>3, <3>4, <3>5, SkipTells DEF x
  <2> QED BY <2>2, <2>3, <2>4, <2>5
<1> QED BY <1>1, <1>6, <1>8, PassInv

\* What is so of the row being moved.
LEMMA MoveIs ==
  ASSUME WriterInv, pass.pc \in {"confirm", "cancel"}
  PROVE  /\ pass.row \in Ids /\ pass.copy[pass.row] \in Row /\ pass.kind = "reroute"
         /\ Movable(pass.copy[pass.row]) /\ GoodRow(pass.row, pass.copy[pass.row])
         /\ xm[XidOf(pass.copy[pass.row])].state \notin {"none", "empty"}
         /\ XidOf(pass.copy[pass.row]) \in Xids
         /\ pass \in PassState /\ Holds(pass, queue, dirty) /\ queue \in [Ids -> MaybeRow]
         /\ QueueInv /\ Tells(pass) /\ InHand(pass, pass.row)
<1>1. QueueInv /\ Tells(pass) /\ InHand(pass, pass.row)
  BY DEF WriterInv, InHand
<1>2. /\ pass \in PassState /\ Holds(pass, queue, dirty) /\ queue \in [Ids -> MaybeRow]
      /\ PassFits(pass)
  BY <1>1 DEF QueueInv, TypeOK, Holds
<1>3. /\ pass.row \in Ids /\ pass.copy[pass.row] \in Row /\ pass.kind = "reroute"
  BY <1>2 DEF PassFits
<1>4. /\ Movable(pass.copy[pass.row])
      /\ xm[XidOf(pass.copy[pass.row])].state \notin {"none", "empty"}
  BY <1>1 DEF Tells, InWork, Moving
<1>5. XidOf(pass.copy[pass.row]) \in Xids
  BY <1>3, <1>4, MakesBound, XidsAre
<1>6. GoodRow(pass.row, pass.copy[pass.row])
  BY <1>1, <1>3, RowFacts DEF Tells, CopyGood, MaybeRow
<1> QED BY <1>1, <1>2, <1>3, <1>4, <1>5, <1>6

\* Giving up a move keeps what the pass tells.
LEMMA LeaveTells ==
  ASSUME WriterInv, pass.pc \in {"confirm", "cancel"}, NEW r,
         Same(pass.copy[pass.row], r), r.state = pass.copy[pass.row].state,
         NEW q, q = [Edit(pass.row, r) EXCEPT !.pc = "rows", !.row = NoId]
  PROVE  Tells(q)
<1> DEFINE j == pass.row
           row == pass.copy[j]
           e == Edit(j, r)
<1>1. /\ j \in Ids /\ row \in Row /\ pass.kind = "reroute"
      /\ Movable(row) /\ GoodRow(j, row)
      /\ pass \in PassState /\ Holds(pass, queue, dirty) /\ queue \in [Ids -> MaybeRow]
      /\ Tells(pass) /\ InHand(pass, j)
  BY MoveIs
<1>2. r \in Row /\ Softer(row, r)
  BY SameSofter DEF Same
<1>3. GoodRow(j, r) /\ ~Launchable(r)
  <2>1. r.state \in Reconcilable /\ ~Launchable(r)
    BY <1>1 DEF Movable, Reconcilable, Launchable, Waiting
  <2> QED BY <1>1, <2>1, SameGood
<1>4. /\ e \in PassState /\ e.kind = pass.kind
      /\ e.copy = [pass.copy EXCEPT ![j] = r]
      /\ e.todo = pass.todo \ {j} /\ e.touched = pass.touched \cup {j} /\ e.fresh = pass.fresh
  BY <1>1, <1>2, EditIs
<1>5. q = [e EXCEPT !.pc = "rows", !.row = NoId]
  OBVIOUS
<1> HIDE DEF e, j
<1>6. /\ q.pc = "rows" /\ q.kind = e.kind /\ q.copy = e.copy
      /\ q.todo = e.todo /\ q.touched = e.touched /\ q.fresh = e.fresh
  BY <1>4, <1>5, Zenon DEF PassState
<1>7. /\ q.copy = [pass.copy EXCEPT ![j] = r] /\ q.todo = pass.todo \ {j}
      /\ q.touched = pass.touched \cup {j} /\ q.fresh = pass.fresh /\ q.kind = pass.kind
  BY <1>4, <1>6
<1>8. q.pc = "rows" /\ pass.kind # "reconcile"
  BY <1>1, <1>6
<1> HIDE DEF row
<1>9. Softer(pass.copy[j], r)
  BY <1>2 DEF row
<1> QED BY <1>1, <1>3, <1>7, <1>8, <1>9, EditTells

\* The confirmation of a move keeps the invariant.
LEMMA ConfirmInv ==
  ASSUME WriterInv, QueueInv', NEW s, Confirm(s)
  PROVE  WriterInv'
<1>1. UNCHANGED <<queue, dirty, builder, xm, orphans>> /\ pass.pc = "confirm"
  BY DEF Confirm, world
<1> DEFINE row == pass.copy[pass.row]
<1>2. /\ row \in Row /\ pass \in PassState /\ Holds(pass, queue, dirty)
      /\ queue \in [Ids -> MaybeRow] /\ Tells(pass)
  BY <1>1, MoveIs
<1>3. PICK q : q = pass'
  OBVIOUS
<1>4. \/ q = [pass EXCEPT !.pc = "cancel"]
      \/ \E r \in {row, [row EXCEPT !.unread = 0], Unreadable(row)} :
           q = [Edit(pass.row, r) EXCEPT !.pc = "rows", !.row = NoId]
  BY <1>3 DEF Confirm
<1>5. \A r \in {row, [row EXCEPT !.unread = 0], Unreadable(row)} :
        Same(row, r) /\ r.state = row.state
  <2>1. Same(row, row)
    BY <1>2 DEF Same
  <2> QED BY <1>2, <2>1, CountsAre
<1>6. CASE q = [pass EXCEPT !.pc = "cancel"]
  <2>1. "cancel" \in PassPC
    BY DEF PassPC
  <2>2. /\ q.pc = "cancel" /\ q.kind = pass.kind /\ q.copy = pass.copy
        /\ q.todo = pass.todo /\ q.touched = pass.touched /\ q.fresh = pass.fresh
        /\ q.row = pass.row
    BY <1>2, <1>6, <2>1, AtIs
  <2>3. Tells(q)
    BY <1>1, <1>2, <2>2, SkipTells
  <2> QED BY <1>1, <1>3, <2>3, PassInv
<1>7. ASSUME NEW r \in {row, [row EXCEPT !.unread = 0], Unreadable(row)},
             q = [Edit(pass.row, r) EXCEPT !.pc = "rows", !.row = NoId]
      PROVE  WriterInv'
  <2>1. Same(row, r) /\ r.state = row.state
    BY <1>5
  <2>2. Tells(q)
    BY <1>1, <1>7, <2>1, LeaveTells
  <2> QED BY <1>1, <1>3, <2>2, PassInv
<1> QED BY <1>4, <1>6, <1>7

\* So does the archiving.
LEMMA ArchiveInv ==
  ASSUME WriterInv, QueueInv', Archive
  PROVE  WriterInv'
<1>1. UNCHANGED <<queue, dirty, builder, xm, orphans>> /\ pass.pc = "archive"
      /\ pass' = [pass EXCEPT !.pc = "persist"]
  BY DEF Archive
<1>2. pass \in PassState /\ Holds(pass, queue, dirty) /\ queue \in [Ids -> MaybeRow]
      /\ Tells(pass)
  BY DEF WriterInv, QueueInv, TypeOK
<1>3. PICK q : q = [pass EXCEPT !.pc = "persist"]
  OBVIOUS
<1>4. "persist" \in PassPC
  BY DEF PassPC
<1>5. /\ q.pc = "persist" /\ q.kind = pass.kind /\ q.copy = pass.copy
      /\ q.todo = pass.todo /\ q.touched = pass.touched /\ q.fresh = pass.fresh
      /\ q.row = pass.row
  BY <1>2, <1>3, <1>4, AtIs
<1>6. Tells(q)
  BY <1>1, <1>2, <1>5, SkipTells
<1> QED BY <1>1, <1>3, <1>6, PassInv

\* What the router's cancel does to XManager: the experiment it was asked to stop is hot
\* no more.
LEMMA RouterIs ==
  ASSUME WriterInv, NEW x \in Xids, RouterCancels(x), UNCHANGED <<queue, dirty, builder>>,
         xm[x].state \notin {"none", "empty"}
  PROVE  /\ XmMoves /\ Cools
         /\ \A y \in Xids : xm[y].state = "empty" => xm'[y].state = "empty"
         /\ Hot(x)' = FALSE
         /\ Outside(pass)
<1>1. xm \in [Xids -> Experiment]
  BY DEF WriterInv, QueueInv, TypeOK
<1>2. /\ \A y \in Xids : y # x => xm'[y] = xm[y]
      /\ xm[x].state \notin Alive => xm'[x] = xm[x]
      /\ xm[x].state \in Alive =>
           xm'[x].state = "stopped" /\ xm'[x].job = xm[x].job /\ xm'[x].run = xm[x].run
  <2>1. xm[x] \in Experiment
    BY <1>1
  <2>2. CASE xm[x].state \in Alive
    <3>1. xm' = [xm EXCEPT ![x].state = "stopped"]
      BY <2>2 DEF RouterCancels
    <3> QED BY <1>1, <2>1, <2>2, <3>1 DEF Experiment
  <2>3. CASE xm[x].state \notin Alive
    BY <2>3 DEF RouterCancels
  <2> QED BY <2>2, <2>3
<1>3. XmMoves
  BY <1>2 DEF XmMoves, Hot
<1>4. BuilderCools
  BY DEF BuilderCools
<1>5. Cools
  BY <1>3, <1>4, CoolsBy
<1>6. \A y \in Xids : xm[y].state = "empty" => xm'[y].state = "empty"
  BY <1>2
<1>7. xm'[x].state \notin Alive /\ xm'[x].state # "empty"
  BY <1>2 DEF Alive
<1>8. Hot(x)' = FALSE
  BY <1>7 DEF Hot
<1>9. Outside(pass)
  <2>1. XmKeeps /\ \A y \in Xids : xm[y].state = "none" => xm'[y].state = "none"
    BY <1>5 DEF Cools
  <2>2. \A j \in Ids : queue'[j] = queue[j] /\ (j \in dirty => j \in dirty')
    OBVIOUS
  <2> QED BY <2>1, <2>2 DEF Outside, IsRow
<1> QED BY <1>3, <1>5, <1>6, <1>8, <1>9

\* It keeps the invariant, when it keeps what the pass tells.
LEMMA RouterInv ==
  ASSUME WriterInv, QueueInv', UNCHANGED <<queue, builder, orphans>>, XmMoves, Cools,
         \A y \in Xids : xm[y].state = "empty" => xm'[y].state = "empty",
         Tells(pass)'
  PROVE  WriterInv'
<1>1. QueueInv /\ Core /\ Experiments /\ QueueGood /\ Lost /\ BuilderKnows /\ NotMade
      /\ orphans = {}
  BY DEF WriterInv, Core
<1>2. queue \in [Ids -> MaybeRow]
  BY <1>1 DEF QueueInv, TypeOK
<1>3. \A i \in Ids : RowKept(i) /\ RowSpared(i)
  BY DEF RowKept, RowSpared
<1>4. Experiments' /\ QueueGood' /\ Lost'
  BY <1>1, <1>2, <1>3, KeptLaw
<1>5. BuilderKnows'
  BY <1>1, <1>3, BuilderStays
<1>6. NotMade'
  BY <1>1 DEF NotMade, XmMoves
<1> QED BY <1>1, <1>4, <1>5, <1>6 DEF WriterInv, Core

\* Leaving a row as it is keeps what a pass tells: as one formula about the present
\* state.
SkipLaw ==
  \A p, q :
    /\ queue \in [Ids -> MaybeRow] /\ Holds(p, queue, dirty) /\ Tells(p)
    /\ q.copy = p.copy /\ q.todo \subseteq p.todo /\ q.touched = p.touched /\ q.fresh = p.fresh
    /\ q.kind = p.kind /\ q.pc = "rows" /\ p.pc \in {"rows", "confirm", "cancel"}
    => Tells(q)

\* It holds in every state.
LEMMA SkipLawHolds == SkipLaw
<1> SUFFICES ASSUME NEW p, NEW q,
         queue \in [Ids -> MaybeRow], Holds(p, queue, dirty), Tells(p),
         q.copy = p.copy, q.todo \subseteq p.todo, q.touched = p.touched, q.fresh = p.fresh,
         q.kind = p.kind, q.pc = "rows", p.pc \in {"rows", "confirm", "cancel"}
             PROVE  Tells(q)
  BY DEF SkipLaw
<1> QED BY SkipTells

\* A cancel that fails keeps the invariant.
LEMMA CancelFailsInv ==
  ASSUME WriterInv, QueueInv', CancelFails
  PROVE  WriterInv'
<1>1. UNCHANGED <<queue, dirty, builder, orphans>> /\ pass.pc = "cancel"
  BY DEF CancelFails
<1> DEFINE row == pass.copy[pass.row]
           x == XidOf(row)
<1>2. /\ row \in Row /\ pass \in PassState /\ Holds(pass, queue, dirty)
      /\ queue \in [Ids -> MaybeRow] /\ Tells(pass) /\ QueueInv
      /\ x \in Xids /\ xm[x].state \notin {"none", "empty"}
  BY <1>1, MoveIs
<1>3. CASE /\ UNCHANGED world
           /\ pass' = [Edit(pass.row, Unreadable(row)) EXCEPT !.pc = "rows", !.row = NoId]
  <2> DEFINE r == Unreadable(row)
  <2>1. PICK q : q = [Edit(pass.row, r) EXCEPT !.pc = "rows", !.row = NoId]
    OBVIOUS
  <2>2. Same(row, r) /\ r.state = row.state
    BY <1>2, CountsAre
  <2>3. UNCHANGED xm /\ pass' = q
    BY <1>3, <2>1 DEF world
  <2> HIDE DEF r
  <2>4. Tells(q)
    BY <1>1, <2>1, <2>2, LeaveTells
  <2> QED BY <1>1, <2>3, <2>4, PassInv
<1>4. PICK q : q = [pass EXCEPT !.pc = "rows", !.row = NoId]
  OBVIOUS
<1>5. /\ q.pc = "rows" /\ q.kind = pass.kind /\ q.copy = pass.copy
      /\ q.todo = pass.todo /\ q.touched = pass.touched /\ q.fresh = pass.fresh
  BY <1>2, <1>4, Zenon DEF PassState
<1>6. CASE UNCHANGED world /\ pass' = [pass EXCEPT !.pc = "rows", !.row = NoId]
  <2>1. Tells(q)
    BY <1>1, <1>2, <1>5, SkipTells
  <2> QED BY <1>1, <1>4, <1>6, <2>1, PassInv DEF world
<1>7. CASE RouterCancels(x) /\ pass' = [pass EXCEPT !.pc = "rows", !.row = NoId]
  <2> HIDE DEF x
  <2>1. /\ XmMoves /\ Cools
        /\ \A y \in Xids : xm[y].state = "empty" => xm'[y].state = "empty"
        /\ Outside(pass)
    BY <1>1, <1>2, <1>7, RouterIs
  <2>2. PICK p : p = pass
    OBVIOUS
  <2>3. Tells(p)'
    <3>1. QueueGood
      BY DEF WriterInv, Core
    <3>2. Outside(p) /\ Holds(p, queue, dirty) /\ Tells(p)
      BY <1>2, <2>1, <2>2
    <3> QED BY <1>2, <3>1, <3>2, OutsideTells
  <2>4. SkipLaw'
    BY SkipLawHolds, PTL
  <2>5. /\ queue' \in [Ids -> MaybeRow] /\ Holds(p, queue', dirty')
        /\ q.copy = p.copy /\ q.todo \subseteq p.todo /\ q.touched = p.touched
        /\ q.fresh = p.fresh /\ q.kind = p.kind /\ q.pc = "rows"
        /\ p.pc \in {"rows", "confirm", "cancel"}
    BY <1>1, <1>2, <1>5, <2>2
  <2>6. Tells(q)'
    BY <2>3, <2>4, <2>5 DEF SkipLaw
  <2>7. pass' = q
    BY <1>4, <1>7
  <2>8. Tells(pass)'
    BY <2>6, <2>7, TellsNow
  <2> QED BY <1>1, <2>1, <2>8, RouterInv
<1> QED BY <1>3, <1>6, <1>7 DEF CancelFails

\* A cancel that works keeps it: the row it sends back has nothing hot.
LEMMA CancelInv ==
  ASSUME WriterInv, QueueInv', Cancel
  PROVE  WriterInv'
<1>1. UNCHANGED <<queue, dirty, builder, orphans>> /\ pass.pc = "cancel"
  BY DEF Cancel
<1> DEFINE j == pass.row
           row == pass.copy[j]
           x == XidOf(row)
           moved == MarkReroute(row)
<1>2. /\ j \in Ids /\ row \in Row /\ pass \in PassState /\ Holds(pass, queue, dirty)
      /\ queue \in [Ids -> MaybeRow] /\ Tells(pass) /\ QueueInv /\ InHand(pass, j)
      /\ x \in Xids /\ xm[x].state \notin {"none", "empty"} /\ pass.kind = "reroute"
  BY <1>1, MoveIs
<1>3. PICK r \in {moved, WarmInPlace(moved)} :
         pass' = [Edit(j, r) EXCEPT !.pc = "archive"]
  BY DEF Cancel
<1>4. Softer(row, r) /\ r.state = "QUEUED" /\ ~HasLive(r) /\ r \in Row
  <2>1. Softer(row, moved) /\ moved.state = "QUEUED" /\ ~HasLive(moved)
    BY <1>2, MarkRerouteIs
  <2>2. moved \in Row
    BY <2>1 DEF Softer
  <2> HIDE DEF moved
  <2>3. Same(moved, WarmInPlace(moved)) /\ WarmInPlace(moved).state = moved.state
    BY <2>2, CountsAre
  <2>4. Softer(row, WarmInPlace(moved))
    BY <2>1, <2>3, SameSofter, SofterChain
  <2> QED BY <1>3, <2>1, <2>3, <2>4 DEF Softer, Same
<1>5. PICK z \in Xids : z = x
  BY <1>2
<1>6. /\ XmMoves /\ Cools
      /\ \A y \in Xids : xm[y].state = "empty" => xm'[y].state = "empty"
      /\ Outside(pass) /\ Hot(z)' = FALSE
  <2>1. RouterCancels(z) /\ xm[z].state \notin {"none", "empty"}
    BY <1>2, <1>5 DEF Cancel
  <2> QED BY <1>1, <2>1, RouterIs
<1>7. PICK p : p = pass
  OBVIOUS
<1>8. PICK i \in Ids : i = j
  BY <1>2
<1>9. PICK q : q = [Edit(j, r) EXCEPT !.pc = "archive"]
  OBVIOUS
<1>10. /\ q.copy = [p.copy EXCEPT ![i] = r] /\ q.todo = p.todo \ {i}
       /\ q.touched = p.touched \cup {i} /\ q.fresh = p.fresh /\ q.kind = p.kind
       /\ q.pc = "archive" /\ q.row = i
  <2> DEFINE e == Edit(j, r)
  <2>1. /\ e \in PassState /\ e.kind = pass.kind
        /\ e.copy = [pass.copy EXCEPT ![j] = r]
        /\ e.todo = pass.todo \ {j} /\ e.touched = pass.touched \cup {j} /\ e.fresh = pass.fresh
        /\ e.row = j
    BY <1>2, <1>4, EditIs
  <2>2. q = [e EXCEPT !.pc = "archive"]
    BY <1>9
  <2>3. "archive" \in PassPC
    BY DEF PassPC
  <2> HIDE DEF e, j
  <2>4. /\ q.pc = "archive" /\ q.kind = e.kind /\ q.copy = e.copy /\ q.row = e.row
        /\ q.todo = e.todo /\ q.touched = e.touched /\ q.fresh = e.fresh
    BY <2>1, <2>2, <2>3, AtIs
  <2> QED BY <1>7, <1>8, <2>1, <2>4
<1>11. /\ p.copy[i] = row /\ Softer(p.copy[i], r) /\ p.pc = "cancel" /\ p.kind = "reroute"
       /\ InHand(p, i)
  BY <1>1, <1>2, <1>4, <1>7, <1>8
<1>12. Tells(p)'
  <2>1. QueueGood
    BY DEF WriterInv, Core
  <2>2. Outside(p) /\ Holds(p, queue, dirty) /\ Tells(p)
    BY <1>2, <1>6, <1>7
  <2> QED BY <1>2, <2>1, <2>2, OutsideTells
<1>13. GoodRow(i, p.copy[i])'
  <2>1. IsRow(p.copy[i])
    BY <1>2, <1>11, RowFacts DEF MaybeRow
  <2> QED BY <1>12, <2>1 DEF Tells, CopyGood
<1>14. Hot(z)' = FALSE /\ XidOf(p.copy[i]) = z
  BY <1>6, <1>11, <1>5
<1>15. GoodRow(i, r)'
  <2>1. /\ AllXids(r) = AllXids(p.copy[i]) /\ XidOf(r) \in {z, NoXid}
    BY <1>11, <1>14 DEF Softer
  <2>2. /\ AllXids(p.copy[i]) \subseteq Made'
        /\ \A y \in AllXids(p.copy[i]) : Hot(y)' => y = z
        /\ z # NoXid => xm'[z].job = i
    BY <1>13, <1>14 DEF GoodRow
  <2>3. \A y \in AllXids(r) : Hot(y)' => FALSE
    BY <1>14, <2>1, <2>2
  <2>4. AllXids(r) \subseteq Made'
    BY <2>1, <2>2
  <2>5. XidOf(r) # NoXid => xm'[XidOf(r)].job = i
    BY <2>1, <2>2
  <2> QED BY <1>4, <2>3, <2>4, <2>5 DEF GoodRow
<1>16. EditLaw'
  BY EditLawHolds, PTL
<1>17. queue' \in [Ids -> MaybeRow] /\ Holds(p, queue', dirty')
  BY <1>1, <1>2, <1>7
<1>18. InHand(p, i)'
  BY <1>11 DEF InHand
<1>19. Tells(q)'
  BY <1>10, <1>11, <1>12, <1>15, <1>16, <1>17, <1>18 DEF EditLaw
<1>20. Tells(pass)'
  BY <1>3, <1>9, <1>19, TellsNow
<1> QED BY <1>1, <1>6, <1>20, RouterInv

-----------------------------------------------------------------------------
(* The end of a pass.                                                      *)

\* What the merge writes: a row appended, a row that only the pass changed, or what is
\* there.
LEMMA MergedRows ==
  ASSUME WriterInv, pass.pc # "idle", NEW j \in Ids
  PROVE  \/ Merged[j] = queue[j] /\ j \notin pass.fresh
         \/ /\ Merged[j] = pass.copy[j] /\ j \in pass.fresh
            /\ queue[j] = Unminted /\ pass.copy[j] \in Row /\ pass.copy[j].state = "QUEUED"
         \/ /\ Merged[j] = pass.copy[j] /\ j \notin pass.fresh /\ j \in pass.touched
            /\ j \notin dirty /\ queue[j] \in Row /\ pass.copy[j] \in Row
            /\ Bound(queue[j]) /\ pass.copy[j].run = queue[j].run
            /\ AllXids(queue[j]) \subseteq AllXids(pass.copy[j])
            /\ HasLive(pass.copy[j]) =>
                 HasLive(queue[j]) /\ XidOf(pass.copy[j]) = XidOf(queue[j])
            /\ Launchable(pass.copy[j]) => pass.pc \in {"archive", "persist"} /\ pass.row = j
<1>1. QueueInv /\ InWork(pass)
  BY DEF WriterInv, Tells
<1>2. CopyFits(pass, queue, dirty)
  BY <1>1 DEF QueueInv, Holds
<1>3. CASE j \in pass.fresh
  BY <1>2, <1>3 DEF CopyFits, Merged
<1>4. CASE j \notin pass.fresh /\ j \in pass.touched \ dirty /\ IsRow(queue[j])
  <2>1. queue[j] \in Row /\ Edits(queue[j], pass.copy[j])
    BY <1>2, <1>4 DEF CopyFits
  <2>2. Merged[j] = pass.copy[j]
    BY <1>4 DEF Merged
  <2>3. /\ Bound(queue[j])
        /\ HasLive(pass.copy[j]) =>
             HasLive(queue[j]) /\ XidOf(pass.copy[j]) = XidOf(queue[j])
        /\ Launchable(pass.copy[j]) => pass.pc \in {"archive", "persist"} /\ pass.row = j
    BY <1>1, <1>4 DEF InWork
  <2> QED BY <1>4, <2>1, <2>2, <2>3 DEF Edits
<1>5. CASE j \notin pass.fresh /\ ~(j \in pass.touched \ dirty /\ IsRow(queue[j]))
  BY <1>5 DEF Merged
<1> QED BY <1>3, <1>4, <1>5

\* It writes rows as above, and spares that of the builder.
LEMMA MergedKept ==
  ASSUME WriterInv, pass.pc # "idle", queue' = Merged, Stepped(queue, queue'), NEW j \in Ids
  PROVE  RowKept(j) /\ RowSpared(j)
<1>1. /\ QueueInv /\ CopyGood(pass) /\ Seen(pass) /\ Lost
      /\ pass.copy \in [Ids -> MaybeRow] /\ queue \in [Ids -> MaybeRow]
  BY Zenon DEF WriterInv, Tells, Core, QueueInv, TypeOK, PassState
<1>2. \A i \in Ids : queue[i] # Unminted => queue'[i] # Unminted
  BY MintedStays
<1>3. ASSUME pass.copy[j] \in Row
      PROVE  GoodRow(j, pass.copy[j]) /\ queue'[pass.copy[j].run] # Unminted
  <2>1. GoodRow(j, pass.copy[j]) /\ pass.copy[pass.copy[j].run] # Unminted
    BY <1>1, <1>3, RowFacts DEF CopyGood, MaybeRow
  <2> DEFINE i == pass.copy[j].run
  <2>2. i \in Ids
    BY <1>3, RunIsId
  <2> HIDE DEF i
  <2>3. CASE i \in pass.fresh
    <3>1. queue'[i] = pass.copy[i]
      BY <2>2, <2>3 DEF Merged
    <3> QED BY <2>1, <3>1 DEF i
  <2>4. CASE i \notin pass.fresh
    <3>1. queue[i] # Unminted
      BY <1>1, <2>1, <2>2, <2>4 DEF Seen, i
    <3> QED BY <1>2, <2>1, <2>2, <3>1 DEF i
  <2> QED BY <2>1, <2>3, <2>4 DEF i
<1>4. CASE Merged[j] = queue[j]
  BY <1>4 DEF RowKept, RowSpared
<1>5. CASE /\ Merged[j] = pass.copy[j] /\ j \in pass.fresh
           /\ queue[j] = Unminted /\ pass.copy[j] \in Row /\ pass.copy[j].state = "QUEUED"
  <2>1. GoodRow(j, pass.copy[j]) /\ queue'[pass.copy[j].run] # Unminted
    BY <1>3, <1>5
  <2>2. ~HasLive(pass.copy[j])
    BY <1>5, <2>1 DEF GoodRow, Reconcilable
  <2> QED BY <1>5, <2>1, <2>2, RowFacts DEF RowKept, RowSpared
<1>6. CASE /\ Merged[j] = pass.copy[j] /\ j \in pass.touched
           /\ queue[j] \in Row /\ pass.copy[j] \in Row
           /\ Bound(queue[j]) /\ pass.copy[j].run = queue[j].run
           /\ AllXids(queue[j]) \subseteq AllXids(pass.copy[j])
           /\ HasLive(pass.copy[j]) =>
                HasLive(queue[j]) /\ XidOf(pass.copy[j]) = XidOf(queue[j])
  <2>1. GoodRow(j, pass.copy[j]) /\ queue'[pass.copy[j].run] # Unminted
    BY <1>3, <1>6
  <2>2. IsRow(queue[j])
    BY <1>6, RowFacts DEF MaybeRow
  <2>3. Of(j) \subseteq AllXids(pass.copy[j])
    <3>1. ~Awaited(queue[j])
      BY <1>6, BoundIs
    <3>2. Unrecorded(j) = {}
      BY <1>1, <2>2, <3>1 DEF Lost
    <3> QED BY <1>6, <3>2 DEF Unrecorded
  <2>4. RowKept(j)
    BY <1>6, <2>1, <2>2, <2>3 DEF RowKept
  <2>5. RowSpared(j)
    BY <1>6, <2>2 DEF RowSpared, Bound
  <2> QED BY <2>4, <2>5
<1> QED BY <1>4, <1>5, <1>6, MergedRows

\* So it keeps what does not depend on the pass.
LEMMA MergedCore ==
  ASSUME WriterInv, pass.pc # "idle", queue' = Merged, Stepped(queue, queue'),
         UNCHANGED <<builder, xm>>
  PROVE  Core' /\ Cools
<1>1. QueueInv /\ Core /\ Experiments /\ QueueGood /\ Lost /\ BuilderKnows /\ NotMade
  BY DEF WriterInv, Core
<1>2. queue \in [Ids -> MaybeRow]
  BY <1>1 DEF QueueInv, TypeOK
<1>3. XmMoves /\ (\A x \in Xids : xm[x].state = "empty" => xm'[x].state = "empty")
  BY IdleWorld
<1>4. BuilderCools
  BY DEF BuilderCools
<1>5. \A i \in Ids : RowKept(i) /\ RowSpared(i)
  BY MergedKept
<1>6. Cools
  BY <1>3, <1>4, CoolsBy
<1>7. Experiments' /\ QueueGood' /\ Lost'
  BY <1>1, <1>2, <1>5, <1>6, KeptLaw
<1>8. BuilderKnows'
  BY <1>1, <1>3, <1>5, <1>6, BuilderStays
<1>9. NotMade'
  BY <1>1 DEF NotMade
<1> QED BY <1>6, <1>7, <1>8, <1>9 DEF Core

\* Nothing else comes to bring an experiment forth when the pass writes, ends or dies.
LEMMA StillSole ==
  ASSUME WriterInv, pass.pc # "idle", UNCHANGED <<builder, xm>>,
         queue' = queue \/ (queue' = Merged /\ pass.pc \in {"rows", "persist"}),
         NEW q, q.fresh = {}, q.pc \in {"idle", "rows"}
  PROVE  Sole(q)'
<1>1. QueueInv /\ Sole(pass)
  BY DEF WriterInv, Tells
<1>2. CopyFits(pass, queue, dirty)
  BY <1>1 DEF QueueInv, Holds
<1>3. ASSUME NEW i \in Ids, Active(q, i)'
      PROVE  Active(pass, i) /\ RunOf(q, i)' = RunOf(pass, i)
  <2>1. IsRow(queue'[i]) /\ (Launchable(queue'[i]) \/ \E x \in Of(i) : Hot(x))
    <3>1. Of(i)' = Of(i) /\ \A x : Hot(x)' => Hot(x)
      BY DEF Of, Made, Hot
    <3> QED BY <1>3, <3>1 DEF Active, MovingRow, Moving
  <2>2. RunOf(q, i)' = queue'[i].run
    BY DEF RunOf
  <2>3. CASE queue'[i] = queue[i] /\ i \notin pass.fresh
    BY <2>1, <2>2, <2>3 DEF Active, RunOf
  <2>4. CASE queue'[i] = queue[i] /\ i \in pass.fresh
    BY <1>2, <2>1, <2>4, RowFacts DEF CopyFits
  <2>5. CASE queue' = Merged /\ pass.pc \in {"rows", "persist"} /\ queue'[i] # queue[i]
    <3>1. CASE i \in pass.fresh /\ queue'[i] = pass.copy[i]
      BY <2>2, <3>1 DEF Active, RunOf
    <3>2. CASE /\ i \notin pass.fresh /\ i \notin dirty /\ queue'[i] = pass.copy[i]
               /\ queue[i] \in Row /\ pass.copy[i].run = queue[i].run
               /\ Launchable(pass.copy[i]) => pass.pc \in {"archive", "persist"} /\ pass.row = i
      <4>1. IsRow(queue[i])
        BY <3>2, RowFacts DEF MaybeRow
      <4> QED BY <2>1, <2>2, <3>2, <4>1 DEF Active, RunOf, MovingRow, Moving
    <3> QED BY <2>5, <3>1, <3>2, MergedRows
  <2> QED BY <2>3, <2>4, <2>5
<1> QED BY <1>1, <1>3 DEF Sole

\* Between passes there is nothing else to tell.
LEMMA BetweenTells ==
  ASSUME NEW q, q.pc = "idle", q.copy = NoCopy, q.todo = {}, q.touched = {}, Sole(q)'
  PROVE  Tells(q)'
<1>1. \A j \in Ids : ~IsRow(q.copy[j])
  BY RowFacts DEF NoCopy
<1>2. CopyGood(q)' /\ Judged(q)'
  BY <1>1 DEF CopyGood, Judged, IsRow
<1>3. Seen(q)' /\ InWork(q)'
  BY DEF Seen, InWork, Moving
<1> QED BY <1>2, <1>3 DEF Tells

\* The merge keeps the invariant.
LEMMA MergeInv ==
  ASSUME WriterInv, QueueInv', Stepped(queue, queue'), Merge
  PROVE  WriterInv'
<1>1. /\ pass.pc = "rows" /\ queue' = Merged /\ pass' = Between(pass.kind)
      /\ UNCHANGED <<builder, xm, orphans>>
  BY DEF Merge, world
<1>2. Core'
  BY <1>1, MergedCore
<1>3. PICK q : q = Between(pass.kind)
  OBVIOUS
<1>4. q.pc = "idle" /\ q.copy = NoCopy /\ q.todo = {} /\ q.touched = {} /\ q.fresh = {}
  BY <1>3 DEF Between
<1>5. Sole(q)'
  BY <1>1, <1>4, StillSole
<1>6. Tells(q)'
  BY <1>4, <1>5, BetweenTells
<1>7. Tells(pass)'
  BY <1>1, <1>3, <1>6, TellsNow
<1> QED BY <1>1, <1>2, <1>7 DEF WriterInv

\* So does a crash of the loop.
LEMMA LoopCrashInv ==
  ASSUME WriterInv, QueueInv', LoopCrash
  PROVE  WriterInv'
<1>1. /\ pass.pc # "idle" /\ pass' = Between("reroute")
      /\ UNCHANGED <<queue, builder, xm, orphans>>
  BY DEF LoopCrash, world
<1>2. QueueInv /\ Core /\ Experiments /\ QueueGood /\ Lost /\ BuilderKnows /\ NotMade
  BY DEF WriterInv, Core
<1>3. Core'
  <2>1. queue \in [Ids -> MaybeRow]
    BY <1>2 DEF QueueInv, TypeOK
  <2>2. XmMoves /\ (\A x \in Xids : xm[x].state = "empty" => xm'[x].state = "empty")
    BY <1>1, IdleWorld
  <2>3. BuilderCools
    BY <1>1 DEF BuilderCools
  <2>4. \A i \in Ids : RowKept(i) /\ RowSpared(i)
    BY <1>1 DEF RowKept, RowSpared
  <2>5. Cools
    BY <2>2, <2>3, CoolsBy
  <2>6. Experiments' /\ QueueGood' /\ Lost'
    BY <1>2, <2>1, <2>4, <2>5, KeptLaw
  <2>7. BuilderKnows'
    BY <1>1, <1>2, <2>2, <2>4, <2>5, BuilderStays
  <2>8. NotMade'
    BY <1>1, <1>2 DEF NotMade
  <2> QED BY <2>6, <2>7, <2>8 DEF Core
<1>4. PICK q : q = Between("reroute")
  OBVIOUS
<1>5. q.pc = "idle" /\ q.copy = NoCopy /\ q.todo = {} /\ q.touched = {} /\ q.fresh = {}
  BY <1>4 DEF Between
<1>6. Sole(q)'
  BY <1>1, <1>5, StillSole
<1>7. Tells(q)'
  BY <1>5, <1>6, BetweenTells
<1>8. Tells(pass)'
  BY <1>1, <1>4, <1>7, TellsNow
<1> QED BY <1>1, <1>3, <1>8 DEF WriterInv

\* So does the write in the midst of a pass, once a row is moved.
LEMMA PersistInv ==
  ASSUME WriterInv, QueueInv', Stepped(queue, queue'), Persist
  PROVE  WriterInv'
<1>1. /\ pass.pc = "persist" /\ Save(Merged) /\ pass' = [pass EXCEPT !.pc = "rows", !.row = NoId]
      /\ UNCHANGED <<builder, xm, orphans>>
  BY DEF Persist, world
<1>2. queue' = Merged /\ dirty' = dirty \cup {j \in Ids : queue'[j] # queue[j]}
  BY <1>1 DEF Save
<1>3. Core' /\ Cools
  BY <1>1, <1>2, MergedCore
<1>4. PICK q : q = [pass EXCEPT !.pc = "rows", !.row = NoId]
  OBVIOUS
<1>5. /\ QueueInv /\ Tells(pass) /\ pass \in PassState /\ PassFits(pass)
      /\ pass.copy \in [Ids -> MaybeRow] /\ queue \in [Ids -> MaybeRow]
      /\ pass.todo \in SUBSET Ids /\ pass.touched \in SUBSET Ids
  BY Zenon DEF WriterInv, QueueInv, TypeOK, Holds, PassState
<1>6. /\ q.pc = "rows" /\ q.kind = pass.kind /\ q.copy = pass.copy
      /\ q.todo = pass.todo /\ q.touched = pass.touched /\ q.fresh = pass.fresh
  BY <1>4, <1>5, Zenon DEF PassState
<1>7. pass.fresh = {} /\ pass.kind = "reroute"
  BY <1>1, <1>5 DEF PassFits
<1>8. CopyGood(pass) /\ Seen(pass) /\ InWork(pass)
  BY <1>5 DEF Tells
<1>9. CopyGood(q)'
  <2>1. SUFFICES ASSUME NEW j \in Ids, IsRow(q.copy[j])
                 PROVE  GoodRow(j, q.copy[j])' /\ q.copy[q.copy[j].run] # Unminted
    BY DEF CopyGood
  <2>2. q.copy[j] \in Row
    BY <1>5, <1>6, <2>1, RowFacts
  <2>3. GoodRow(j, q.copy[j]) /\ q.copy[q.copy[j].run] # Unminted
    BY <1>6, <1>8, <2>1 DEF CopyGood
  <2>4. GoodRow(j, q.copy[j])'
    BY <1>3, <2>2, <2>3, GoodStays DEF Cools
  <2> QED BY <2>3, <2>4
<1>10. Seen(q)'
  <2>1. SUFFICES ASSUME NEW j \in Ids
                 PROVE  /\ pass.copy[j] = Unminted /\ IsRow(queue'[j]) => queue'[j].run = j
                        /\ pass.copy[j] = Cleared => queue'[j] = Cleared
                        /\ IsRow(pass.copy[j]) /\ IsRow(queue'[j]) =>
                             queue'[j].run = pass.copy[j].run
                        /\ pass.copy[j] # Unminted => queue'[j] # Unminted
    BY <1>6, <1>7 DEF Seen, IsRow
  <2>2. /\ pass.copy[j] = Unminted /\ IsRow(queue[j]) => queue[j].run = j
        /\ pass.copy[j] = Cleared => queue[j] = Cleared
        /\ IsRow(pass.copy[j]) /\ IsRow(queue[j]) => queue[j].run = pass.copy[j].run
        /\ pass.copy[j] # Unminted => queue[j] # Unminted
    BY <1>1, <1>7, <1>8 DEF Seen
  <2>3. queue'[j] = queue[j] \/ (queue'[j] = pass.copy[j] /\ pass.copy[j] \in Row)
    BY <1>1, <1>2, MergedRows
  <2> QED BY <2>2, <2>3, RowFacts, QueueConstantsOK
<1>11. InWork(q)'
  <2>1. \A j \in Ids : j \notin dirty' => j \notin dirty /\ queue'[j] = queue[j]
    BY <1>2
  <2>2. \A j \in q.todo : /\ q.kind = "reconcile" => Judgeable(q.copy[j])
                          /\ q.kind = "reroute" => Movable(q.copy[j])
                          /\ j \notin dirty' => IsRow(queue'[j]) /\ Bound(queue'[j])
    BY <1>5, <1>6, <1>8, <2>1 DEF InWork
  <2>3. ASSUME NEW j \in q.touched
        PROVE  /\ IsRow(q.copy[j]) /\ j \notin q.fresh
               /\ j \notin dirty' => /\ IsRow(queue'[j]) /\ Bound(queue'[j])
                                     /\ HasLive(q.copy[j]) =>
                                          HasLive(queue'[j]) /\ XidOf(q.copy[j]) = XidOf(queue'[j])
                                     /\ ~Launchable(q.copy[j])
    <3>1. IsRow(q.copy[j]) /\ j \notin q.fresh /\ j \in Ids /\ j \in pass.touched
      BY <1>5, <1>6, <1>8 DEF InWork
    <3>2. ASSUME j \notin dirty'
          PROVE  /\ IsRow(queue'[j]) /\ Bound(queue'[j])
                 /\ HasLive(q.copy[j]) =>
                      HasLive(queue'[j]) /\ XidOf(q.copy[j]) = XidOf(queue'[j])
                 /\ ~Launchable(q.copy[j])
      <4>1. j \notin dirty /\ queue'[j] = queue[j]
        BY <2>1, <3>1, <3>2
      <4>2. /\ IsRow(queue[j]) /\ Bound(queue[j])
            /\ HasLive(q.copy[j]) => HasLive(queue[j]) /\ XidOf(q.copy[j]) = XidOf(queue[j])
        BY <1>6, <1>8, <3>1, <4>1 DEF InWork
      <4>3. Merged[j] = pass.copy[j]
        BY <3>1, <4>1, <4>2 DEF Merged
      <4>4. ~Launchable(queue[j])
        BY <4>2, BoundIs
      <4> QED BY <1>2, <1>6, <4>1, <4>2, <4>3, <4>4
    <3> QED BY <3>1, <3>2
  <2>4. q.pc \notin Moving
    BY <1>6 DEF Moving
  <2> QED BY <2>2, <2>3, <2>4 DEF InWork, IsRow
<1>12. Judged(q)'
  BY <1>6, <1>7 DEF Judged
<1>13. Sole(q)'
  BY <1>1, <1>2, <1>6, <1>7, StillSole
<1>14. Tells(q)'
  BY <1>9, <1>10, <1>11, <1>12, <1>13 DEF Tells
<1>15. Tells(pass)'
  BY <1>1, <1>4, <1>14, TellsNow
<1> QED BY <1>1, <1>3, <1>15 DEF WriterInv

-----------------------------------------------------------------------------
(* The invariant is inductive.                                             *)

\* The invariant holds at first.
LEMMA InitWriter == Init => WriterInv
<1> SUFFICES ASSUME Init PROVE WriterInv
  OBVIOUS
<1>1. QueueInv /\ orphans = {}
  BY InitInv DEF Init
<1>2. \A j \in Ids : queue[j] = Unminted /\ ~IsRow(queue[j])
  BY RowFacts DEF Init, NoCopy
<1>3. \A x \in Xids : xm[x].state = "none" /\ xm[x].job = NoId
  BY DEF Init, NoExperiment
<1>4. Made = {}
  BY <1>3 DEF Made
<1>5. NotMade /\ Experiments
  BY <1>3, <1>4 DEF NotMade, Experiments
<1>6. QueueGood /\ Lost
  BY <1>2 DEF QueueGood, Lost
<1>7. builder.pc = "dispatch" /\ builder.xid = NoXid
  BY DEF Init, AtDispatch
<1>8. BuilderKnows
  BY <1>7 DEF BuilderKnows
<1>9. /\ pass.pc = "idle" /\ pass.copy = NoCopy /\ pass.todo = {} /\ pass.touched = {}
      /\ pass.fresh = {}
  BY DEF Init, Between
<1>10. CopyGood(pass) /\ Judged(pass)
  <2>1. \A j \in Ids : ~IsRow(pass.copy[j])
    BY <1>9, RowFacts DEF NoCopy
  <2> QED BY <2>1 DEF CopyGood, Judged
<1>11. Seen(pass) /\ InWork(pass)
  BY <1>9 DEF Seen, InWork, Moving
<1>12. Sole(pass)
  BY <1>2, <1>9 DEF Sole, Active, MovingRow, Moving
<1> QED BY <1>1, <1>5, <1>6, <1>8, <1>10, <1>11, <1>12 DEF WriterInv, Core, Tells

\* It holds while nothing happens.
LEMMA StutterWriter ==
  ASSUME WriterInv, QueueInv', UNCHANGED vars
  PROVE  WriterInv'
<1>1. UNCHANGED <<queue, dirty, builder, xm, orphans, pass>>
  BY DEF vars
<1>2. PICK q : q = pass
  OBVIOUS
<1>3. Tells(q) /\ pass' = q
  BY <1>1, <1>2 DEF WriterInv
<1> QED BY <1>1, <1>3, PassInv

\* Every step keeps it.
LEMMA StepWriter ==
  ASSUME Safe, WriterInv, [Next]_vars
  PROVE  WriterInv'
<1>1. QueueInv /\ orphans = {}
  BY DEF WriterInv
<1>2. QueueInv' /\ Stepped(queue, queue')
  BY <1>1, StepInv
<1>3. CASE UNCHANGED vars
  BY <1>2, <1>3, StutterWriter
<1>4. CASE UserStep
  <2>1. CASE \E j \in Ids : Enqueue(j) \/ RequeueRow(j) \/ ClearRow(j)
    BY <1>2, <2>1, UserInv
  <2>2. CASE \E x \in Xids : UserStop(x) \/ UserMark(x)
    BY <1>2, <2>2, WorldInv
  <2> QED BY <1>4, <2>1, <2>2 DEF UserStep
<1>5. CASE XManager
  BY <1>2, <1>5, WorldInv
<1>6. CASE \E o \in orphans : OrphanStep(o)
  BY <1>1, <1>6
<1>7. CASE BuilderStep
  <2>1. CASE Dispatch \/ Apply
    BY <1>2, <2>1, DispatchInv
  <2>2. CASE Claim
    BY <1>2, <2>2, ClaimInv
  <2>3. CASE PlanHold \/ PlanRequeue \/ PlanAdopt
    BY <1>2, <2>3, PlanInv
  <2>4. CASE PlanBuild \/ \E end \in BuildEnds : EndEarly(end)
    BY <1>2, <2>4, BuildInv
  <2>5. CASE Create
    BY <1>2, <2>5, CreateInv
  <2>6. CASE Bind
    BY <1>2, <2>6, BindInv
  <2>7. CASE Record
    BY <1>2, <2>7, RecordInv
  <2>8. CASE \E end \in BuildEnds : End(end)
    BY <1>2, <2>8, EndInv
  <2> QED BY <1>7, <2>1, <2>2, <2>3, <2>4, <2>5, <2>6, <2>7, <2>8 DEF BuilderStep
<1>8. CASE BuilderCrash
  BY <1>2, <1>8, CrashInv
<1>9. CASE LoopStep
  <2>1. CASE Begin("reconcile") \/ Begin("reroute")
    BY <1>2, <2>1, BeginInv
  <2>2. ASSUME NEW j \in Ids, NEW s \in XmStatus,
               \/ Settle(j, s) \/ SettleCancelled(j, s) \/ Postpone(j, s)
               \/ Bury(j, s) \/ Park(j, s)
        PROVE  WriterInv'
    BY <1>2, <2>2, ReconcileInv
  <2>3. ASSUME NEW j \in Ids, NEW s \in XmStatus, Restart(j, s)
        PROVE  WriterInv'
    BY <1>2, <2>3, RestartInv
  <2>4. ASSUME NEW j \in Ids, NEW s \in XmStatus,
               Pass(j, s) \/ Flag(j, s) \/ Promote(j, s) \/ Suspect(j, s)
        PROVE  WriterInv'
    BY <1>2, <2>4, SweepInv
  <2>5. CASE \E s \in XmStatus : Confirm(s)
    BY <1>2, <2>5, ConfirmInv
  <2>6. CASE Cancel
    BY <1>2, <2>6, CancelInv
  <2>7. CASE CancelFails
    BY <1>2, <2>7, CancelFailsInv
  <2>8. CASE Archive
    BY <1>2, <2>8, ArchiveInv
  <2>9. CASE Persist
    BY <1>2, <2>9, PersistInv
  <2>10. CASE Merge
    BY <1>2, <2>10, MergeInv
  <2> QED BY <1>9, <2>1, <2>2, <2>3, <2>4, <2>5, <2>6, <2>7, <2>8, <2>9, <2>10 DEF LoopStep
<1>10. CASE LoopCrash
  BY <1>2, <1>10, LoopCrashInv
<1> QED BY <1>3, <1>4, <1>5, <1>6, <1>7, <1>8, <1>9, <1>10 DEF Next

-----------------------------------------------------------------------------
(* What follows.                                                           *)

\* A live experiment is hot, and its row is active, and bound to it or asking for it.
LEMMA LiveIsHot ==
  ASSUME WriterInv, NEW x \in LiveXids
  PROVE  LET j == xm[x].job IN
         /\ j \in Ids /\ IsRow(queue[j]) /\ queue[j] \in Row /\ queue[j].run = xm[x].run
         /\ x \in Of(j) /\ Hot(x) /\ Active(pass, j) /\ RunOf(pass, j) = xm[x].run
         /\ x \in AllXids(queue[j]) => XidOf(queue[j]) = x /\ HasLive(queue[j])
         /\ x \notin AllXids(queue[j]) => x \in Unrecorded(j) /\ Awaited(queue[j])
<1> DEFINE j == xm[x].job
<1>1. QueueInv /\ Experiments /\ QueueGood /\ Lost /\ queue \in [Ids -> MaybeRow]
  BY DEF WriterInv, Core, QueueInv, TypeOK
<1>2. x \in Made /\ Hot(x) /\ x \in Of(j)
  BY DEF LiveXids, Made, Hot, Of, Alive
<1>3. j \in Ids /\ IsRow(queue[j]) /\ queue[j].run = xm[x].run
  BY <1>1, <1>2 DEF Experiments
<1> HIDE DEF j
<1>4. queue[j] \in Row
  BY <1>1, <1>3, RowFacts
<1>5. j \notin pass.fresh
  BY <1>1, <1>3, <1>4, FreshUnminted
<1>6. Active(pass, j) /\ RunOf(pass, j) = xm[x].run
  BY <1>2, <1>3, <1>5 DEF Active, RunOf
<1>7. x \in AllXids(queue[j]) => XidOf(queue[j]) = x /\ HasLive(queue[j])
  BY <1>1, <1>2, <1>3 DEF QueueGood, GoodRow
<1>8. x \notin AllXids(queue[j]) => x \in Unrecorded(j) /\ Awaited(queue[j])
  BY <1>1, <1>2, <1>3 DEF Lost, Unrecorded
<1> QED BY <1>2, <1>3, <1>4, <1>6, <1>7, <1>8 DEF j

\* The invariant implies OneWriter.
LEMMA WriterOne == WriterInv => OneWriter
<1> SUFFICES ASSUME WriterInv, NEW x \in LiveXids, NEW y \in LiveXids, xm[x].run = xm[y].run
             PROVE  x = y
  BY DEF OneWriter
<1> DEFINE i == xm[x].job
           j == xm[y].job
<1>1. /\ i \in Ids /\ IsRow(queue[i])
      /\ x \in Of(i) /\ Hot(x) /\ Active(pass, i) /\ RunOf(pass, i) = xm[x].run
      /\ x \in AllXids(queue[i]) => XidOf(queue[i]) = x /\ HasLive(queue[i])
      /\ x \notin AllXids(queue[i]) => x \in Unrecorded(i) /\ Awaited(queue[i])
  BY LiveIsHot
<1>2. /\ j \in Ids /\ IsRow(queue[j])
      /\ y \in Of(j) /\ Hot(y) /\ Active(pass, j) /\ RunOf(pass, j) = xm[y].run
      /\ y \in AllXids(queue[j]) => XidOf(queue[j]) = y /\ HasLive(queue[j])
      /\ y \notin AllXids(queue[j]) => y \in Unrecorded(j) /\ Awaited(queue[j])
  BY LiveIsHot
<1> HIDE DEF i, j
<1>3. i = j
  BY <1>1, <1>2 DEF WriterInv, Tells, Sole
<1>4. \A a, b \in Unrecorded(i) : a = b
  BY <1>1 DEF WriterInv, Core, Lost
<1>5. Awaited(queue[i]) => ~HasLive(queue[i])
  BY DEF Awaited
<1> QED BY <1>1, <1>2, <1>3, <1>4, <1>5

\* The invariant implies LiveIsCurrent.
LEMMA WriterCurrent == WriterInv => LiveIsCurrent
<1> SUFFICES ASSUME WriterInv, NEW j \in InState(queue, JobState),
                    NEW x \in AllXids(queue[j]) \cap LiveXids
             PROVE  XidOf(queue[j]) = x /\ HasLive(queue[j]) /\ queue[j].state \in Unfinished
  BY DEF LiveIsCurrent
<1>1. j \in Ids /\ IsRow(queue[j])
  BY DEF InState
<1>2. GoodRow(j, queue[j])
  BY <1>1 DEF WriterInv, Core, QueueGood
<1>3. Hot(x)
  BY DEF LiveXids, Hot
<1>4. XidOf(queue[j]) = x /\ HasLive(queue[j]) /\ queue[j].state \in Reconcilable
  BY <1>2, <1>3 DEF GoodRow
<1> QED BY <1>4 DEF Reconcilable, Unfinished, JobState, Finished

\* The invariant implies NothingEscapes.
LEMMA WriterEscapes == WriterInv => NothingEscapes
<1> SUFFICES ASSUME WriterInv, NEW x \in LiveXids, IsRow(RowOf(x)), x \notin AllXids(RowOf(x))
             PROVE  /\ ~HasLive(RowOf(x))
                    /\ \/ RowOf(x).state = "BUILDING"
                       \/ RowOf(x).state \in {"QUEUED", "BUILD_REQUESTED", "BUDGET_DEFERRED"}
                          /\ RowOf(x).attempts > 0
  BY DEF NothingEscapes
<1>1. Awaited(RowOf(x))
  BY LiveIsHot DEF RowOf
<1> QED BY <1>1 DEF Awaited, Waiting

\* The inductive invariant holds in every reachable state.
THEOREM WriterInvariant ==
  ASSUME Safe
  PROVE  Spec => []WriterInv
<1>1. WriterInv /\ [Next]_vars => WriterInv'
  BY StepWriter
<1> QED BY <1>1, InitWriter, PTL DEF Spec

\* Never two live experiments of one run, that would write the same checkpoints: not
\* when a builder dies between the making of an experiment and its record, not when a
\* pass restarts a row on what it read before the builder wrote it, and not when users
\* clear and requeue (route_check.py, run_worker_once: rebuilding now would put a
\* "SECOND writer" on the output path).
THEOREM SingleWriter ==
  ASSUME Safe
  PROVE  Spec => []OneWriter
BY WriterInvariant, WriterOne, PTL

\* A live experiment belongs to a row that is still in play, and is its newest
\* submission if the row has recorded it: no row is finished, held or gone while its
\* experiment goes on.
THEOREM LiveOnlyInPlay ==
  ASSUME Safe
  PROVE  Spec => []LiveIsCurrent
BY WriterInvariant, WriterCurrent, PTL

\* A live experiment no row has recorded is still asked for by the row it was made for,
\* so that the next build adopts it rather than make another (route_check.py,
\* run_worker_once, the escape check).
THEOREM NoneEscapes ==
  ASSUME Safe
  PROVE  Spec => []NothingEscapes
BY WriterInvariant, WriterEscapes, PTL
-----------------------------------------------------------------------------
(* The runs the queue drives. The abstract step is read off what the step  *)
(* does to XManager: one experiment at most changes, and then no row does. *)

\* Experiment x alone changes: it is made, launched, goes on, or ends; it never starts
\* over, and keeps its run.
Changes(x) ==
  /\ \A y \in Xids : y # x => xm'[y] = xm[y]
  /\ \/ xm[x].state \in {"none", "empty"} /\ xm'[x].state \in {"none", "empty"}
     \/ xm[x].state = "empty" /\ xm'[x].state \in Alive /\ xm'[x].run = xm[x].run
     \/ xm[x].state \in Alive /\ xm'[x].state \in Alive /\ xm'[x].run = xm[x].run
     \/ xm[x].state \in Alive /\ xm'[x].state \in {"completed", "stopped"}

\* All a step may do to XManager, as long as no build fails half way.
OneChange == UNCHANGED xm \/ (UNCHANGED queue /\ \E x \in Xids : Changes(x))

\* A new state for an experiment that is alive, or that is launched, changes it alone.
LEMMA StateChanges ==
  ASSUME xm \in [Xids -> Experiment], NEW x \in Xids, NEW s,
         xm' = [xm EXCEPT ![x].state = s],
         \/ xm[x].state \in Alive /\ s \in Alive \cup {"completed", "stopped"}
         \/ xm[x].state = "empty" /\ s \in Alive
  PROVE  Changes(x)
<1>1. xm[x] \in Experiment
  OBVIOUS
<1>2. xm'[x].state = s /\ xm'[x].run = xm[x].run
  BY <1>1 DEF Experiment
<1>3. \A y \in Xids : y # x => xm'[y] = xm[y]
  OBVIOUS
<1> QED BY <1>2, <1>3 DEF Changes

\* The router's cancel stops one experiment, or finds it dead.
LEMMA RouterChange ==
  ASSUME xm \in [Xids -> Experiment], UNCHANGED queue, NEW x \in Xids, RouterCancels(x)
  PROVE  OneChange
<1>1. CASE xm[x].state \in Alive
  <2>1. xm' = [xm EXCEPT ![x].state = "stopped"]
    BY <1>1 DEF RouterCancels
  <2>2. Changes(x)
    BY <1>1, <2>1, StateChanges
  <2> QED BY <2>2 DEF OneChange
<1>2. CASE xm[x].state \notin Alive
  BY <1>2 DEF RouterCancels, OneChange
<1> QED BY <1>1, <1>2

\* The experiment of the row a pass is moving is one.
LEMMA MovedXid ==
  ASSUME WriterInv, pass.pc = "cancel"
  PROVE  XidOf(pass.copy[pass.row]) \in Xids
<1>1. QueueInv /\ InWork(pass) /\ Holds(pass, queue, dirty) /\ queue \in [Ids -> MaybeRow]
  BY DEF WriterInv, Tells, QueueInv, TypeOK
<1>2. pass.row \in Ids
  BY <1>1 DEF Holds, PassFits, Moving
<1>3. pass.copy[pass.row] \in Row /\ Movable(pass.copy[pass.row])
  BY <1>1, <1>2, InHandIs DEF InHand, InWork, Moving
<1> QED BY <1>3, XidsAre, MakesBound

\* Every step changes one experiment at most, and no row when it does.
LEMMA StepChanges ==
  ASSUME Safe, WriterInv, [Next]_vars
  PROVE  OneChange
<1>1. xm \in [Xids -> Experiment] /\ orphans = {} /\ QueueInv /\ BuilderKnows
  BY DEF WriterInv, QueueInv, TypeOK, Core
<1>2. CASE UNCHANGED vars
  BY <1>2 DEF vars, OneChange
<1>3. CASE UserStep
  <2>1. CASE \E j \in Ids : Enqueue(j) \/ RequeueRow(j) \/ ClearRow(j)
    BY <2>1 DEF Enqueue, RequeueRow, ClearRow, world, OneChange
  <2>2. ASSUME NEW x \in Xids, UserStop(x) \/ UserMark(x)
        PROVE  OneChange
    <3>1. CASE UserStop(x)
      <4>1. Changes(x)
        BY <1>1, <3>1, StateChanges DEF UserStop
      <4> QED BY <3>1, <4>1 DEF UserStop, OneChange
    <3>2. CASE UserMark(x)
      BY <3>2 DEF UserMark, OneChange
    <3> QED BY <2>2, <3>1, <3>2
  <2> QED BY <1>3, <2>1, <2>2 DEF UserStep
<1>4. CASE XManager
  <2>1. PICK x \in Xids : \/ Evolve(x, "pending", "running") \/ Evolve(x, "running", "pending")
                          \/ Evolve(x, "running", "completed") \/ Evolve(x, "running", "stopped")
    BY <1>4 DEF XManager
  <2>2. Changes(x)
    BY <1>1, <2>1, StateChanges DEF Evolve, Alive
  <2>3. UNCHANGED queue
    BY <2>1 DEF Evolve
  <2> QED BY <2>2, <2>3 DEF OneChange
<1>5. CASE \E o \in orphans : OrphanStep(o)
  BY <1>1, <1>5
<1>6. CASE BuilderStep
  <2>1. CASE \/ Dispatch \/ Apply \/ Claim \/ PlanHold \/ PlanRequeue \/ PlanAdopt \/ PlanBuild
             \/ Bind \/ Record \/ \E end \in BuildEnds : EndEarly(end)
    BY <2>1 DEF Dispatch, Apply, Claim, PlanHold, PlanRequeue, PlanAdopt, PlanBuild, Bind,
       Record, EndEarly, world, OneChange
  <2>2. CASE Create
    <3>1. NextXid \in Xids /\ xm[NextXid].state = "none"
      BY <1>1, <2>2, NextXidIs DEF WriterInv, QueueInv, Create
    <3> DEFINE n == NextXid
               e == [state |-> "empty", job |-> builder.job, run |-> builder.claimed.run]
    <3>2. xm' = [xm EXCEPT ![n] = e] /\ UNCHANGED queue
      BY <2>2 DEF Create, Created
    <3>3. e.state = "empty"
      OBVIOUS
    <3> HIDE DEF n, e
    <3>4. xm'[n] = e /\ \A y \in Xids : y # n => xm'[y] = xm[y]
      BY <1>1, <3>1, <3>2 DEF n
    <3>5. Changes(n) /\ n \in Xids
      BY <3>1, <3>3, <3>4 DEF Changes, n
    <3> QED BY <3>2, <3>5 DEF OneChange
  <2>3. ASSUME NEW end \in BuildEnds, End(end)
        PROVE  OneChange
    <3>1. end \in {"launched", "timeout"}
      BY <2>3 DEF End, Safe
    <3>2. builder.xid \in Xids /\ xm[builder.xid].state = "empty"
      BY <1>1, <2>3, BuilderPlace DEF End, BuilderKnows
    <3>3. CASE end = "timeout"
      BY <2>3, <3>3 DEF End, OneChange
    <3>4. CASE end = "launched"
      <4>1. xm' = [xm EXCEPT ![builder.xid].state = "pending"] /\ UNCHANGED queue
        BY <2>3, <3>4 DEF End
      <4>2. Changes(builder.xid)
        BY <1>1, <3>2, <4>1, StateChanges DEF Alive
      <4> QED BY <3>2, <4>1, <4>2 DEF OneChange
    <3> QED BY <3>1, <3>3, <3>4
  <2> QED BY <1>6, <2>1, <2>2, <2>3 DEF BuilderStep
<1>7. CASE BuilderCrash
  BY <1>7 DEF BuilderCrash, world, OneChange
<1>8. CASE LoopStep
  <2>1. CASE Begin("reconcile") \/ Begin("reroute")
    BY <2>1 DEF Begin, world, OneChange
  <2>2. ASSUME NEW j \in Ids, NEW s \in XmStatus,
               \/ Settle(j, s) \/ SettleCancelled(j, s) \/ Postpone(j, s) \/ Restart(j, s)
               \/ Bury(j, s) \/ Park(j, s)
        PROVE  OneChange
    BY <2>2 DEF Settle, SettleCancelled, Postpone, Restart, Bury, Park, world, OneChange
  <2>3. ASSUME NEW j \in Ids, NEW s \in XmStatus,
               Pass(j, s) \/ Flag(j, s) \/ Promote(j, s) \/ Suspect(j, s)
        PROVE  OneChange
    BY <2>3 DEF Pass, Flag, Promote, Suspect, world, OneChange
  <2>4. CASE \E s \in XmStatus : Confirm(s)
    BY <2>4 DEF Confirm, world, OneChange
  <2>5. CASE Cancel
    BY <1>1, <2>5, MovedXid, RouterChange DEF Cancel
  <2>6. CASE CancelFails
    <3>1. pass.pc = "cancel" /\ UNCHANGED queue
      BY <2>6 DEF CancelFails
    <3>2. UNCHANGED world \/ RouterCancels(XidOf(pass.copy[pass.row]))
      BY <2>6 DEF CancelFails
    <3> QED BY <1>1, <3>1, <3>2, MovedXid, RouterChange DEF world, OneChange
  <2>7. CASE Archive
    BY <2>7 DEF Archive, OneChange
  <2>8. CASE Persist \/ Merge
    BY <2>8 DEF Persist, Merge, world, OneChange
  <2> QED BY <1>8, <2>1, <2>2, <2>3, <2>4, <2>5, <2>6, <2>7, <2>8 DEF LoopStep
<1>9. CASE LoopCrash
  BY <1>9 DEF LoopCrash, world, OneChange
<1> QED BY <1>2, <1>3, <1>4, <1>5, <1>6, <1>7, <1>8, <1>9 DEF Next

\* What the writers of the runs are.
WritersAre ==
  /\ OneWriter
  /\ \A x \in LiveXids : /\ xm[x].run \in Ids /\ xm[x].run \in OpenRuns
                         /\ RunWriter[xm[x].run] = x /\ x # NoXid
  /\ \A r \in Ids : RunWriter[r] # NoXid => RunWriter[r] \in LiveXids /\ xm[RunWriter[r]].run = r
  /\ OpenRuns \in SUBSET Ids

\* Any of a set is one of it, unless it is empty.
LEMMA AnyIs ==
  /\ AnyOf({}) = NoXid
  /\ \A x : AnyOf({x}) = x
  /\ \A S : S # {} => AnyOf(S) \in S
BY DEF AnyOf

\* A live experiment is the writer of its run, which is open.
LEMMA WritersNow == WriterInv => WritersAre
<1> SUFFICES ASSUME WriterInv PROVE WritersAre
  OBVIOUS
<1>1. QueueInv /\ QueueGood /\ Lost /\ OneWriter /\ queue \in [Ids -> MaybeRow]
  BY WriterOne DEF WriterInv, Core, QueueInv, TypeOK
<1>2. NoXid \notin Xids
  BY RowConstantsOK DEF NoXid, Xids
<1>3. ASSUME NEW x \in LiveXids
      PROVE  xm[x].run \in Ids /\ xm[x].run \in OpenRuns
  <2> DEFINE j == xm[x].job
  <2>1. /\ j \in Ids /\ IsRow(queue[j]) /\ queue[j] \in Row /\ queue[j].run = xm[x].run
        /\ x \in AllXids(queue[j]) => HasLive(queue[j])
        /\ x \notin AllXids(queue[j]) => Awaited(queue[j])
    BY LiveIsHot
  <2> HIDE DEF j
  <2>2. queue[j].state \in JobState /\ queue[j].run \in Ids
    BY <2>1 DEF Row
  <2>3. HasLive(queue[j]) => queue[j].state \in Reconcilable
    BY <1>1, <2>1 DEF QueueGood, GoodRow
  <2>4. queue[j].state \notin Finished
    BY <2>1, <2>3, FinishedIs
  <2> QED BY <2>1, <2>2, <2>4 DEF OpenRuns, InState, Unfinished
<1>4. ASSUME NEW x \in LiveXids
      PROVE  RunWriter[xm[x].run] = x /\ x # NoXid
  <2>1. {y \in LiveXids : xm[y].run = xm[x].run} = {x}
    BY <1>1 DEF OneWriter
  <2>2. xm[x].run \in Ids /\ x \in Xids
    BY <1>3 DEF LiveXids
  <2> QED BY <1>2, <2>1, <2>2, AnyIs DEF RunWriter
<1>5. ASSUME NEW r \in Ids, RunWriter[r] # NoXid
      PROVE  RunWriter[r] \in LiveXids /\ xm[RunWriter[r]].run = r
  <2>1. RunWriter[r] \in {x \in LiveXids : xm[x].run = r}
    BY <1>5, AnyIs DEF RunWriter
  <2> QED BY <2>1
<1>6. OpenRuns \in SUBSET Ids
  <2>1. \A j \in InState(queue, Unfinished) : queue[j].run \in Ids
    BY <1>1, RowFacts, RunIsId DEF InState
  <2> QED BY <2>1 DEF OpenRuns
<1> QED BY <1>1, <1>3, <1>4, <1>5, <1>6 DEF WritersAre

\* The same after a step.
LEMMA WritersThen == WriterInv' => WritersAre'
BY WritersNow, PTL

\* The writers are maps from the runs.
LEMMA RunWriterMaps == RunWriter \in [Ids -> {RunWriter[r] : r \in Ids}]
                       /\ RunWriter' \in [Ids -> {RunWriter'[r] : r \in Ids}]
BY DEF RunWriter

\* A step that leaves the experiments of a run alone leaves its writer alone.
LEMMA SameWriter ==
  ASSUME NEW r \in Ids,
         {x \in LiveXids : xm[x].run = r}' = {x \in LiveXids : xm[x].run = r}
  PROVE  RunWriter'[r] = RunWriter[r]
BY DEF RunWriter

\* One that leaves them all alone leaves all writers alone.
LEMMA WritersSame ==
  ASSUME LiveXids' = LiveXids, \A x \in LiveXids : xm'[x].run = xm[x].run
  PROVE  RunWriter' = RunWriter
<1>1. \A r \in Ids : RunWriter'[r] = RunWriter[r]
  <2>1. SUFFICES ASSUME NEW r \in Ids PROVE RunWriter'[r] = RunWriter[r]
    OBVIOUS
  <2>2. {x \in LiveXids : xm[x].run = r}' = {x \in LiveXids : xm[x].run = r}
    OBVIOUS
  <2> QED BY <2>2, SameWriter
<1> QED BY <1>1, RunWriterMaps

\* An experiment that joins the live ones is the writer of its run, which had none.
LEMMA WriterComes ==
  ASSUME WritersAre, WritersAre', NEW x \in Xids, x \notin LiveXids,
         LiveXids' = LiveXids \cup {x}, \A y \in LiveXids : xm'[y].run = xm[y].run
  PROVE  LET r == xm'[x].run IN
         r \in Ids /\ RunWriter[r] = NoXid /\ RunWriter' = [RunWriter EXCEPT ![r] = x]
<1> DEFINE r == xm'[x].run
<1>1. x \in LiveXids' /\ OneWriter'
  BY DEF WritersAre
<1>2. r \in Ids /\ RunWriter'[r] = x
  BY <1>1 DEF WritersAre
<1>3. \A y \in LiveXids : xm[y].run # r
  BY <1>1 DEF OneWriter
<1>4. RunWriter[r] = NoXid
  BY <1>2, <1>3 DEF WritersAre
<1>5. ASSUME NEW q \in Ids, q # r
      PROVE  RunWriter'[q] = RunWriter[q]
  <2>1. {y \in LiveXids : xm[y].run = q}' = {y \in LiveXids : xm[y].run = q}
    BY <1>5
  <2> QED BY <2>1, SameWriter
<1> HIDE DEF r
<1>6. RunWriter' = [RunWriter EXCEPT ![r] = x]
  BY <1>2, <1>5, RunWriterMaps
<1> QED BY <1>2, <1>4, <1>6 DEF r

\* One that leaves them leaves its run without a writer.
LEMMA WriterGoes ==
  ASSUME WritersAre, NEW x \in LiveXids,
         LiveXids' = LiveXids \ {x}, \A y \in LiveXids' : xm'[y].run = xm[y].run
  PROVE  LET r == xm[x].run IN
         r \in Ids /\ RunWriter[r] # NoXid /\ RunWriter' = [RunWriter EXCEPT ![r] = NoXid]
<1>0. PICK r : r = xm[x].run
  OBVIOUS
<1>1. OneWriter /\ r \in Ids /\ RunWriter[r] = x /\ x # NoXid
  BY <1>0 DEF WritersAre
<1>2. {y \in LiveXids : xm[y].run = r}' = {}
  BY <1>0, <1>1 DEF OneWriter
<1>3. RunWriter'[r] = NoXid
  BY <1>1, <1>2, AnyIs DEF RunWriter
<1>4. ASSUME NEW q \in Ids, q # r
      PROVE  RunWriter'[q] = RunWriter[q]
  <2>1. {y \in LiveXids : xm[y].run = q}' = {y \in LiveXids : xm[y].run = q}
    BY <1>0, <1>4
  <2> QED BY <2>1, SameWriter
<1>5. RunWriter' = [RunWriter EXCEPT ![r] = NoXid]
  BY <1>1, <1>3, <1>4, RunWriterMaps
<1> QED BY <1>0, <1>1, <1>5

\* Such a step is a launch, an end, or leaves the writers alone.
LEMMA ChangeRefines ==
  ASSUME WritersAre, WritersAre', UNCHANGED queue, NEW x \in Xids, Changes(x)
  PROVE  [AsRuns!Next]_<<OpenRuns, RunWriter, Launched>>
<1>0. OpenRuns' = OpenRuns
  BY DEF OpenRuns
<1>1. \A y \in Xids : y # x => (y \in LiveXids' <=> y \in LiveXids) /\ xm'[y].run = xm[y].run
                               /\ (y \in Launched' <=> y \in Launched)
  BY DEF Changes, LiveXids, Launched
<1>2. LiveXids \subseteq Xids /\ LiveXids' \subseteq Xids /\ Launched \subseteq Xids /\ Launched' \subseteq Xids
  BY DEF LiveXids, Launched
<1>3. /\ x \in LiveXids <=> xm[x].state \in Alive
      /\ x \in LiveXids' <=> xm'[x].state \in Alive
      /\ x \in Launched <=> xm[x].state \notin {"none", "empty"}
      /\ x \in Launched' <=> xm'[x].state \notin {"none", "empty"}
  BY DEF LiveXids, Launched
<1>4. CASE \/ xm[x].state \in {"none", "empty"} /\ xm'[x].state \in {"none", "empty"}
           \/ xm[x].state \in Alive /\ xm'[x].state \in Alive /\ xm'[x].run = xm[x].run
  <2>0. (x \in LiveXids' <=> x \in LiveXids) /\ (x \in Launched' <=> x \in Launched)
    BY <1>3, <1>4 DEF Alive
  <2>1. LiveXids' = LiveXids /\ Launched' = Launched
    BY <1>1, <1>2, <2>0
  <2>2. \A y \in LiveXids : xm'[y].run = xm[y].run
    BY <1>1, <1>2, <1>3, <1>4 DEF Alive
  <2>3. RunWriter' = RunWriter
    BY <2>1, <2>2, WritersSame
  <2> QED BY <1>0, <2>1, <2>3
<1>5. CASE xm[x].state = "empty" /\ xm'[x].state \in Alive /\ xm'[x].run = xm[x].run
  <2>1. x \notin LiveXids /\ LiveXids' = LiveXids \cup {x}
    BY <1>1, <1>2, <1>3, <1>5 DEF Alive
  <2>2. x \notin Launched /\ Launched' = Launched \cup {x}
    BY <1>1, <1>2, <1>3, <1>5 DEF Alive
  <2>3. \A y \in LiveXids : xm'[y].run = xm[y].run
    BY <1>1, <1>2, <2>1
  <2> DEFINE r == xm'[x].run
  <2>4. r \in Ids /\ RunWriter[r] = NoXid /\ RunWriter' = [RunWriter EXCEPT ![r] = x]
    BY <2>1, <2>3, WriterComes
  <2>5. r \in OpenRuns
    <3>1. x \in LiveXids'
      BY <2>1
    <3> QED BY <1>0, <3>1 DEF WritersAre
  <2> HIDE DEF r
  <2>6. AsRuns!Launch(r, x)
    BY <1>0, <2>2, <2>4, <2>5 DEF AsRuns!Launch
  <2> QED BY <2>4, <2>6 DEF AsRuns!Next
<1>6. CASE xm[x].state \in Alive /\ xm'[x].state \in {"completed", "stopped"}
  <2>0. x \in LiveXids /\ x \notin LiveXids' /\ x \in Launched /\ x \in Launched'
    BY <1>3, <1>6 DEF Alive
  <2>1. x \in LiveXids /\ LiveXids' = LiveXids \ {x} /\ Launched' = Launched
    BY <1>1, <1>2, <2>0
  <2>2. \A y \in LiveXids' : xm'[y].run = xm[y].run
    BY <1>1, <1>2, <2>1
  <2> DEFINE r == xm[x].run
  <2>3. r \in Ids /\ RunWriter[r] # NoXid /\ RunWriter' = [RunWriter EXCEPT ![r] = NoXid]
    BY <2>1, <2>2, WriterGoes
  <2> HIDE DEF r
  <2>4. AsRuns!End(r)
    BY <1>0, <2>1, <2>3 DEF AsRuns!End
  <2> QED BY <2>3, <2>4 DEF AsRuns!Next
<1> QED BY <1>4, <1>5, <1>6 DEF Changes

\* A step that leaves XManager alone may open or close runs, but none that is written.
LEMMA TurnRefines ==
  ASSUME WritersAre, WritersAre', UNCHANGED xm
  PROVE  AsRuns!Next
<1>1. LiveXids' = LiveXids /\ Launched' = Launched
  BY DEF LiveXids, Launched
<1>2. RunWriter' = RunWriter
  BY <1>1, WritersSame
<1>3. OpenRuns' \in SUBSET Ids
  BY DEF WritersAre
<1>4. ASSUME NEW r \in Ids, RunWriter[r] # NoXid
      PROVE  r \in OpenRuns'
  <2>1. RunWriter[r] \in LiveXids' /\ xm'[RunWriter[r]].run = r
    BY <1>1, <1>4 DEF WritersAre
  <2>2. \A x \in LiveXids' : xm'[x].run \in OpenRuns'
    BY DEF WritersAre
  <2> QED BY <2>1, <2>2
<1>5. AsRuns!Turn
  BY <1>1, <1>2, <1>3, <1>4 DEF AsRuns!Turn
<1> QED BY <1>5 DEF AsRuns!Next

\* At first there are no runs.
LEMMA InitRuns == Init => AsRuns!Init
<1> SUFFICES ASSUME Init PROVE AsRuns!Init
  OBVIOUS
<1>1. \A j \in Ids : ~IsRow(queue[j])
  BY RowFacts DEF Init, NoCopy
<1>2. \A x \in Xids : xm[x].state = "none"
  BY DEF Init, NoExperiment
<1>3. OpenRuns = {} /\ LiveXids = {} /\ Launched = {}
  BY <1>1, <1>2 DEF OpenRuns, InState, LiveXids, Launched, Alive
<1>4. RunWriter = [r \in Ids |-> NoXid]
  BY <1>3, AnyIs DEF RunWriter
<1> QED BY <1>3, <1>4 DEF AsRuns!Init

\* Refinement: the queue file, the snapshots merged back into it, builds, crashes,
\* cancels and restarts together do nothing to a run but launch an experiment for it when
\* it is open and has no writer, end that writer, and close it when it has none; and no
\* experiment is launched twice.
THEOREM RunsImplemented ==
  ASSUME Safe
  PROVE  Spec => ImplementsRuns
<1>1. WriterInv /\ [Next]_vars => WriterInv'
  BY StepWriter
<1>2. WriterInv /\ WriterInv' /\ [Next]_vars => [AsRuns!Next]_<<OpenRuns, RunWriter, Launched>>
  BY StepChanges, ChangeRefines, TurnRefines, WritersNow, WritersThen DEF OneChange
<1> QED BY <1>1, <1>2, InitWriter, InitRuns, PTL DEF Spec, ImplementsRuns, AsRuns!Spec
=============================================================================
