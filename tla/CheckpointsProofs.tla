--------------------------- MODULE CheckpointsProofs ---------------------------
(***************************************************************************)
(* Theorems about Checkpoints, for any number of experiments, steps and    *)
(* sweeps and any limits, under whatever faults each of them names.        *)
(***************************************************************************)
EXTENDS Checkpoints, WellFoundedInduction, TLAPS

-----------------------------------------------------------------------------
(* What the helpers return, and the types.                                 *)

\* What an output directory holds.
Directory == [step : [Steps -> Files], peak : Files]

\* A set of steps that is not empty has a greatest one, and that is what Greatest returns.
LEMMA GreatestIs ==
  ASSUME NEW n \in Nat, NEW S \in SUBSET (1..n), S # {}
  PROVE  Greatest(S) \in S /\ \A t \in S : t <= Greatest(S)
<1> DEFINE Above == {m \in Nat : \A t \in S : t <= m}
<1>1. n \in Above
  BY SMT
<1>2. PICK m \in Above : \A k \in Above : <<k, m>> \notin OpToRel(<, Nat)
  <2>1. Above \subseteq Nat /\ Above # {}
    BY <1>1
  <2> HIDE DEF Above
  <2>2. QED
    BY <2>1, NatLessThanWellFounded, WFMin, Zenon
<1>3. \A k \in Above : ~(k < m)
  BY <1>2, Zenon DEF OpToRel
<1>4. m \in S
  <2>1. SUFFICES ASSUME m \notin S PROVE FALSE
    OBVIOUS
  <2>2. PICK e \in S : TRUE
    OBVIOUS
  <2>3. e \in 1..n /\ e <= m /\ m \in Nat
    BY SMT
  <2>4. m - 1 \in Above
    <3>1. m - 1 \in Nat
      BY <2>3, SMT
    <3>2. ASSUME NEW t \in S PROVE t <= m - 1
      BY <2>1, <2>3, SMT
    <3>3. QED
      BY <3>1, <3>2
  <2>5. QED
    BY <1>3, <2>3, <2>4, SMT
<1>5. \E s \in S : \A t \in S : t <= s
  BY <1>4
<1>6. QED
  BY <1>5, Zenon DEF Greatest

\* The newest complete checkpoint of a directory is one of its complete ones, and 0 only if it
\* has none.
LEMMA NewestIs ==
  ASSUME TypeOK, NEW d \in Dirs
  PROVE  /\ Newest(d) \in 0..MaxStep
         /\ Newest(d) = 0 <=> Complete(d) = {}
         /\ Complete(d) # {} => Newest(d) \in Complete(d)
         /\ \A s \in Complete(d) : s <= Newest(d)
<1>1. Complete(d) \in SUBSET (1..MaxStep)
  BY DEF Complete, Steps
<1>2. MaxStep \in Nat
  BY CheckpointsConstantsOK
<1>3. CASE Complete(d) = {}
  BY <1>1, <1>2, <1>3, SMT DEF Newest
<1>4. CASE Complete(d) # {}
  <2>1. /\ Greatest(Complete(d)) \in Complete(d)
        /\ \A s \in Complete(d) : s <= Greatest(Complete(d))
    BY <1>1, <1>2, <1>4, GreatestIs
  <2>2. QED
    BY <1>1, <1>2, <1>4, <2>1, SMT DEF Newest
<1>5. QED
  BY <1>3, <1>4

\* What _latest_complete_checkpoint returns is a checkpoint of the directory it looked in, or none.
LEMMA FoundTyped ==
  ASSUME TypeOK, NEW d \in Dirs
  PROVE  Found(d) \in Checkpoint /\ Found(d).dir \in {0, d}
  BY NewestIs, CheckpointsConstantsOK, SMT DEF Found, NoCkpt, Checkpoint, Dirs

\* No checkpoint is written like one.
LEMMA NoCkptTyped == NoCkpt \in Checkpoint
  BY CheckpointsConstantsOK, SMT DEF NoCkpt, Checkpoint, Dirs

\* note_known_checkpoint changes what is known and nothing else.
LEMMA NoteIs ==
  ASSUME NEW r \in Row, NEW c \in Checkpoint
  PROVE  /\ Note(r, c) \in Row
         /\ Note(r, c) = r \/ Note(r, c) = [r EXCEPT !.known = c]
         /\ Note(r, c).resumes = r.resumes
  BY Zenon DEF Note, Row

\* _apply_resume_pointer leaves a row.
LEMMA ApplyPointerIs ==
  ASSUME NEW r \in Row, NEW c \in Checkpoint
  PROVE  /\ ApplyPointer(r, c) \in Row
<1>1. [r EXCEPT !.pointer = c, !.key = Key] \in Row
  BY Zenon DEF Row, Key, Keys
<1>2. QED
  BY <1>1, Zenon DEF ApplyPointer

\* A restart within the limit leaves a row.
LEMMA ResumedTyped ==
  ASSUME NEW r \in Row, ~(r.resumes >= MaxAutoResumes)
  PROVE  Resumed(r) \in Row
<1>1. r.resumes + 1 \in 0..MaxAutoResumes /\ 0 \in 0..CnsReadMax /\ NoXid \in Dirs
  BY CheckpointsConstantsOK, SMT DEF Row, NoXid, Dirs
<1>2. QED
  BY <1>1, Zenon DEF Row, Resumed

\* The ways in which the actions change a job leave a job.
LEMMA JobEx ==
  ASSUME NEW j \in Job, NEW b \in BOOLEAN, NEW n \in 0..MaxStep, NEW m \in 0..Threshold
  PROVE  /\ [j EXCEPT !.trained = TRUE] \in Job
         /\ [j EXCEPT !.writing = "step"] \in Job
         /\ [j EXCEPT !.alive = FALSE, !.preempted = b] \in Job
         /\ [j EXCEPT !.writing = "nothing", !.at = n, !.restarts = m] \in Job
  BY Zenon DEF Job

\* The three states of a file.
LEMMA FilesAre == "none" \in Files /\ "torn" \in Files /\ "complete" \in Files
  BY DEF Files

\* One step of one directory is written, and nothing else is.
LEMMA DiskPut ==
  ASSUME TypeOK, NEW d \in Dirs, NEW s \in Steps, NEW v \in Files
  PROVE  /\ [disk EXCEPT ![d].step[s] = v] \in [Dirs -> Directory]
         /\ \A e \in Dirs, t \in Steps : [disk EXCEPT ![d].step[s] = v][e].step[t] = IF e = d /\ t = s THEN v ELSE disk[e].step[t]
  BY SMT DEF TypeOK, Directory

\* A directory's peak is written, and none of its steps is.
LEMMA PeakPut ==
  ASSUME TypeOK, NEW d \in Dirs, NEW v \in Files
  PROVE  /\ [disk EXCEPT ![d].peak = v] \in [Dirs -> Directory]
         /\ \A e \in Dirs, t \in Steps : [disk EXCEPT ![d].peak = v][e].step[t] = disk[e].step[t]
  BY SMT DEF TypeOK, Directory

\* A save under way is of a step within the bound.
BelowLimit == job.writing = "step" => job.at < MaxStep

\* A read of the evidence finds what the listing finds, or nothing.
LEMMA EvidenceTyped ==
  ASSUME TypeOK, NEW ev \in Evidence
  PROVE  /\ ev.found \in Checkpoint
         /\ ev.ok \in BOOLEAN
         /\ ev.found = NoCkpt \/ ev.found = Found(job.out)
<1>1. job.out \in Dirs
  BY DEF TypeOK, Job
<1>2. Found(job.out) \in Checkpoint
  BY <1>1, FoundTyped
<1>4. \/ ev = FailedRead \/ ev = NothingRead
      \/ \E log : ev = Read(TRUE, Found(job.out), log.bug, log.trained)
  BY Zenon DEF Evidence
<1>5. \A bug, trained : /\ Read(TRUE, Found(job.out), bug, trained).found = Found(job.out)
                        /\ Read(TRUE, Found(job.out), bug, trained).ok = TRUE
  BY Zenon DEF Read
<1>6. /\ FailedRead.found = NoCkpt /\ FailedRead.ok = FALSE
      /\ NothingRead.found = NoCkpt /\ NothingRead.ok = TRUE
  BY Zenon DEF FailedRead, NothingRead, Read
<1>7. QED
  BY <1>2, <1>4, <1>5, <1>6, NoCkptTyped, Zenon

\* A failed read leaves a row, its count within the limit.
LEMMA CountUnreadTyped ==
  ASSUME NEW r \in Row
  PROVE  CountUnread(r) \in Row
<1>1. (IF r.unread < CnsReadMax THEN r.unread + 1 ELSE r.unread) \in 0..CnsReadMax
  BY CheckpointsConstantsOK, SMT DEF Row
<1>2. QED
  BY <1>1, Zenon DEF Row, CountUnread

\* The row as a decision sees it is a row, restarted as often as before.
LEMMA JudgedTyped ==
  ASSUME TypeOK, NEW ev \in Evidence
  PROVE  Judged(ev) \in Row /\ Judged(ev).resumes = row.resumes
<1>0. row \in Row
  BY DEF TypeOK
<1>1. row \in Row /\ ev.found \in Checkpoint /\ 0 \in 0..CnsReadMax
  BY <1>0, EvidenceTyped, CheckpointsConstantsOK
<1>2. \A r \in Row : [r EXCEPT !.unread = 0] \in Row /\ [r EXCEPT !.unread = 0].resumes = r.resumes
  BY <1>1, Zenon DEF Row
<1>3. Note(row, ev.found) \in Row /\ Note(row, ev.found).resumes = row.resumes
  BY <1>1, NoteIs
<1>4. CountUnread(row) \in Row /\ CountUnread(row).resumes = row.resumes
  BY <1>1, CountUnreadTyped, Zenon DEF Row, CountUnread
<1>5. QED
  BY <1>2, <1>3, <1>4, Zenon DEF Judged

\* What a restart would resume from is a checkpoint, or none.
LEMMA ChosenTyped ==
  ASSUME TypeOK, NEW r \in Row, NEW ev \in Evidence
  PROVE  Chosen(r, ev) \in Checkpoint
<1>1. ev.found \in Checkpoint
  BY EvidenceTyped
<1>2. r.known \in Checkpoint /\ r.pointer \in Checkpoint
  BY DEF Row
<1>3. QED
  BY <1>1, <1>2, Zenon DEF Chosen, Pick

\* The steps of a run keep the types.
LEMMA RunsTyped == ASSUME TypeOK, BelowLimit, Runs PROVE TypeOK' /\ BelowLimit'
<1> USE CheckpointsConstantsOK
<1>0. job \in Job /\ row \in Row /\ disk \in [Dirs -> Directory]
  BY DEF TypeOK, Directory
<1>1. CASE Launch
  <2>1. /\ job.xid + 1 \in Dirs /\ 0 \in Dirs
        /\ Progress(row.pointer) \in 0..MaxStep /\ row.pointer.dir \in Dirs
    <3>1. job.xid \in Dirs /\ row.pointer \in Checkpoint
      BY <1>0, Zenon DEF Job, Row
    <3>2. job.xid < MaxXid
      BY <1>1 DEF Launch
    <3>3. QED
      BY <3>1, <3>2, SMT DEF Dirs, Progress, Checkpoint
  <2>2. [row EXCEPT !.state = "running", !.xid = job.xid + 1] \in Row
    BY <1>0, <2>1, Zenon DEF Row
  <2>3. ASSUME NEW there \in BOOLEAN, NEW out \in Dirs, NEW at \in 0..MaxStep
        PROVE  /\ [NoJob EXCEPT !.xid = job.xid + 1, !.alive = there, !.bug = ~there, !.out = out, !.at = at] \in Job
               /\ [NoJob EXCEPT !.xid = job.xid + 1, !.alive = there, !.bug = ~there, !.out = out, !.at = at].writing = "nothing"
    <3>1. 0 \in 0..Threshold
      BY SMT
    <3>2. QED
      BY <2>1, <3>1, Zenon DEF Job, NoJob, NoXid
  <2>4. job' \in Job /\ job'.writing = "nothing"
    <3> DEFINE c == row.pointer
               there == c = NoCkpt \/ Stored(c)
               inside == c # NoCkpt /\ layout = "elt" /\ row.key = "load_from"
               out == IF inside THEN c.dir ELSE job.xid + 1
    <3>1. job' = [NoJob EXCEPT !.xid = job.xid + 1, !.alive = there, !.bug = ~there,
                               !.out = out, !.at = Progress(c)]
      BY <1>1, Zenon DEF Launch
    <3>2. there \in BOOLEAN /\ out \in Dirs
      BY <2>1, Zenon DEF Stored
    <3> HIDE DEF there, out
    <3>3. QED
      BY <2>1, <2>3, <3>1, <3>2, ZenonT(40)
  <2>5. QED
    BY <1>1, <2>2, <2>4, Zenon DEF Launch, TypeOK, BelowLimit
<1>2. CASE Train
  <2>1. job' \in Job /\ job'.writing = job.writing /\ job'.at = job.at
    BY <1>0, <1>2, Zenon DEF Train, Job
  <2>2. QED
    BY <1>2, <2>1, Zenon DEF Train, TypeOK, BelowLimit
<1>3. CASE BeginSave
  <2>1. job.out \in Dirs /\ job.at + 1 \in Steps
    BY <1>0, <1>3, SMT DEF BeginSave, Job, Steps
  <2>2. disk' \in [Dirs -> Directory]
    BY <1>3, <2>1, FilesAre, DiskPut, Zenon DEF BeginSave
  <2>3. job' \in Job /\ job'.at = job.at
    BY <1>0, <1>3, JobEx, ZenonT(40) DEF BeginSave, Job
  <2>4. QED
    BY <1>3, <2>2, <2>3, Zenon DEF BeginSave, TypeOK, BelowLimit, Directory
<1>4. CASE EndSave
  <2>1. job.out \in Dirs /\ job.at + 1 \in Steps /\ job.at + 1 \in 0..MaxStep
    BY <1>0, <1>4, SMT DEF EndSave, Job, Steps, BelowLimit
  <2>2. disk' \in [Dirs -> Directory]
    <3> DEFINE saved == [disk EXCEPT ![job.out].step[job.at + 1] = "complete"]
    <3>1. saved \in [Dirs -> Directory]
      BY <2>1, FilesAre, DiskPut, Zenon
    <3>2. CASE disk' = saved
      BY <3>1, <3>2
    <3>3. CASE disk' = [saved EXCEPT ![job.out].step = [s \in Steps |-> IF s < job.at + 1 THEN "none" ELSE saved[job.out].step[s]]]
      <4> HIDE DEF saved
      <4>1. [s \in Steps |-> IF s < job.at + 1 THEN "none" ELSE saved[job.out].step[s]] \in [Steps -> Files]
        BY <2>1, <3>1, SMT DEF Directory, Files
      <4>2. QED
        BY <2>1, <3>1, <3>3, <4>1, SMT DEF Directory
    <3>4. QED
      BY <1>4, <3>2, <3>3 DEF EndSave
  <2>3. job' = [job EXCEPT !.writing = "nothing", !.at = job.at + 1, !.restarts = 0] /\ 0 \in 0..Threshold
    BY <1>4, SMT DEF EndSave
  <2>4. job' \in Job /\ job'.writing # "step"
    BY <1>0, <2>1, <2>3, JobEx, ZenonT(40) DEF Job
  <2>5. QED
    BY <1>4, <2>2, <2>4, Zenon DEF EndSave, TypeOK, BelowLimit, Directory
<1>5. CASE BeginPeak
  <2>1. disk' \in [Dirs -> Directory]
    <3>1. job.out \in Dirs
      BY <1>0 DEF Job
    <3>2. QED
      BY <3>1, <1>5, FilesAre, PeakPut, Zenon DEF BeginPeak
  <2>2. job' \in Job /\ job'.writing # "step"
    BY <1>0, <1>5, Zenon DEF BeginPeak, Job
  <2>3. QED
    BY <1>5, <2>1, <2>2, Zenon DEF BeginPeak, TypeOK, BelowLimit, Directory
<1>6. CASE EndPeak
  <2>1. disk' \in [Dirs -> Directory]
    <3>1. job.out \in Dirs
      BY <1>0 DEF Job
    <3>2. QED
      BY <3>1, <1>6, FilesAre, PeakPut, Zenon DEF EndPeak
  <2>2. job' \in Job /\ job'.writing # "step"
    BY <1>0, <1>6, Zenon DEF EndPeak, Job
  <2>3. QED
    BY <1>6, <2>1, <2>2, Zenon DEF EndPeak, TypeOK, BelowLimit, Directory
<1>7. CASE Bounce
  <2> DEFINE at == IF Complete(job.out) # {} THEN Newest(job.out) ELSE Progress(row.pointer)
             m == IF job.restarts < Threshold THEN job.restarts + 1 ELSE job.restarts
  <2>1. at \in 0..MaxStep
    BY <1>0, NewestIs, SMT DEF Job, Row, Progress, Checkpoint
  <2>2. m \in 0..Threshold
    BY <1>0, SMT DEF Job
  <2>3. job' = [job EXCEPT !.writing = "nothing", !.at = at, !.restarts = m]
    BY <1>7, Zenon DEF Bounce
  <2> HIDE DEF at, m
  <2>4. job' \in Job /\ job'.writing # "step"
    BY <1>0, <2>1, <2>2, <2>3, JobEx, ZenonT(40) DEF Job
  <2>5. QED
    BY <1>7, <2>4, Zenon DEF Bounce, TypeOK, BelowLimit
<1>8. CASE Die
  <2>1. job' \in Job /\ job'.writing = job.writing /\ job'.at = job.at
    BY <1>0, <1>8, ZenonT(40) DEF Die, Job
  <2>2. QED
    BY <1>8, <2>1, Zenon DEF Die, TypeOK, BelowLimit
<1>9. QED
  BY <1>1, <1>2, <1>3, <1>4, <1>5, <1>6, <1>7, <1>8 DEF Runs

\* _apply_resume_pointer changes the pointer and its key only.
LEMMA ApplyPointerKeeps ==
  ASSUME NEW r \in Row, NEW c \in Checkpoint
  PROVE  /\ ApplyPointer(r, c).resumes = r.resumes
         /\ ApplyPointer(r, c).state = r.state
         /\ ApplyPointer(r, c).xid = r.xid
         /\ ApplyPointer(r, c).known = r.known
  BY Zenon DEF ApplyPointer, Row

\* Both restarts leave a row.
LEMMA WarmTyped ==
  ASSUME NEW r \in Row, NEW c \in Checkpoint, ~(r.resumes >= MaxAutoResumes)
  PROVE  Warm(r, c) \in Row /\ Cold(r) \in Row
<1>1. Warm(r, c) \in Row
  <2>1. ApplyPointer(r, c) \in Row /\ ApplyPointer(r, c).resumes = r.resumes
    BY ApplyPointerIs, ApplyPointerKeeps
  <2>2. QED
    BY <2>1, ResumedTyped DEF Warm
<1>2. Cold(r) \in Row
  <2>1. Resumed(r) \in Row
    BY ResumedTyped
  <2>2. QED
    BY <2>1, NoCkptTyped, Zenon DEF Cold, Row
<1>3. QED
  BY <1>1, <1>2

\* A reroute leaves a row.
LEMMA ReroutedTyped ==
  ASSUME TypeOK, NEW r \in Row
  PROVE  Rerouted(r) \in Row
<1>1. 0 \in 0..CnsReadMax /\ NoXid \in Dirs
  BY CheckpointsConstantsOK, SMT DEF NoXid, Dirs
<1>2. (r.struck \/ move.thrash) \in BOOLEAN
  BY DEF TypeOK
<1>3. QED
  BY <1>1, <1>2, Zenon DEF Row, Rerouted

\* A reroute that carries a checkpoint leaves a row.
LEMMA WarmInPlaceTyped ==
  ASSUME NEW r \in Row, NEW c \in Checkpoint
  PROVE  WarmInPlace(r, c) \in Row
<1>1. ApplyPointer(r, c) \in Row
  BY ApplyPointerIs
<1>2. \A n \in 0..MaxAutoResumes : (IF n < MaxAutoResumes THEN n + 1 ELSE n) \in 0..MaxAutoResumes
  BY CheckpointsConstantsOK, SMT
<1>3. QED
  BY <1>1, <1>2, Zenon DEF WarmInPlace, Row

\* The outcomes of a settlement change the row alone, and leave a row.
LEMMA SettleTyped ==
  ASSUME TypeOK, BelowLimit, NEW ev \in Evidence, NEW sibling \in BOOLEAN,
         Postpone(ev) \/ RestartWarm(ev, sibling) \/ RestartCold(ev, sibling) \/ Bury(ev, sibling)
  PROVE  row' \in Row /\ UNCHANGED <<layout, disk, job, move, gc, sweeps>>
<1>1. row \in Row
  BY DEF TypeOK
<1>2. UNCHANGED <<layout, disk, job, move, gc, sweeps>>
  BY DEF Postpone, RestartWarm, RestartCold, Bury, Settle
<1>3. CASE Postpone(ev)
  BY <1>1, <1>2, <1>3, CountUnreadTyped DEF Postpone
<1>4. ASSUME Verdict(ev, sibling) # "hold"
      PROVE  ~(Judged(ev).resumes >= MaxAutoResumes)
  <2>1. ASSUME NEW spent \in BOOLEAN, spent
        PROVE  Plan(Judged(ev), ev, sibling, spent) = "hold"
    BY <2>1, SMT DEF Plan
  <2>2. (row.resumes >= MaxAutoResumes) \in BOOLEAN
    OBVIOUS
  <2>3. ~(row.resumes >= MaxAutoResumes)
    BY <1>4, <2>1, <2>2, Zenon DEF Verdict
  <2>4. QED
    BY <2>3, JudgedTyped
<1>5. Judged(ev) \in Row /\ Chosen(Judged(ev), ev) \in Checkpoint
  BY JudgedTyped, ChosenTyped
<1>6. CASE RestartWarm(ev, sibling)
  BY <1>2, <1>4, <1>5, <1>6, WarmTyped DEF RestartWarm
<1>7. CASE RestartCold(ev, sibling)
  BY <1>2, <1>4, <1>5, <1>7, WarmTyped DEF RestartCold
<1>8. CASE Bury(ev, sibling)
  BY <1>2, <1>5, <1>8, Zenon DEF Bury, Row
<1>9. QED
  BY <1>3, <1>6, <1>7, <1>8

\* A reroute under way.
Move == [pc : {"idle", "cancel"}, warm : Checkpoint, thrash : BOOLEAN]

\* The read before a reroute leaves a row and a reroute under way.
LEMMA RerouteReadTyped ==
  ASSUME TypeOK, BelowLimit, NEW ev \in Evidence, NEW sibling \in BOOLEAN,
         NEW thrash \in BOOLEAN, RerouteRead(ev, sibling, thrash)
  PROVE  row' \in Row /\ move' \in Move
<1>1. row \in Row /\ move \in Move
  BY DEF TypeOK, Move
<1>2. CASE ev.ok
  <2> DEFINE r == Note(row, ev.found)
  <2>1. r \in Row
    BY <1>1, EvidenceTyped, NoteIs
  <2>2. Chosen(r, ev) \in Checkpoint
    BY <2>1, ChosenTyped
  <2> DEFINE warm == IF Plan(r, ev, sibling, FALSE) = "warm" THEN Chosen(r, ev) ELSE NoCkpt
  <2>3. row' = r /\ move' = [pc |-> "cancel", thrash |-> thrash, warm |-> warm]
    BY <1>2, Zenon DEF RerouteRead
  <2>4. warm \in Checkpoint
    BY <2>2, NoCkptTyped, Zenon
  <2> HIDE DEF warm, r
  <2>5. QED
    BY <2>1, <2>3, <2>4, Zenon DEF Move
<1>3. CASE ~ev.ok
  BY <1>1, <1>3, CountUnreadTyped, Zenon DEF RerouteRead
<1>4. QED
  BY <1>2, <1>3

\* No reroute is written like one.
LEMMA NoMoveTyped == NoMove \in Move
  BY NoCkptTyped, Zenon DEF NoMove, Move

\* The steps of the loop keep the types.
LEMMA LoopTyped == ASSUME TypeOK, BelowLimit, Loop PROVE TypeOK' /\ BelowLimit'
<1>1. row \in Row /\ move \in Move /\ job \in Job
  BY DEF TypeOK, Move
<1>2. CASE Census
  <2>1. Found(row.xid) \in Checkpoint
    BY <1>1, FoundTyped DEF Row
  <2>2. row' \in Row
    BY <1>1, <1>2, <2>1, NoteIs DEF Census
  <2>3. QED
    BY <1>2, <2>2, Zenon DEF Census, TypeOK, BelowLimit
<1>3. CASE Decide
  <2>1. PICK ev \in Evidence, sibling \in Siblings :
          \/ Postpone(ev) \/ RestartWarm(ev, sibling) \/ RestartCold(ev, sibling) \/ Bury(ev, sibling)
          \/ \E thrash \in BOOLEAN : RerouteRead(ev, sibling, thrash)
    BY <1>3, Zenon DEF Decide
  <2>2. sibling \in BOOLEAN
    BY DEF Siblings
  <2>3. CASE Postpone(ev) \/ RestartWarm(ev, sibling) \/ RestartCold(ev, sibling) \/ Bury(ev, sibling)
    BY <2>2, <2>3, SettleTyped, Zenon DEF TypeOK, BelowLimit
  <2>4. CASE \E thrash \in BOOLEAN : RerouteRead(ev, sibling, thrash)
    <3>1. row' \in Row /\ move' \in Move
      BY <2>2, <2>4, RerouteReadTyped
    <3>2. UNCHANGED <<layout, disk, job, gc, sweeps>>
      BY <2>4, Zenon DEF RerouteRead
    <3>3. QED
      BY <3>1, <3>2, Zenon DEF TypeOK, BelowLimit, Move
  <2>5. QED
    BY <2>1, <2>3, <2>4
<1>4. CASE RerouteCancel
  <2>1. job' \in Job /\ job'.at = job.at /\ job'.writing = job.writing
    BY <1>1, <1>4, Zenon DEF RerouteCancel, Job
  <2>2. Rerouted(row) \in Row
    BY <1>1, ReroutedTyped
  <2>3. Advance(Rerouted(row)) \in Row
    <3>1. Rerouted(row).known \in Checkpoint
      BY <2>2 DEF Row
    <3>2. QED
      BY <2>2, <3>1, ApplyPointerIs DEF Advance
  <2>4. WarmInPlace(Rerouted(row), move.warm) \in Row
    BY <1>1, <2>2, WarmInPlaceTyped DEF Move
  <2>5. row' \in Row /\ move' \in Move
    BY <1>4, <2>3, <2>4, NoMoveTyped, Zenon DEF RerouteCancel
  <2>6. QED
    BY <1>4, <2>1, <2>5, Zenon DEF RerouteCancel, TypeOK, BelowLimit, Move
<1>5. CASE CancelFails
  BY <1>5, NoMoveTyped, Zenon DEF CancelFails, TypeOK, BelowLimit, Move
<1>6. QED
  BY <1>2, <1>3, <1>4, <1>5 DEF Loop

\* A sweep under way.
SweepState == [pc : {"idle", "listed", "doomed"}, dir : Dirs, steps : SUBSET Steps,
               doomed : SUBSET Steps, peak : BOOLEAN]

\* The steps of ckpt_gc keep the types.
LEMMA SweepTyped == ASSUME TypeOK, BelowLimit, Sweep PROVE TypeOK' /\ BelowLimit'
<1>1. gc \in SweepState
  BY DEF TypeOK, SweepState
<1>2. ASSUME NEW d \in Dirs, GcList(d)
      PROVE  TypeOK' /\ BelowLimit'
  <2>1. gc' \in SweepState
    BY <1>2, Zenon DEF GcList, NoSweep, SweepState
  <2>2. sweeps' \in 0..MaxSweeps
    BY <1>2, CheckpointsConstantsOK, SMT DEF GcList, TypeOK
  <2>3. QED
    BY <1>2, <2>1, <2>2, Zenon DEF GcList, TypeOK, BelowLimit, SweepState
<1>3. CASE GcPlan
  <2>1. gc' \in SweepState
    <3>1. PICK complete : gc' = [gc EXCEPT !.pc = "doomed", !.doomed = gc.steps \ Kept(complete),
                                           !.peak = @ /\ disk[gc.dir].peak # "complete"]
      BY <1>3, Zenon DEF GcPlan
    <3>2. gc.steps \ Kept(complete) \in SUBSET Steps
      BY <1>1, Zenon DEF SweepState
    <3>3. (gc.peak /\ disk[gc.dir].peak # "complete") \in BOOLEAN
      OBVIOUS
    <3>4. QED
      BY <1>1, <3>1, <3>2, <3>3, Zenon DEF SweepState
  <2>2. QED
    BY <1>3, <2>1, Zenon DEF GcPlan, TypeOK, BelowLimit, SweepState
<1>4. CASE GcRemove
  <2>1. gc.dir \in Dirs
    BY <1>1 DEF SweepState
  <2>2. ASSUME NEW s \in gc.doomed,
               disk' = [disk EXCEPT ![gc.dir].step[s] = "none"], gc' = [gc EXCEPT !.doomed = @ \ {s}]
        PROVE  gc' \in SweepState /\ disk' \in [Dirs -> Directory]
    <3>1. s \in Steps /\ gc.doomed \ {s} \in SUBSET Steps
      BY <1>1, Zenon DEF SweepState
    <3>2. gc' \in SweepState
      BY <1>1, <2>2, <3>1, Zenon DEF SweepState
    <3>3. QED
      BY <2>1, <2>2, <3>1, <3>2, FilesAre, DiskPut
  <2>3. ASSUME disk' = [disk EXCEPT ![gc.dir].peak = "none"], gc' = [gc EXCEPT !.peak = FALSE]
        PROVE  gc' \in SweepState /\ disk' \in [Dirs -> Directory]
    <3>1. gc' \in SweepState
      BY <1>1, <2>3, Zenon DEF SweepState
    <3>2. QED
      BY <2>1, <2>3, <3>1, FilesAre, PeakPut
  <2>4. QED
    BY <1>4, <2>2, <2>3, Zenon DEF GcRemove, TypeOK, BelowLimit, SweepState, Directory
<1>5. CASE GcEnd
  <2>1. NoSweep \in SweepState
    BY CheckpointsConstantsOK, SMT DEF NoSweep, SweepState, Dirs
  <2>2. QED
    BY <1>5, <2>1, Zenon DEF GcEnd, TypeOK, BelowLimit, SweepState
<1>6. QED
  BY <1>2, <1>3, <1>4, <1>5 DEF Sweep

\* The disk and the row of a run whose user named step o, or none for 0.
StartsAt(o) ==
  /\ disk = [d \in Dirs |->
               [step |-> [s \in Steps |-> IF d = 0 /\ s = o THEN "complete" ELSE "none"],
                peak |-> "none"]]
  /\ row = [state |-> "queued", xid |-> NoXid, pointer |-> [dir |-> 0, step |-> o],
            key |-> Key, known |-> NoCkpt, resumes |-> 0, unread |-> 0,
            struck |-> FALSE]

\* At first every variable has its type.
LEMMA InitTyped == Init => TypeOK /\ BelowLimit
<1> SUFFICES ASSUME Init PROVE TypeOK /\ BelowLimit
  OBVIOUS
<1> USE CheckpointsConstantsOK
<1>1. 0 \in Dirs /\ 0 \in 0..MaxAutoResumes /\ 0 \in 0..CnsReadMax /\ 0 \in 0..Threshold /\ 0 \in 0..MaxSweeps /\ 0 \in 0..MaxStep
  BY SMT DEF Dirs
<1>2. PICK o \in Origins : StartsAt(o)
  BY Zenon DEF Init, StartsAt
<1>3. disk \in [Dirs -> Directory]
  BY <1>2, SMT DEF StartsAt, Directory, Files
<1>4. row \in Row
  <2>1. o \in 0..MaxStep
    OBVIOUS
  <2>2. [dir |-> 0, step |-> o] \in Checkpoint
    BY <1>1, <2>1, Zenon DEF Checkpoint
  <2>3. QED
    BY <1>1, <1>2, <2>2, NoCkptTyped, Zenon DEF StartsAt, Row, Keys, Key, NoXid
<1>5. job \in Job /\ job.writing = "nothing"
  BY <1>1, Zenon DEF Init, NoJob, Job, NoXid
<1>6. gc \in SweepState
  BY <1>1, Zenon DEF Init, NoSweep, SweepState
<1>7. QED
  BY <1>1, <1>3, <1>4, <1>5, <1>6, NoMoveTyped, Zenon DEF Init, TypeOK, BelowLimit, SweepState, Directory, Move

\* Every step keeps the types.
LEMMA TypedStep ==
  ASSUME TypeOK, BelowLimit, [Next]_vars
  PROVE  TypeOK' /\ BelowLimit'
<1>1. ASSUME UNCHANGED vars PROVE TypeOK' /\ BelowLimit'
  BY <1>1, Zenon DEF vars, TypeOK, BelowLimit
<1>2. QED
  BY <1>1, RunsTyped, LoopTyped, SweepTyped DEF Next
-----------------------------------------------------------------------------
(* What each step leaves alone, and where the experiments write.           *)

\* A checkpoint of step 0 is none.
Proper(c) == c.step = 0 => c = NoCkpt

\* The experiments of a run write each in a directory of its own: the newest one in the last that
\* exists, and it started from an earlier one.  Nothing refers to a directory that does not exist.
\* The key half is what keeps an ELT job out of the directory it loads from.
OwnDirectory ==
  /\ job.out = job.xid
  /\ row.key = Key
  /\ job.alive => row.state = "running"
  /\ row.state = "running" => row.xid = job.xid /\ row.pointer.dir < job.xid
  /\ move.pc = "cancel" => row.state = "running"
  /\ \A c \in {row.pointer, row.known, move.warm} : c.dir <= job.xid /\ Proper(c)
  /\ \A d \in Dirs, s \in Steps : d > job.xid => disk[d].step[s] = "none"

\* A step of a run that is not its launch: its experiment, no other directory, not its row.
LEMMA RunFrame ==
  ASSUME TypeOK, BelowLimit, Runs, ~Launch
  PROVE  /\ job.alive /\ job'.xid = job.xid /\ job'.out = job.out
         /\ job.trained => job'.trained
         /\ UNCHANGED <<layout, row, move, gc, sweeps>>
         /\ \A d \in Dirs : d # job.out => disk'[d] = disk[d]
<1>1. job \in Job /\ disk \in [Dirs -> Directory]
  BY DEF TypeOK, Directory
<1>2. job.out \in Dirs
  BY <1>1 DEF Job
<1>3. \A v : \A d \in Dirs : d # job.out => [disk EXCEPT ![job.out] = v][d] = disk[d]
  BY <1>1, <1>2, Zenon
<1>4. CASE Train
  BY <1>1, <1>4, Zenon DEF Train, Job
<1>5. CASE BeginSave
  BY <1>1, <1>3, <1>5, Zenon DEF BeginSave, Job
<1>6. CASE EndSave
  <2>1. /\ job.alive /\ job'.xid = job.xid /\ job'.out = job.out /\ job'.trained = job.trained
        /\ UNCHANGED <<layout, row, move, gc, sweeps>>
    BY <1>1, <1>6, Zenon DEF EndSave, Job
  <2>2. \A d \in Dirs : d # job.out => disk'[d] = disk[d]
    BY <1>1, <1>2, <1>6, SMT DEF EndSave
  <2>3. QED
    BY <2>1, <2>2
<1>7. CASE BeginPeak
  BY <1>1, <1>3, <1>7, Zenon DEF BeginPeak, Job
<1>8. CASE EndPeak
  BY <1>1, <1>3, <1>8, Zenon DEF EndPeak, Job
<1>9. CASE Bounce
  BY <1>1, <1>9, Zenon DEF Bounce, Job
<1>10. CASE Die
  BY <1>1, <1>10, Zenon DEF Die, Job
<1>11. QED
  BY <1>4, <1>5, <1>6, <1>7, <1>8, <1>9, <1>10 DEF Runs

\* What a restart would resume from is the pointer, what is known, or what was just found.
LEMMA PickIs ==
  ASSUME TypeOK, NEW r \in Row, NEW ev \in Evidence
  PROVE  Chosen(r, ev) \in {r.pointer, r.known, ev.found}
  BY Zenon DEF Chosen, Pick

\* _apply_resume_pointer never makes the step less, neither than it was nor than asked.
LEMMA PointerIs ==
  ASSUME NEW r \in Row, NEW c \in Checkpoint
  PROVE  /\ ApplyPointer(r, c).pointer \in {r.pointer, c}
         /\ ApplyPointer(r, c).key \in {r.key, Key}
         /\ ApplyPointer(r, c).pointer.step >= c.step
         /\ ApplyPointer(r, c).pointer.step >= r.pointer.step
<1>1. r.pointer.step \in Nat /\ c.step \in Nat
  BY CheckpointsConstantsOK, SMT DEF Row, Checkpoint
<1>2. CASE c.step >= r.pointer.step
  <2>1. ApplyPointer(r, c).pointer = c /\ ApplyPointer(r, c).key = Key
    BY <1>2, Zenon DEF ApplyPointer, Row
  <2>2. QED
    BY <1>1, <1>2, <2>1, SMT
<1>3. CASE ~(c.step >= r.pointer.step)
  <2>1. ApplyPointer(r, c) = r
    BY <1>3, Zenon DEF ApplyPointer
  <2>2. QED
    BY <1>1, <1>3, <2>1, SMT
<1>4. QED
  BY <1>2, <1>3

\* Two rows resume alike.
Same(r, q) == r.pointer = q.pointer /\ r.key = q.key /\ r.known = q.known

\* What each helper leaves as it was.
LEMMA Keeps ==
  ASSUME NEW r \in Row
  PROVE  /\ Same(Resumed(r), r) /\ Resumed(r).state = "queued"
         /\ Same(CountUnread(r), r) /\ CountUnread(r).state = r.state /\ CountUnread(r).xid = r.xid
         /\ Same(Rerouted(r), r) /\ Rerouted(r).state = "queued"
         /\ Cold(r).pointer = NoCkpt /\ Cold(r).known = NoCkpt /\ Cold(r).key = r.key /\ Cold(r).state = "queued"
         /\ \A v : Same([r EXCEPT !.state = v], r) /\ [r EXCEPT !.state = v].state = v
         /\ \A v : Same([r EXCEPT !.unread = v], r)
  BY Zenon DEF Row, Same, Resumed, CountUnread, Rerouted, Cold

\* note_known_checkpoint keeps the older or takes the newer.
LEMMA KeepsNote ==
  ASSUME NEW r \in Row, NEW c \in Checkpoint
  PROVE  /\ Note(r, c).pointer = r.pointer /\ Note(r, c).key = r.key /\ Note(r, c).state = r.state /\ Note(r, c).xid = r.xid
         /\ Note(r, c).known \in {r.known, c}
  BY Zenon DEF Row, Note

\* A warm restart resumes as _apply_resume_pointer says.
LEMMA KeepsWarm ==
  ASSUME NEW r \in Row, NEW c \in Checkpoint
  PROVE  /\ Same(WarmInPlace(r, c), ApplyPointer(r, c)) /\ WarmInPlace(r, c).state = r.state
         /\ Same(Warm(r, c), ApplyPointer(r, c)) /\ Warm(r, c).state = "queued"
<1>1. ApplyPointer(r, c) \in Row
  BY ApplyPointerIs
<1>2. Same(Warm(r, c), ApplyPointer(r, c)) /\ Warm(r, c).state = "queued"
  BY <1>1, Keeps DEF Warm
<1>3. Same(WarmInPlace(r, c), ApplyPointer(r, c)) /\ WarmInPlace(r, c).state = r.state
  BY <1>1, ApplyPointerKeeps, Zenon DEF WarmInPlace, Same, Row
<1>4. QED
  BY <1>2, <1>3

\* The row as a decision sees it: known is as before, or what was just found.
LEMMA JudgedIs ==
  ASSUME TypeOK, NEW ev \in Evidence
  PROVE  /\ Judged(ev).pointer = row.pointer /\ Judged(ev).key = row.key
         /\ Judged(ev).known \in {row.known, ev.found}
         /\ ~ev.ok => Judged(ev).known = row.known
<1>1. row \in Row /\ ev.found \in Checkpoint
  BY EvidenceTyped DEF TypeOK
<1>2. CASE ev.ok
  <2>1. Note(row, ev.found) \in Row
    BY <1>1, NoteIs
  <2>2. Same(Judged(ev), Note(row, ev.found))
    BY <1>2, <2>1, Keeps, Zenon DEF Judged
  <2>3. QED
    BY <1>1, <1>2, <2>2, KeepsNote, Zenon DEF Same
<1>3. CASE ~ev.ok
  BY <1>1, <1>3, Keeps, Zenon DEF Judged, Same
<1>4. QED
  BY <1>2, <1>3

\* The checkpoints the loop can lay hands on.
Seen == {NoCkpt, row.pointer, row.known, move.warm, Found(job.out)}

\* A decision makes up no checkpoint.
LEMMA ChosenSeen ==
  ASSUME TypeOK, NEW ev \in Evidence
  PROVE  /\ Judged(ev) \in Row /\ Judged(ev).known \in Seen
         /\ Chosen(Judged(ev), ev) \in Seen /\ Chosen(Judged(ev), ev) \in Checkpoint
<1>1. ev.found \in Seen /\ row.known \in Seen /\ row.pointer \in Seen
  BY EvidenceTyped, Zenon DEF Seen
<1>2. Judged(ev) \in Row
  BY JudgedTyped
<1>3. Judged(ev).pointer \in Seen /\ Judged(ev).known \in Seen
  BY <1>1, JudgedIs, Zenon
<1>4. QED
  BY <1>1, <1>2, <1>3, PickIs, ChosenTyped, Zenon

\* The outcomes of a settlement: of a dead job, and with a checkpoint the loop can lay hands on.
LEMMA SettleFrame ==
  ASSUME TypeOK, NEW ev \in Evidence, NEW sibling \in BOOLEAN,
         Postpone(ev) \/ RestartWarm(ev, sibling) \/ RestartCold(ev, sibling) \/ Bury(ev, sibling)
  PROVE  /\ ~job.alive /\ move.pc = "idle" /\ row.state = "running"
         /\ row'.key \in {row.key, Key}
         /\ row'.pointer \in Seen /\ row'.known \in Seen
         /\ row'.state = "running" => row'.xid = row.xid /\ row'.pointer = row.pointer
         /\ UNCHANGED <<layout, disk, job, move, gc, sweeps>>
<1>1. /\ ~job.alive /\ move.pc = "idle" /\ row.state = "running"
      /\ UNCHANGED <<layout, disk, job, move, gc, sweeps>>
  BY DEF Postpone, RestartWarm, RestartCold, Bury, Settle, Watched
<1>2. row \in Row /\ ev.found \in Seen /\ row.known \in Seen /\ row.pointer \in Seen /\ NoCkpt \in Seen
  BY EvidenceTyped, Zenon DEF TypeOK, Seen
<1>3. CASE Postpone(ev)
  BY <1>1, <1>2, <1>3, Keeps, Zenon DEF Postpone, Same
<1> DEFINE q == Judged(ev)
           c == Chosen(q, ev)
<1>4. /\ q \in Row /\ q.pointer = row.pointer /\ q.key = row.key /\ q.known \in Seen
  BY ChosenSeen, JudgedIs, Zenon
<1>5. c \in Seen /\ c \in Checkpoint
  BY ChosenSeen
<1>6. CASE RestartWarm(ev, sibling)
  <2>1. row' = Warm(q, c)
    BY <1>6, Zenon DEF RestartWarm
  <2> HIDE DEF q, c
  <2>2. /\ ApplyPointer(q, c).pointer \in Seen /\ ApplyPointer(q, c).key \in {row.key, Key}
        /\ ApplyPointer(q, c).known \in Seen
    BY <1>2, <1>4, <1>5, PointerIs, ApplyPointerKeeps, Zenon
  <2>3. QED
    BY <1>1, <1>4, <1>5, <2>1, <2>2, KeepsWarm, Zenon DEF Same
<1>7. CASE RestartCold(ev, sibling)
  <2>1. row' = Cold(q)
    BY <1>7, Zenon DEF RestartCold
  <2> HIDE DEF q
  <2>2. QED
    BY <1>1, <1>2, <1>4, <2>1, Keeps, Zenon
<1>8. CASE Bury(ev, sibling)
  <2>1. PICK v \in {"failed", "held"} : row' = [q EXCEPT !.state = v]
    BY <1>8, Zenon DEF Bury
  <2> HIDE DEF q
  <2>2. row'.state = v /\ v # "running" /\ Same(row', q)
    BY <1>4, <2>1, Keeps, Zenon
  <2>3. QED
    BY <1>1, <1>2, <1>4, <2>2, Zenon DEF Same
<1>9. QED
  BY <1>3, <1>6, <1>7, <1>8

\* The read before a reroute: of a live job, and the pointer stays.
LEMMA RerouteReadFrame ==
  ASSUME TypeOK, NEW ev \in Evidence, NEW sibling \in BOOLEAN,
         NEW thrash \in BOOLEAN, RerouteRead(ev, sibling, thrash)
  PROVE  /\ job.alive /\ move.pc = "idle" /\ row.state = "running" /\ row'.state = "running"
         /\ row'.key = row.key /\ row'.pointer = row.pointer /\ row'.known \in Seen
         /\ row'.xid = row.xid /\ move'.warm \in Seen
         /\ UNCHANGED <<layout, disk, job, gc, sweeps>>
<1>1. /\ job.alive /\ move.pc = "idle" /\ row.state = "running"
      /\ UNCHANGED <<layout, disk, job, gc, sweeps>>
  BY Zenon DEF RerouteRead, Watched
<1>2. /\ row \in Row /\ ev.found \in Checkpoint
      /\ ev.found \in Seen /\ row.known \in Seen /\ row.pointer \in Seen /\ NoCkpt \in Seen
      /\ move.warm \in Seen
  BY EvidenceTyped, Zenon DEF TypeOK, Seen
<1>3. CASE ev.ok
  <2> DEFINE r == Note(row, ev.found)
             warm == IF Plan(r, ev, sibling, FALSE) = "warm" THEN Chosen(r, ev) ELSE NoCkpt
  <2>1. row' = r /\ move' = [pc |-> "cancel", thrash |-> thrash, warm |-> warm]
    BY <1>3, Zenon DEF RerouteRead
  <2>2. /\ r \in Row /\ r.pointer = row.pointer /\ r.key = row.key /\ r.state = row.state /\ r.xid = row.xid
        /\ r.known \in {row.known, ev.found}
    BY <1>2, NoteIs, KeepsNote
  <2>3. Chosen(r, ev) \in Seen
    BY <1>2, <2>2, PickIs
  <2>4. warm \in Seen
    BY <1>2, <2>3, Zenon
  <2> HIDE DEF r, warm
  <2>5. QED
    BY <1>1, <1>2, <2>1, <2>2, <2>4, Zenon
<1>4. CASE ~ev.ok
  <2>1. row' = CountUnread(row) /\ UNCHANGED move
    BY <1>4, Zenon DEF RerouteRead
  <2>2. QED
    BY <1>1, <1>2, <2>1, Keeps, Zenon DEF Same
<1>5. QED
  BY <1>3, <1>4

\* The cancel of a reroute: the job is dead and the row queued.
LEMMA RerouteCancelFrame ==
  ASSUME TypeOK, RerouteCancel
  PROVE  /\ ~job'.alive /\ move' = NoMove /\ row'.state = "queued"
         /\ row'.key \in {row.key, Key} /\ row'.pointer \in Seen /\ row'.known = row.known
         /\ job'.xid = job.xid /\ job'.out = job.out /\ job'.trained = job.trained /\ job'.writing = job.writing
         /\ UNCHANGED <<layout, disk, gc, sweeps>>
<1>1. row \in Row /\ job \in Job /\ move \in Move
  BY DEF TypeOK, Move
<1>2. /\ job'.xid = job.xid /\ job'.out = job.out /\ ~job'.alive /\ job'.trained = job.trained /\ job'.writing = job.writing
      /\ move' = NoMove
      /\ UNCHANGED <<layout, disk, gc, sweeps>>
  BY <1>1, Zenon DEF RerouteCancel, Job
<1> DEFINE q == Rerouted(row)
<1>3. /\ q \in Row /\ q.pointer = row.pointer /\ q.key = row.key /\ q.known = row.known
      /\ q.state = "queued" /\ q.known \in Checkpoint /\ move.warm \in Checkpoint
  <2>1. q \in Row
    BY <1>1, ReroutedTyped
  <2>2. QED
    BY <1>1, <2>1, Keeps, Zenon DEF Same, Row, Move
<1>4. row' = WarmInPlace(q, move.warm) \/ row' = Advance(q)
  BY Zenon DEF RerouteCancel
<1> HIDE DEF q
<1>5. \A c \in {move.warm, row.known} :
         /\ ApplyPointer(q, c).pointer \in Seen /\ ApplyPointer(q, c).key \in {row.key, Key}
         /\ ApplyPointer(q, c).known = row.known /\ ApplyPointer(q, c).state = "queued"
  <2> SUFFICES ASSUME NEW c \in {move.warm, row.known}
               PROVE  /\ ApplyPointer(q, c).pointer \in Seen /\ ApplyPointer(q, c).key \in {row.key, Key}
                      /\ ApplyPointer(q, c).known = row.known /\ ApplyPointer(q, c).state = "queued"
    OBVIOUS
  <2>1. c \in Checkpoint /\ c \in Seen /\ row.pointer \in Seen
    BY <1>3, Zenon DEF Seen
  <2>2. ApplyPointer(q, c).pointer \in {q.pointer, c} /\ ApplyPointer(q, c).key \in {q.key, Key}
    BY <1>3, <2>1, PointerIs
  <2>3. ApplyPointer(q, c).known = q.known /\ ApplyPointer(q, c).state = q.state
    BY <1>3, <2>1, ApplyPointerKeeps
  <2>4. QED
    BY <1>3, <2>1, <2>2, <2>3, Zenon
<1>6. CASE row' = WarmInPlace(q, move.warm)
  BY <1>2, <1>3, <1>5, <1>6, KeepsWarm, Zenon DEF Same
<1>7. CASE row' = Advance(q)
  BY <1>2, <1>3, <1>5, <1>7, Zenon DEF Advance, Seen
<1>8. QED
  BY <1>4, <1>6, <1>7

\* The census: nothing but what is known changes, of the directory the job writes in.
LEMMA CensusFrame ==
  ASSUME TypeOK, OwnDirectory, Census
  PROVE  /\ move.pc = "idle" /\ row.state = "running" /\ row'.state = "running"
         /\ row'.key = row.key /\ row'.pointer = row.pointer /\ row'.known \in {row.known, Found(job.out)}
         /\ row'.xid = row.xid
         /\ UNCHANGED <<layout, disk, job, move, gc, sweeps>>
<1>1. row \in Row
  BY DEF TypeOK
<1>2. row.xid \in Dirs /\ row.state = "running"
  BY <1>1 DEF Row, Census, Watched
<1>3. job.out = row.xid
  BY <1>2, Zenon DEF OwnDirectory
<1>4. row' = Note(row, Found(job.out)) /\ Found(job.out) \in Checkpoint
  BY <1>2, <1>3, FoundTyped DEF Census
<1>5. QED
  BY <1>1, <1>4, KeepsNote, Zenon DEF Census, Watched

\* A step of the loop, whichever it is.
LEMMA LoopFrame ==
  ASSUME TypeOK, OwnDirectory, Loop
  PROVE  /\ row.state = "running"
         /\ row'.key = Key
         /\ row'.pointer \in Seen /\ row'.known \in Seen /\ move'.warm \in Seen
         /\ row'.state = "running" => row'.xid = row.xid /\ row'.pointer = row.pointer
         /\ job'.alive => job.alive /\ row'.state = "running"
         /\ move'.pc = "cancel" => row'.state = "running"
         /\ job'.xid = job.xid /\ job'.out = job.out /\ job'.trained = job.trained /\ job'.writing = job.writing
         /\ job'.alive => job' = job
         /\ UNCHANGED <<layout, disk, gc, sweeps>>
<1>0. /\ row.key = Key
      /\ job.alive => row.state = "running"
      /\ move.pc = "cancel" => row.state = "running"
      /\ row.pointer \in Seen /\ row.known \in Seen /\ move.warm \in Seen /\ NoCkpt \in Seen
  BY Zenon DEF OwnDirectory, Seen
<1>1. CASE Census
  BY <1>0, <1>1, CensusFrame, Zenon DEF Seen
<1>2. CASE Decide
  <2>1. PICK ev \in Evidence, sibling \in Siblings :
          \/ Postpone(ev) \/ RestartWarm(ev, sibling) \/ RestartCold(ev, sibling) \/ Bury(ev, sibling)
          \/ \E thrash \in BOOLEAN : RerouteRead(ev, sibling, thrash)
    BY <1>2, Zenon DEF Decide
  <2>2. sibling \in BOOLEAN
    BY DEF Siblings
  <2>3. CASE Postpone(ev) \/ RestartWarm(ev, sibling) \/ RestartCold(ev, sibling) \/ Bury(ev, sibling)
    BY <1>0, <2>2, <2>3, SettleFrame, Zenon
  <2>4. CASE \E thrash \in BOOLEAN : RerouteRead(ev, sibling, thrash)
    BY <1>0, <2>2, <2>4, RerouteReadFrame, Zenon
  <2>5. QED
    BY <2>1, <2>3, <2>4
<1>3. CASE RerouteCancel
  <2>1. NoMove.warm = NoCkpt /\ NoMove.pc = "idle" /\ row.state = "running"
    BY <1>0, <1>3, Zenon DEF NoMove, RerouteCancel
  <2>2. QED
    BY <1>0, <1>3, <2>1, RerouteCancelFrame, Zenon
<1>4. CASE CancelFails
  <2>1. NoMove.warm = NoCkpt /\ NoMove.pc = "idle" /\ row.state = "running"
    BY <1>0, <1>4, Zenon DEF NoMove, CancelFails
  <2>2. QED
    BY <1>0, <1>4, <2>1, Zenon DEF CancelFails
<1>5. QED
  BY <1>1, <1>2, <1>3, <1>4 DEF Loop

\* The checkpoints the loop can lay hands on are in directories that exist.
LEMMA SeenOwn ==
  ASSUME TypeOK, OwnDirectory, NEW c \in Seen
  PROVE  c \in Checkpoint /\ c.dir <= job.xid /\ Proper(c)
<1>1. row \in Row /\ job \in Job /\ move \in Move
  BY DEF TypeOK, Move
<1>2. job.out \in Dirs /\ job.out = job.xid /\ job.xid \in Dirs
  BY <1>1 DEF Job, OwnDirectory
<1>3. CASE c = NoCkpt
  BY <1>2, <1>3, NoCkptTyped, SMT DEF NoCkpt, Proper, Dirs
<1>4. CASE c \in {row.pointer, row.known, move.warm}
  BY <1>1, <1>4, Zenon DEF OwnDirectory, Row, Move
<1>5. CASE c = Found(job.out)
  <2>1. /\ c \in Checkpoint /\ c.dir \in {0, job.xid}
    BY <1>2, <1>5, FoundTyped
  <2>2. Proper(c)
    BY <1>2, <1>5, NewestIs, SMT DEF Found, Proper, NoCkpt
  <2>3. QED
    BY <1>2, <2>1, <2>2, SMT DEF Dirs
<1>6. QED
  BY <1>3, <1>4, <1>5, Zenon DEF Seen

\* A sweep changes no row and no job, and removes only what it listed as doomed.
LEMMA SweepFrame ==
  ASSUME TypeOK, Sweep
  PROVE  /\ UNCHANGED <<layout, row, job, move>>
         /\ \A d \in Dirs, s \in Steps : disk'[d].step[s] # disk[d].step[s] =>
              /\ gc.pc = "doomed" /\ d = gc.dir /\ s \in gc.doomed /\ disk'[d].step[s] = "none"
<1>1. UNCHANGED <<layout, row, job, move>>
  BY Zenon DEF Sweep, GcList, GcPlan, GcRemove, GcEnd
<1>2. gc.dir \in Dirs /\ gc.doomed \subseteq Steps
  BY DEF TypeOK
<1>3. CASE GcRemove
  <2>1. ASSUME NEW s \in gc.doomed, disk' = [disk EXCEPT ![gc.dir].step[s] = "none"]
        PROVE  \A d \in Dirs, t \in Steps : disk'[d].step[t] # disk[d].step[t] =>
                 d = gc.dir /\ t = s /\ disk'[d].step[t] = "none"
    <3>1. s \in Steps /\ gc.dir \in Dirs
      BY <1>2
    <3>2. \A d \in Dirs, t \in Steps :
            disk'[d].step[t] = IF d = gc.dir /\ t = s THEN "none" ELSE disk[d].step[t]
      BY <3>1, <2>1, FilesAre, DiskPut
    <3>3. QED
      BY <3>2, Zenon
  <2>2. ASSUME disk' = [disk EXCEPT ![gc.dir].peak = "none"]
        PROVE  \A d \in Dirs, t \in Steps : disk'[d].step[t] = disk[d].step[t]
    BY <1>2, <2>2, FilesAre, PeakPut
  <2>3. QED
    <3>1. gc.pc = "doomed"
      BY <1>3 DEF GcRemove
    <3>2. CASE \E s \in gc.doomed : disk' = [disk EXCEPT ![gc.dir].step[s] = "none"]
      BY <1>1, <2>1, <3>1, <3>2, ZenonT(40)
    <3>3. CASE disk' = [disk EXCEPT ![gc.dir].peak = "none"]
      BY <1>1, <2>2, <3>1, <3>3, Zenon
    <3>4. QED
      BY <1>3, <3>2, <3>3, Zenon DEF GcRemove
<1>4. CASE ~GcRemove
  <2>1. UNCHANGED disk
    BY <1>4, Zenon DEF Sweep, GcList, GcPlan, GcEnd
  <2>2. QED
    BY <1>1, <2>1
<1>5. QED
  BY <1>3, <1>4

\* At first there is no directory but the one the user named.
LEMMA OwnDirectoryInit == Init => OwnDirectory
<1> SUFFICES ASSUME Init PROVE OwnDirectory
  OBVIOUS
<1>1. PICK o \in Origins : StartsAt(o)
  BY Zenon DEF Init, StartsAt
<1>2. job = NoJob /\ move = NoMove
  BY DEF Init
<1>3. /\ job.out = job.xid /\ job.xid = 0 /\ ~job.alive
      /\ row.key = Key /\ row.state = "queued" /\ move.pc = "idle"
  BY <1>1, <1>2, Zenon DEF StartsAt, NoJob, NoXid, NoMove
<1>4. \A c \in {row.pointer, row.known, move.warm} : c.dir = 0 /\ Proper(c)
  BY <1>1, <1>2, SMT DEF StartsAt, NoMove, NoCkpt, Proper
<1>5. \A d \in Dirs, s \in Steps : d > 0 => disk[d].step[s] = "none"
  BY <1>1, SMT DEF StartsAt, Dirs
<1>6. QED
  BY <1>3, <1>4, <1>5, SMT DEF OwnDirectory

\* A launch: a new directory, whatever the layout.
LEMMA LaunchFrame ==
  ASSUME TypeOK, OwnDirectory, Launch
  PROVE  /\ job'.xid = job.xid + 1 /\ job'.out = job.xid + 1 /\ job.xid + 1 \in Dirs
         /\ job'.writing = "nothing" /\ ~job'.trained /\ job'.at = Progress(row.pointer)
         /\ row'.state = "running" /\ row'.xid = job'.xid
         /\ row'.pointer = row.pointer /\ row'.key = row.key /\ row'.known = row.known
         /\ row.state = "queued"
         /\ UNCHANGED <<layout, disk, move, gc, sweeps>>
<1>1. row \in Row /\ job \in Job
  BY DEF TypeOK
<1>2. /\ row'.state = "running" /\ row'.xid = job.xid + 1
      /\ row'.pointer = row.pointer /\ row'.key = row.key /\ row'.known = row.known
      /\ row.state = "queued"
      /\ UNCHANGED <<layout, disk, move, gc, sweeps>>
  BY <1>1, Zenon DEF Launch, Row
<1>3. job.xid + 1 \in Dirs
  <2>1. job.xid \in Dirs /\ job.xid < MaxXid
    BY <1>1, Zenon DEF Launch, Job
  <2>2. QED
    BY <2>1, CheckpointsConstantsOK, SMT DEF Dirs
<1>4. ~(layout = "elt" /\ row.key = "load_from")
  BY Zenon DEF OwnDirectory, Key
<1>5. /\ job'.xid = job.xid + 1 /\ job'.out = job.xid + 1 /\ job'.writing = "nothing"
      /\ ~job'.trained /\ job'.at = Progress(row.pointer)
  BY <1>4, Zenon DEF Launch, NoJob
<1>6. QED
  BY <1>2, <1>3, <1>5

\* Every step keeps each experiment in its own directory.
LEMMA OwnDirectoryStep ==
  ASSUME TypeOK, BelowLimit, OwnDirectory, [Next]_vars
  PROVE  OwnDirectory'
<1>1. job.xid \in Dirs /\ job.out \in Dirs /\ job.out = job.xid
  BY DEF TypeOK, Job, OwnDirectory
<1>2. CASE Launch
  <2>1. \A c \in {row'.pointer, row'.known, move'.warm} : c.dir \in Dirs /\ c.dir <= job.xid /\ Proper(c)
    BY <1>2, LaunchFrame, SeenOwn, Zenon DEF Seen, Checkpoint
  <2>2. Key' = Key
    BY <1>2, LaunchFrame, Zenon DEF Key
  <2>3. \A d \in Dirs, s \in Steps : d > job.xid => disk'[d].step[s] = "none"
    BY <1>2, LaunchFrame, Zenon DEF OwnDirectory
  <2>4. \A d \in Dirs : /\ d > job.xid + 1 => d > job.xid
                        /\ d <= job.xid => d <= job.xid + 1 /\ d < job.xid + 1
    BY <1>1, SMT DEF Dirs
  <2>5. row.key = Key /\ move.pc # "cancel"
    BY <1>2, LaunchFrame, Zenon DEF OwnDirectory
  <2>6. QED
    BY <1>2, <2>1, <2>2, <2>3, <2>4, <2>5, LaunchFrame, Zenon DEF OwnDirectory
<1>3. CASE Runs /\ ~Launch
  <2>1. Key' = Key
    BY <1>3, RunFrame, Zenon DEF Key
  <2>2. \A d \in Dirs : d > job.xid => d # job.out
    BY <1>1, SMT DEF Dirs
  <2>3. \A d \in Dirs, s \in Steps : d > job'.xid => disk'[d].step[s] = "none"
    BY <1>3, <2>2, RunFrame, Zenon DEF OwnDirectory
  <2>4. job.alive /\ job'.xid = job.xid /\ job'.out = job.out /\ row' = row /\ move' = move
    BY <1>3, RunFrame, Zenon
  <2>5. QED
    BY <2>1, <2>3, <2>4, Zenon DEF OwnDirectory
<1>4. CASE Loop
  <2>1. Key' = Key
    BY <1>4, LoopFrame, Zenon DEF Key
  <2>2. \A c \in {row'.pointer, row'.known, move'.warm} : c.dir <= job.xid /\ Proper(c)
    BY <1>4, LoopFrame, SeenOwn, Zenon
  <2>3. QED
    BY <1>4, <2>1, <2>2, LoopFrame, Zenon DEF OwnDirectory
<1>5. CASE Sweep
  <2>1. Key' = Key
    BY <1>5, SweepFrame, Zenon DEF Key
  <2>2. QED
    BY <1>5, <2>1, SweepFrame, ZenonT(40) DEF OwnDirectory
<1>6. CASE UNCHANGED vars
  BY <1>6, Zenon DEF vars, OwnDirectory, Key
<1>7. QED
  BY <1>2, <1>3, <1>4, <1>5, <1>6 DEF Next
-----------------------------------------------------------------------------
(* What the user named, and what the log shows.                            *)

\* The directory the user named has one checkpoint at most, so a sweep of it dooms nothing; and in
\* the layout sweeps are for, the router knows no checkpoint but the user's.
OriginAlone ==
  /\ \A s, t \in Steps : disk[0].step[s] # "none" /\ disk[0].step[t] # "none" => s = t
  /\ gc.dir = 0 => gc.doomed = {} /\ \A s, t \in gc.steps : s = t
  /\ layout = "eqr" => \A c \in {row.pointer, row.known, move.warm} : c.dir = 0
  /\ gc.pc # "idle" => layout = "eqr"

\* At first the named directory has the named checkpoint.
LEMMA OriginInit == Init => OriginAlone
<1> SUFFICES ASSUME Init PROVE OriginAlone
  OBVIOUS
<1>1. PICK o \in Origins : StartsAt(o)
  BY Zenon DEF Init, StartsAt
<1>2. \A s \in Steps : disk[0].step[s] # "none" => s = o
  BY <1>1, CheckpointsConstantsOK, SMT DEF StartsAt, Dirs
<1>3. gc.dir = 0 /\ gc.doomed = {} /\ gc.steps = {} /\ gc.pc = "idle"
  BY Zenon DEF Init, NoSweep
<1>4. row.pointer.dir = 0 /\ row.known.dir = 0 /\ move.warm.dir = 0
  BY <1>1, Zenon DEF StartsAt, Init, NoMove, NoCkpt
<1>5. QED
  BY <1>2, <1>3, <1>4, Zenon DEF OriginAlone

\* Every step keeps what the user named.
LEMMA OriginStep ==
  ASSUME TypeOK, BelowLimit, OwnDirectory, OriginAlone, [Next]_vars
  PROVE  OriginAlone'
<1>0. 0 \in Dirs /\ job.out \in Dirs /\ job.out = job.xid /\ row.pointer \in Checkpoint
  BY CheckpointsConstantsOK, SMT DEF Dirs, TypeOK, Job, OwnDirectory, Row
<1>1. CASE Launch
  BY <1>1, LaunchFrame, ZenonT(40) DEF OriginAlone
<1>2. CASE Runs /\ ~Launch
  <2>1. job.out # 0
    <3>1. row.pointer.dir < job.xid
      BY <1>2, RunFrame, Zenon DEF OwnDirectory
    <3>2. QED
      BY <1>0, <3>1, SMT DEF Dirs, Checkpoint
  <2>2. disk'[0] = disk[0]
    BY <1>0, <1>2, <2>1, RunFrame
  <2>3. UNCHANGED <<layout, row, move, gc>>
    BY <1>2, RunFrame
  <2>4. QED
    BY <2>2, <2>3, Zenon DEF OriginAlone
<1>3. CASE Loop
  <2>1. UNCHANGED <<layout, disk, gc>>
    BY <1>3, LoopFrame
  <2>2. ASSUME layout = "eqr"
        PROVE  \A c \in {row'.pointer, row'.known, move'.warm} : c.dir = 0
    <3>1. Found(job.out) = NoCkpt /\ NoCkpt.dir = 0
      BY <2>2, Zenon DEF Found, NoCkpt
    <3>2. row.pointer.dir = 0 /\ row.known.dir = 0 /\ move.warm.dir = 0
      BY <2>2, Zenon DEF OriginAlone
    <3>3. \A c \in Seen : c.dir = 0
      BY <3>1, <3>2, Zenon DEF Seen
    <3>4. QED
      BY <1>3, <3>3, LoopFrame, Zenon
  <2>3. QED
    BY <2>1, <2>2, Zenon DEF OriginAlone
<1>4. CASE Sweep
  <2>1. UNCHANGED <<layout, row, job, move>>
    BY <1>4, SweepFrame
  <2>2. \A s \in Steps : disk'[0].step[s] # "none" => disk[0].step[s] # "none"
    BY <1>0, <1>4, SweepFrame, Zenon
  <2>3. \A s, t \in Steps : disk'[0].step[s] # "none" /\ disk'[0].step[t] # "none" => s = t
    BY <2>2, Zenon DEF OriginAlone
  <2>4. gc'.dir = 0 => gc'.doomed = {} /\ \A s, t \in gc'.steps : s = t
    <3>0. gc \in SweepState
      BY DEF TypeOK, SweepState
    <3>1. ASSUME NEW d \in Dirs, GcList(d) PROVE <2>4
      <4>1. gc'.dir = d /\ gc'.doomed = {} /\ gc'.steps = {s \in Steps : disk[d].step[s] # "none"}
        BY <3>1, Zenon DEF GcList, NoSweep
      <4>2. QED
        BY <4>1, Zenon DEF OriginAlone
    <3>2. CASE GcPlan
      <4>1. PICK complete : gc' = [gc EXCEPT !.pc = "doomed", !.doomed = gc.steps \ Kept(complete),
                                             !.peak = @ /\ disk[gc.dir].peak # "complete"]
        BY <3>2, Zenon DEF GcPlan
      <4>2. gc'.dir = gc.dir /\ gc'.steps = gc.steps /\ gc'.doomed = gc.steps \ Kept(complete)
        BY <3>0, <4>1, Zenon DEF SweepState
      <4>3. CASE gc.dir = 0 /\ gc.steps # {}
        <5>1. gc.steps \in SUBSET (1..MaxStep)
          BY <3>0, Zenon DEF SweepState, Steps
        <5>2. Greatest(gc.steps) \in gc.steps
          BY <4>3, <5>1, GreatestIs, CheckpointsConstantsOK
        <5>3. Greatest(gc.steps) \in Kept(complete)
          BY Zenon DEF Kept
        <5>4. gc.steps \ Kept(complete) = {}
          BY <4>3, <5>2, <5>3, Zenon DEF OriginAlone
        <5>5. QED
          BY <4>2, <4>3, <5>4, Zenon DEF OriginAlone
      <4>4. QED
        BY <4>2, <4>3, Zenon DEF OriginAlone
    <3>3. CASE GcRemove
      <4>1. gc'.dir = gc.dir /\ gc'.steps = gc.steps /\ gc'.doomed \subseteq gc.doomed
        BY <3>0, <3>3, Zenon DEF GcRemove, SweepState
      <4>2. QED
        BY <4>1, Zenon DEF OriginAlone
    <3>4. CASE GcEnd
      BY <3>4, Zenon DEF GcEnd, NoSweep
    <3>5. QED
      BY <1>4, <3>1, <3>2, <3>3, <3>4, Zenon DEF Sweep
  <2>5. gc'.pc # "idle" => layout = "eqr"
    BY <1>4, Zenon DEF Sweep, GcList, GcPlan, GcRemove, GcEnd, NoSweep, OriginAlone
  <2>6. QED
    BY <2>1, <2>3, <2>4, <2>5, Zenon DEF OriginAlone
<1>5. CASE UNCHANGED vars
  BY <1>5, Zenon DEF vars, OriginAlone
<1>6. QED
  BY <1>1, <1>2, <1>3, <1>4, <1>5 DEF Next

\* An experiment that completed a checkpoint has shown a training step.
LogTells ==
  /\ job.writing = "step" => job.trained
  /\ job.xid # 0 /\ Complete(job.out) # {} => job.trained

\* At first there is no experiment.
LEMMA LogInit == Init => LogTells
<1> SUFFICES ASSUME Init PROVE LogTells
  OBVIOUS
<1>1. job.xid = 0 /\ job.writing = "nothing"
  BY Zenon DEF Init, NoJob, NoXid
<1>2. QED
  BY <1>1, Zenon DEF LogTells

\* Every step keeps that.
LEMMA LogStep ==
  ASSUME TypeOK, BelowLimit, OwnDirectory, LogTells, [Next]_vars
  PROVE  LogTells'
<1>0. job \in Job /\ job.xid \in Dirs /\ job.out = job.xid /\ job.out \in Dirs
  BY DEF TypeOK, Job, OwnDirectory
<1>1. CASE Launch
  <2>1. job.xid + 1 > job.xid
    BY <1>0, SMT DEF Dirs
  <2>2. \A s \in Steps : disk'[job'.out].step[s] = "none"
    BY <1>1, <2>1, LaunchFrame, Zenon DEF OwnDirectory
  <2>3. Complete(job.out)' = {}
    BY <2>2 DEF Complete
  <2>4. QED
    BY <1>1, <2>3, LaunchFrame, Zenon DEF LogTells
<1>2. CASE BeginSave \/ EndSave
  <2>1. job'.trained = job.trained /\ job.trained
    BY <1>0, <1>2, Zenon DEF BeginSave, EndSave, Job, LogTells
  <2>2. QED
    BY <2>1, Zenon DEF LogTells
<1>3. CASE Train
  <2>1. job'.trained
    BY <1>0, <1>3, Zenon DEF Train, Job
  <2>2. QED
    BY <2>1, Zenon DEF LogTells
<1>4. ASSUME job'.xid = job.xid, job'.out = job.out, job.trained => job'.trained,
             job'.writing = "step" => job.writing = "step",
             \A s \in Steps : disk'[job.out].step[s] = "complete" => disk[job.out].step[s] = "complete"
      PROVE  LogTells'
  BY <1>4, SMT DEF LogTells, Complete
<1>5. CASE BeginPeak \/ EndPeak \/ Bounce \/ Die
  <2>1. /\ job'.xid = job.xid /\ job'.out = job.out /\ job'.trained = job.trained
        /\ job'.writing = "step" => job.writing = "step"
    BY <1>0, <1>5, Zenon DEF BeginPeak, EndPeak, Bounce, Die, Job
  <2>2. \A s \in Steps : disk'[job.out].step[s] = disk[job.out].step[s]
    <3>1. \A v \in Files, s \in Steps :
            [disk EXCEPT ![job.out].peak = v][job.out].step[s] = disk[job.out].step[s]
      BY <1>0, PeakPut
    <3>2. QED
      <4>1. CASE BeginPeak
        BY <3>1, <4>1, FilesAre, Zenon DEF BeginPeak
      <4>2. CASE EndPeak
        BY <3>1, <4>2, FilesAre, Zenon DEF EndPeak
      <4>3. CASE Bounce \/ Die
        BY <4>3, Zenon DEF Bounce, Die
      <4>4. QED
        BY <1>5, <4>1, <4>2, <4>3
  <2>3. QED
    BY <1>4, <2>1, <2>2
<1>6. CASE Loop
  BY <1>4, <1>6, LoopFrame
<1>7. CASE Sweep
  <2>1. UNCHANGED job
    BY <1>7, SweepFrame
  <2>2. \A s \in Steps : disk'[job.out].step[s] = "complete" => disk[job.out].step[s] = "complete"
    BY <1>0, <1>7, SweepFrame, Zenon
  <2>3. QED
    BY <1>4, <2>1, <2>2
<1>8. CASE UNCHANGED vars
  BY <1>4, <1>8 DEF vars
<1>9. QED
  BY <1>1, <1>2, <1>3, <1>5, <1>6, <1>7, <1>8 DEF Next, Runs
-----------------------------------------------------------------------------
(* What a step may not do.                                                 *)

\* A step that queues a dead run without a pointer is a cold restart, and of evidence that was
\* readable and empty: the log said nothing, so nothing was trained, or the listing was empty.
LEMMA ColdStep ==
  ASSUME "nocell" \notin Faults, TypeOK, BelowLimit, OwnDirectory, LogTells, [Next]_vars,
         layout # "eqr", row.state = "running", move.pc = "idle",
         row'.state = "queued", row'.pointer = NoCkpt
  PROVE  Complete(job.out) = {} /\ row.known = NoCkpt
<1>1. row \in Row /\ job.out \in Dirs /\ job.xid # 0
  <2>1. row \in Row /\ job \in Job
    BY DEF TypeOK
  <2>2. row.pointer \in Checkpoint /\ row.pointer.dir < job.xid
    BY <2>1, Zenon DEF OwnDirectory, Row
  <2>3. QED
    BY <2>1, <2>2, SMT DEF Checkpoint, Job, Dirs
<1>2. Decide
  <2>1. ~Launch /\ ~Census /\ ~RerouteCancel /\ ~CancelFails /\ ~(UNCHANGED vars)
    BY LaunchFrame, CensusFrame, Zenon DEF RerouteCancel, CancelFails, vars
  <2>2. ~Runs /\ ~Sweep
    BY <2>1, RunFrame, SweepFrame, Zenon
  <2>3. QED
    BY <2>1, <2>2 DEF Next, Loop
<1>3. PICK ev \in Evidence, sibling \in BOOLEAN :
        RestartWarm(ev, sibling) \/ RestartCold(ev, sibling)
  <2>1. PICK ev \in Evidence, sibling \in Siblings :
          \/ Postpone(ev) \/ RestartWarm(ev, sibling) \/ RestartCold(ev, sibling) \/ Bury(ev, sibling)
          \/ \E thrash \in BOOLEAN : RerouteRead(ev, sibling, thrash)
    BY <1>2, Zenon DEF Decide
  <2>2. ~Postpone(ev)
    BY <1>1, Keeps, Zenon DEF Postpone
  <2>3. ~Bury(ev, sibling)
    <3>1. \A v : [Judged(ev) EXCEPT !.state = v].state = v
      BY JudgedTyped, Keeps
    <3>2. QED
      BY <3>1, Zenon DEF Bury
  <2>4. sibling \in BOOLEAN /\ ~\E thrash \in BOOLEAN : RerouteRead(ev, sibling, thrash)
    <3>1. sibling \in BOOLEAN
      BY DEF Siblings
    <3>2. QED
      BY <3>1, RerouteReadFrame, Zenon
  <2>5. QED
    BY <2>1, <2>2, <2>3, <2>4
<1> DEFINE q == Judged(ev)
           c == Chosen(q, ev)
<1>4. q \in Row /\ c \in Checkpoint /\ q.pointer \in Checkpoint
  BY JudgedTyped, ChosenTyped DEF Row
<1>5. CASE RestartWarm(ev, sibling)
  <2>1. row' = Warm(q, c) /\ c # NoCkpt
    <3>1. row' = Warm(q, c) /\ Verdict(ev, sibling) = "warm"
      BY <1>5, Zenon DEF RestartWarm
    <3>2. QED
      BY <3>1, Zenon DEF Verdict, Plan
  <2>2. Proper(c)
    BY ChosenSeen, SeenOwn
  <2> HIDE DEF q, c
  <2>3. c.step # 0 /\ c.step \in Nat
    BY <1>4, <2>1, <2>2, CheckpointsConstantsOK, SMT DEF Proper, Checkpoint
  <2>4. row'.pointer = ApplyPointer(q, c).pointer
    BY <1>4, <2>1, KeepsWarm, Zenon DEF Same
  <2>5. ApplyPointer(q, c).pointer.step >= c.step
    BY <1>4, PointerIs
  <2>6. ApplyPointer(q, c).pointer.step = 0
    <3>1. NoCkpt.step = 0
      BY DEF NoCkpt
    <3>2. QED
      BY <2>4, <3>1
  <2>7. QED
    BY <2>3, <2>5, <2>6, SMT
<1>6. CASE RestartCold(ev, sibling)
  <2>1. c = NoCkpt /\ ev.ok
    <3>1. Verdict(ev, sibling) = "cold"
      BY <1>6 DEF RestartCold
    <3>2. QED
      BY <3>1, Zenon DEF Verdict, Plan
  <2>2. Pick(q, ev.found) = NoCkpt
    BY <2>1 DEF Chosen
  <2>3. ev.found = NoCkpt /\ q.known = NoCkpt
    <3> HIDE DEF q
    <3>1. CASE ev.found = NoCkpt
      BY <2>2, <3>1, SMT DEF Pick
    <3>2. CASE ev.found # NoCkpt /\ q.known = NoCkpt
      BY <2>2, <3>2, SMT DEF Pick
    <3>3. CASE ev.found # NoCkpt /\ q.known # NoCkpt
      BY <2>2, <3>3, SMT DEF Pick
    <3>4. QED
      BY <3>1, <3>2, <3>3
  <2>4. row.known = NoCkpt
    <3>1. Note(row, ev.found) = row /\ row \in Row
      BY <1>1, <2>3, Zenon DEF Note
    <3>2. q = [row EXCEPT !.unread = 0]
      BY <2>1, <3>1, Zenon DEF Judged
    <3> HIDE DEF q
    <3>3. Same(q, row)
      BY <3>1, <3>2, Keeps, Zenon
    <3>4. QED
      BY <2>3, <3>3 DEF Same
  <2>5. Complete(job.out) = {}
    <3>1. \/ ev = NothingRead /\ ~job.trained
          \/ \E log : ev = Read(TRUE, Found(job.out), log.bug, log.trained)
      <4>1. FailedRead.ok = FALSE
        BY Zenon DEF FailedRead, Read
      <4>2. QED
        BY <2>1, <4>1, Zenon DEF Evidence
    <3>2. CASE ev = NothingRead /\ ~job.trained
      BY <1>1, <3>2 DEF LogTells
    <3>3. CASE \E log : ev = Read(TRUE, Found(job.out), log.bug, log.trained)
      <4>1. ev.found = Found(job.out)
        <5>1. \A bug, trained : Read(TRUE, Found(job.out), bug, trained).found = Found(job.out)
          BY Zenon DEF Read
        <5>2. QED
          BY <3>3, <5>1, Zenon
      <4>2. layout \in {"torch", "elt"}
        BY CheckpointsConstantsOK DEF TypeOK
      <4>3. Newest(job.out) = 0
        BY <2>3, <4>1, <4>2, SMT DEF Found, NoCkpt
      <4>4. QED
        BY <1>1, <4>3, NewestIs
    <3>4. QED
      BY <3>1, <3>2, <3>3
  <2>6. QED
    BY <2>4, <2>5
<1>7. QED
  BY <1>3, <1>5, <1>6

\* No step removes the checkpoint a run started from: it is in no directory a job writes in, and
\* no sweep dooms it.
LEMMA SourceStep ==
  ASSUME TypeOK, BelowLimit, OwnDirectory, OriginAlone, [Next]_vars,
         row.state \in {"queued", "running"}, row'.pointer = row.pointer, Stored(row.pointer)
  PROVE  Stored(row.pointer)'
<1> DEFINE c == row.pointer
<1>1. /\ c \in Checkpoint /\ c # NoCkpt /\ Proper(c) /\ disk[c.dir].step[c.step] = "complete"
      /\ job.out = job.xid /\ job.xid \in Dirs
  BY DEF TypeOK, Row, Job, OwnDirectory, Stored
<1>2. c.dir \in Dirs /\ c.step \in Steps
  BY <1>1, SMT DEF Checkpoint, Proper, Steps
<1>3. disk'[c.dir].step[c.step] = disk[c.dir].step[c.step]
  <2>1. CASE Launch \/ Loop \/ UNCHANGED vars
    BY <2>1, LaunchFrame, LoopFrame DEF vars
  <2>2. CASE Runs /\ ~Launch
    <3>1. c.dir < job.xid
      BY <2>2, RunFrame, Zenon DEF OwnDirectory
    <3>2. c.dir # job.out
      BY <1>1, <1>2, <3>1, SMT DEF Dirs
    <3>3. QED
      BY <1>2, <2>2, <3>2, RunFrame
  <2>3. CASE Sweep
    <3>1. SUFFICES ASSUME disk'[c.dir].step[c.step] # disk[c.dir].step[c.step]
                   PROVE  FALSE
      OBVIOUS
    <3>2. gc.pc = "doomed" /\ c.dir = gc.dir /\ c.step \in gc.doomed
      BY <1>2, <2>3, <3>1, SweepFrame, Zenon
    <3>3. c.dir = 0
      BY <3>2, Zenon DEF OriginAlone
    <3>4. QED
      BY <3>2, <3>3, Zenon DEF OriginAlone
  <2>4. QED
    BY <2>1, <2>2, <2>3 DEF Next
<1>4. QED
  BY <1>1, <1>3, Zenon DEF Stored
-----------------------------------------------------------------------------
(* The pointer does not go back.                                           *)

\* A reroute carries nothing older than is known.
WarmIsNewest ==
  move.pc = "cancel" /\ move.warm # NoCkpt => move.warm.step >= row.known.step
\* The invariant that all that follows rests on.
Lineage == TypeOK /\ BelowLimit /\ OwnDirectory /\ OriginAlone /\ LogTells

\* pick_restart_checkpoint is never older than what is known.
LEMMA ChosenNewest ==
  ASSUME NEW r \in Row, NEW ev, ev.found \in Checkpoint, Chosen(r, ev) # NoCkpt
  PROVE  Chosen(r, ev).step >= r.known.step
<1>1. r.known.step \in Nat /\ NoCkpt.step = 0 /\ r.pointer.step \in Nat /\ ev.found.step \in Nat
  BY CheckpointsConstantsOK, SMT DEF Row, Checkpoint, NoCkpt
<1>2. CASE ~ev.ok
  <2>1. Chosen(r, ev) = r.known
    BY <1>2, Zenon DEF Chosen
  <2>2. QED
    BY <1>1, <2>1, SMT
<1>3. CASE ev.ok
  <2>1. Chosen(r, ev) = Pick(r, ev.found)
    BY <1>3, Zenon DEF Chosen
  <2>2. QED
    BY <1>1, <2>1, SMT DEF Pick
<1>4. QED
  BY <1>2, <1>3

\* At first nothing is known.
LEMMA RewindInit == Init => NeverRewinds /\ WarmIsNewest
<1> SUFFICES ASSUME Init PROVE NeverRewinds /\ WarmIsNewest
  OBVIOUS
<1>1. row.known = NoCkpt /\ move.pc = "idle"
  BY SMT DEF Init, NoMove
<1>2. QED
  BY <1>1, Zenon DEF NeverRewinds, WarmIsNewest

\* Every step keeps the pointer of a queued row from being older than what is known.
LEMMA RewindStep ==
  ASSUME ~FineTune, Lineage, NeverRewinds, WarmIsNewest, [Next]_vars
  PROVE  NeverRewinds' /\ WarmIsNewest'
<1> USE DEF Lineage
<1>0. \A c : Progress(c) = c.step
  BY Zenon DEF Progress
<1>1. ASSUME row' = row, move' = move
      PROVE  NeverRewinds' /\ WarmIsNewest'
  BY <1>1, Zenon DEF NeverRewinds, WarmIsNewest, Progress
<1>2. CASE Launch
  BY <1>2, LaunchFrame, Zenon DEF NeverRewinds, WarmIsNewest
<1>3. CASE Runs /\ ~Launch
  BY <1>1, <1>3, RunFrame
<1>4. CASE Sweep
  BY <1>1, <1>4, SweepFrame
<1>5. CASE Census
  BY <1>5, CensusFrame, Zenon DEF NeverRewinds, WarmIsNewest
<1>6. CASE CancelFails
  BY <1>6, Zenon DEF CancelFails, NeverRewinds, WarmIsNewest, NoMove, Progress
<1>7. CASE RerouteCancel
  <2> DEFINE q == Rerouted(row)
  <2>1. row \in Row /\ q \in Row /\ q.known = row.known /\ row.known \in Checkpoint /\ move.warm \in Checkpoint
    <3>1. row \in Row /\ move \in Move
      BY DEF TypeOK, Move
    <3>2. QED
      BY <3>1, ReroutedTyped, Keeps, Zenon DEF Same, Row, Move
  <2>2. move.pc = "cancel" /\ move' = NoMove /\ NoMove.pc = "idle"
    BY <1>7, Zenon DEF RerouteCancel, NoMove
  <2>3. row' = IF move.warm # NoCkpt THEN WarmInPlace(q, move.warm) ELSE Advance(q)
    BY <1>7 DEF RerouteCancel
  <2> HIDE DEF q
  <2>4. CASE move.warm # NoCkpt
    <3>1. row'.pointer = ApplyPointer(q, move.warm).pointer /\ row'.known = row.known
      BY <2>1, <2>3, <2>4, KeepsWarm, ApplyPointerKeeps, ZenonT(40) DEF Same
    <3>2. row'.pointer.step >= move.warm.step /\ row'.pointer \in Checkpoint
      BY <2>1, <3>1, PointerIs, Zenon DEF Row
    <3>3. move.warm.step >= row.known.step
      BY <2>2, <2>4 DEF WarmIsNewest
    <3>4. row'.pointer.step >= row'.known.step
      BY <2>1, <3>1, <3>2, <3>3, CheckpointsConstantsOK, SMT DEF Checkpoint
    <3>5. QED
      BY <1>0, <2>2, <3>4, Zenon DEF NeverRewinds, WarmIsNewest
  <2>5. CASE move.warm = NoCkpt
    <3>1. row' = Advance(q)
      BY <2>3, <2>5
    <3>2. CASE q.known # NoCkpt /\ q.pointer # NoCkpt
      <4>1. row' = ApplyPointer(q, q.known)
        BY <3>1, <3>2 DEF Advance
      <4>2. row'.pointer.step >= q.known.step /\ row'.known = q.known
        BY <2>1, <4>1, PointerIs, ApplyPointerKeeps
      <4>3. QED
        BY <1>0, <2>2, <4>2, Zenon DEF NeverRewinds, WarmIsNewest
    <3>3. CASE ~(q.known # NoCkpt /\ q.pointer # NoCkpt)
      <4>1. row' = q
        BY <3>1, <3>3 DEF Advance
      <4>2. QED
        BY <2>2, <3>3, <4>1, Zenon DEF NeverRewinds, WarmIsNewest
    <3>4. QED
      BY <3>2, <3>3
  <2>6. QED
    BY <2>4, <2>5
<1>8. CASE Decide
  <2>1. PICK ev \in Evidence, sibling \in Siblings :
          \/ Postpone(ev) \/ RestartWarm(ev, sibling) \/ RestartCold(ev, sibling) \/ Bury(ev, sibling)
          \/ \E thrash \in BOOLEAN : RerouteRead(ev, sibling, thrash)
    BY <1>8, Zenon DEF Decide
  <2>2. sibling \in BOOLEAN /\ row \in Row /\ ev.found \in Checkpoint
    BY EvidenceTyped DEF Siblings, TypeOK
  <2> DEFINE q == Judged(ev)
             c == Chosen(q, ev)
  <2>3. q \in Row /\ c \in Checkpoint /\ q.known \in Checkpoint
    BY ChosenSeen DEF Row
  <2>4. CASE Postpone(ev) \/ Bury(ev, sibling)
    <3>1. row'.state # "queued"
      <4>1. \A v : [q EXCEPT !.state = v].state = v
        BY <2>3, Keeps, Zenon
      <4>2. CountUnread(row).state = row.state
        BY <2>2, Keeps
      <4>3. CASE Postpone(ev)
        BY <4>2, <4>3, Zenon DEF Postpone, Settle, Watched
      <4>4. CASE Bury(ev, sibling)
        BY <4>1, <4>4, Zenon DEF Bury
      <4>5. QED
        BY <2>4, <4>3, <4>4
    <3>2. move'.pc # "cancel"
      BY <2>2, <2>4, SettleFrame
    <3>3. QED
      BY <3>1, <3>2, Zenon DEF NeverRewinds, WarmIsNewest
  <2>5. CASE RestartWarm(ev, sibling)
    <3>1. row' = Warm(q, c) /\ Verdict(ev, sibling) = "warm"
      BY <2>5, Zenon DEF RestartWarm
    <3>2. c # NoCkpt
      BY <3>1, Zenon DEF Verdict, Plan
    <3>3. c.step >= q.known.step
      BY <2>2, <2>3, <3>2, ChosenNewest
    <3> HIDE DEF q, c
    <3>4. row'.pointer = ApplyPointer(q, c).pointer /\ row'.known = q.known
      BY <2>3, <3>1, KeepsWarm, ApplyPointerKeeps, ZenonT(40) DEF Same
    <3>5. row'.pointer.step >= c.step /\ row'.pointer \in Checkpoint
      BY <2>3, <3>4, PointerIs, ApplyPointerIs, Zenon DEF Row
    <3>6. row'.pointer.step >= row'.known.step
      BY <2>3, <3>3, <3>4, <3>5, CheckpointsConstantsOK, SMT DEF Checkpoint
    <3>7. move'.pc # "cancel"
      BY <2>2, <2>5, SettleFrame
    <3>8. QED
      BY <1>0, <3>6, <3>7, Zenon DEF NeverRewinds, WarmIsNewest
  <2>6. CASE RestartCold(ev, sibling)
    <3>1. row'.known = NoCkpt
      BY <2>3, <2>6, Keeps, Zenon DEF RestartCold
    <3>2. move'.pc # "cancel"
      BY <2>2, <2>6, SettleFrame
    <3>3. QED
      BY <3>1, <3>2, Zenon DEF NeverRewinds, WarmIsNewest
  <2>7. ASSUME NEW thrash \in BOOLEAN, RerouteRead(ev, sibling, thrash)
        PROVE  NeverRewinds' /\ WarmIsNewest'
    <3>1. row'.state = "running" /\ move.pc = "idle"
      BY <2>2, <2>7, RerouteReadFrame
    <3>2. CASE ev.ok
      <4> DEFINE r == Note(row, ev.found)
      <4>1. /\ row' = r
            /\ move' = [pc |-> "cancel", thrash |-> thrash,
                         warm |-> IF Plan(r, ev, sibling, FALSE) = "warm" THEN Chosen(r, ev) ELSE NoCkpt]
        BY <2>7, <3>2, Zenon DEF RerouteRead
      <4>2. r \in Row
        BY <2>2, NoteIs
      <4>3. move'.warm = IF Plan(r, ev, sibling, FALSE) = "warm" THEN Chosen(r, ev) ELSE NoCkpt
        BY <4>1, Zenon
      <4> HIDE DEF r
      <4>4. move'.warm # NoCkpt => move'.warm.step >= r.known.step
        BY <2>2, <4>2, <4>3, ChosenNewest
      <4>5. QED
        BY <3>1, <4>1, <4>4, Zenon DEF NeverRewinds, WarmIsNewest
    <3>3. CASE ~ev.ok
      BY <2>7, <3>1, <3>3, Zenon DEF RerouteRead, NeverRewinds, WarmIsNewest
    <3>4. QED
      BY <3>2, <3>3
  <2>8. QED
    BY <2>1, <2>4, <2>5, <2>6, <2>7
<1>9. CASE UNCHANGED vars
  BY <1>1, <1>9 DEF vars
<1>10. QED
  BY <1>2, <1>3, <1>4, <1>5, <1>6, <1>7, <1>8, <1>9 DEF Next, Loop
-----------------------------------------------------------------------------
(* The newest checkpoint stays.                                            *)

\* A live job is at the newest checkpoint of its directory, and what it may have begun is the next.
AtNewest ==
  job.alive =>
    /\ job.at = (IF Complete(job.out) # {} THEN Newest(job.out) ELSE Progress(row.pointer))
    /\ \A s \in Steps : disk[job.out].step[s] # "none" => s <= job.at + 1

\* A sweep dooms neither the newest complete checkpoint of its directory, nor one that may become
\* it.
NewestSpared ==
  /\ gc.dir <= job.xid
  /\ Newest(gc.dir) \notin gc.doomed
  /\ job.alive /\ gc.dir = job.out =>
       /\ \A s \in gc.steps : s <= job.at + 1
       /\ \A s \in gc.doomed : s <= job.at

\* NewestIs, of the next state.
LEMMA NextNewestIs ==
  ASSUME NEW d \in Dirs
  PROVE  /\ Newest(d)' \in 0..MaxStep
         /\ Newest(d)' = 0 <=> Complete(d)' = {}
         /\ Complete(d)' # {} => Newest(d)' \in Complete(d)'
         /\ \A s \in Complete(d)' : s <= Newest(d)'
<1>1. Complete(d)' \in SUBSET (1..MaxStep)
  BY DEF Complete, Steps
<1>2. MaxStep \in Nat
  BY CheckpointsConstantsOK
<1>3. CASE Complete(d)' = {}
  BY <1>1, <1>2, <1>3, SMT DEF Newest
<1>4. CASE Complete(d)' # {}
  <2>1. /\ Greatest(Complete(d)') \in Complete(d)'
        /\ \A s \in Complete(d)' : s <= Greatest(Complete(d)')
    BY <1>1, <1>2, <1>4, GreatestIs
  <2>2. Newest(d)' = Greatest(Complete(d)')
    BY <1>4 DEF Newest
  <2>3. QED
    BY <1>1, <1>2, <1>4, <2>1, <2>2, SMT
<1>5. QED
  BY <1>3, <1>4

\* The newest is the same where what is complete is.
LEMMA SameFiles ==
  ASSUME NEW d \in Dirs,
         \A s \in Steps : disk'[d].step[s] = "complete" <=> disk[d].step[s] = "complete"
  PROVE  Complete(d)' = Complete(d) /\ Newest(d)' = Newest(d)
<1>1. Complete(d)' = Complete(d)
  BY DEF Complete
<1>2. QED
  BY <1>1 DEF Newest

\* At first there is neither a job nor a sweep.
LEMMA NewestInit == Init => AtNewest /\ NewestSpared
<1> SUFFICES ASSUME Init PROVE AtNewest /\ NewestSpared
  OBVIOUS
<1>1. ~job.alive /\ job.xid = 0 /\ gc.dir = 0 /\ gc.doomed = {}
  BY Zenon DEF Init, NoJob, NoXid, NoSweep
<1>2. QED
  BY <1>1, SMT DEF AtNewest, NewestSpared

\* A save that ends is the newest, whatever its saver prunes.
LEMMA SaveIsNewest ==
  ASSUME TypeOK, BelowLimit, AtNewest, EndSave, NEW d \in Dirs, d = job.out
  PROVE  /\ job.alive /\ job'.at = job.at + 1 /\ job'.out = d /\ job.at \in Nat
         /\ \A s \in Steps : disk'[d].step[s] # "none" => s <= job.at + 1
         /\ Complete(d)' # {}
         /\ Newest(d)' = job.at + 1
         /\ Newest(d)' >= Newest(d)
<1> DEFINE new == job.at + 1
           saved == [disk EXCEPT ![d].step[new] = "complete"]
<1>1. job \in Job /\ new \in Steps /\ job.at \in Nat
  <2>1. job \in Job
    BY DEF TypeOK
  <2>2. job.at < MaxStep
    BY DEF EndSave, BelowLimit
  <2>3. QED
    BY <2>1, <2>2, CheckpointsConstantsOK, SMT DEF Job, Steps
<1>2. job.alive /\ job'.at = job.at + 1 /\ job'.out = d
  BY <1>1, Zenon DEF EndSave, Job
<1>3. /\ saved \in [Dirs -> Directory]
      /\ \A s \in Steps : saved[d].step[s] = IF s = new THEN "complete" ELSE disk[d].step[s]
  BY <1>1, FilesAre, DiskPut, SMTT(40)
<1>4. /\ disk'[d].step[new] = "complete"
      /\ \A s \in Steps \ {new} : disk'[d].step[s] \in {disk[d].step[s], "none"}
  <2>1. CASE disk' = saved
    BY <1>1, <1>3, <2>1, Zenon
  <2>2. CASE disk' = [saved EXCEPT ![d].step = [s \in Steps |-> IF s < new THEN "none" ELSE saved[d].step[s]]]
    <3> HIDE DEF saved
    <3>1. disk'[d].step = [s \in Steps |-> IF s < new THEN "none" ELSE saved[d].step[s]]
      BY <1>1, <1>3, <2>2, SMT DEF Directory
    <3>2. QED
      BY <1>1, <1>3, <3>1, SMT DEF Steps
  <2>3. QED
    BY <2>1, <2>2 DEF EndSave
<1>5. \A s \in Steps : disk'[d].step[s] # "none" => s <= new
  <2>1. \A s \in Steps : disk[d].step[s] # "none" => s <= new
    BY <1>2 DEF AtNewest
  <2>2. new <= new
    BY <1>1, SMT
  <2>3. QED
    BY <1>4, <2>1, <2>2, Zenon
<1>6. new \in Complete(d)' /\ \A s \in Complete(d)' : s \in Steps /\ s <= new
  BY <1>1, <1>4, <1>5 DEF Complete
<1>7. Newest(d)' = new
  <2>1. Newest(d)' \in Complete(d)' /\ new <= Newest(d)'
    BY <1>6, NextNewestIs
  <2>2. Newest(d)' <= new /\ Newest(d)' \in Steps
    BY <1>6, <2>1
  <2> HIDE DEF new
  <2>3. QED
    BY <1>1, <2>1, <2>2, SMT DEF Steps
<1>8. Newest(d) <= new
  <2>1. CASE Complete(d) = {}
    BY <1>1, <2>1, NewestIs, SMT
  <2>2. CASE Complete(d) # {}
    <3>1. Newest(d) \in Complete(d)
      BY <2>2, NewestIs
    <3>2. disk[d].step[Newest(d)] # "none" /\ Newest(d) \in Steps
      BY <3>1 DEF Complete
    <3>3. QED
      BY <1>2, <3>2 DEF AtNewest
  <2>3. QED
    BY <2>1, <2>2
<1>9. new >= Newest(d)
  BY <1>1, <1>8, NewestIs, SMT
<1>10. QED
  BY <1>1, <1>2, <1>5, <1>6, <1>7, <1>9

\* Every step keeps the newest checkpoint of every directory, or puts a newer one there.
LEMMA NewestStep ==
  ASSUME "probe" \notin Faults, Lineage, AtNewest, NewestSpared, [Next]_vars
  PROVE  /\ AtNewest' /\ NewestSpared'
         /\ \A d \in Dirs : Newest(d)' >= Newest(d)
<1> USE DEF Lineage
<1>0. /\ job \in Job /\ gc \in SweepState /\ job.out \in Dirs /\ job.out = job.xid /\ gc.dir \in Dirs
      /\ gc.steps \subseteq Steps /\ gc.doomed \subseteq Steps /\ job.at \in Nat
  <2>1. job \in Job /\ gc \in SweepState
    BY DEF TypeOK, SweepState
  <2>2. job.at \in Nat
    BY <2>1, CheckpointsConstantsOK, SMT DEF Job
  <2>3. QED
    BY <2>1, <2>2, Zenon DEF Job, SweepState, OwnDirectory
<1>a. \A d \in Dirs : Newest(d) \in Nat /\ Newest(d) >= Newest(d)
  BY NewestIs, SMT
<1>1. ASSUME \A d \in Dirs : Newest(d)' = Newest(d) /\ Complete(d)' = Complete(d),
             \A s \in Steps : disk'[job.out].step[s] # "none" =>
                disk[job.out].step[s] # "none" \/ s = job.at + 1,
             gc' = gc, row' = row,
             job'.xid = job.xid, job'.out = job.out, job'.at = job.at, job'.alive => job.alive
      PROVE  /\ AtNewest' /\ NewestSpared'
             /\ \A d \in Dirs : Newest(d)' >= Newest(d)
  <2>1. PICK out \in Dirs : out = job.out
    BY <1>0
  <2>2. PICK dir \in Dirs : dir = gc.dir
    BY <1>0
  <2>3. Complete(job.out)' = Complete(out) /\ Newest(job.out)' = Newest(out) /\ Newest(gc.dir)' = Newest(dir)
    BY <1>1, <2>1, <2>2
  <2>4. Progress(row.pointer)' = Progress(row.pointer)
    BY <1>1 DEF Progress
  <2>5. job.at + 1 <= job.at + 1
    BY <1>0, SMT
  <2>6. AtNewest'
    BY <1>1, <2>1, <2>3, <2>4, <2>5, Zenon DEF AtNewest
  <2>7. NewestSpared'
    BY <1>1, <2>2, <2>3, Zenon DEF NewestSpared
  <2>8. ASSUME NEW d \in Dirs PROVE Newest(d)' >= Newest(d)
    <3>1. Newest(d)' = Newest(d) /\ Newest(d) \in Nat
      BY <1>1, <1>a
    <3>2. QED
      BY <3>1, SMT
  <2>9. QED
    BY <2>6, <2>7, <2>8
<1>2. CASE Launch
  <2>1. PICK out \in Dirs : out = job.xid + 1
    BY <1>2, LaunchFrame
  <2>2. PICK dir \in Dirs : dir = gc.dir
    BY <1>0
  <2>3. \A d \in Dirs : Complete(d)' = Complete(d) /\ Newest(d)' = Newest(d)
    BY <1>2, LaunchFrame, SameFiles
  <2>4. out > job.xid /\ job.xid <= out /\ \A d \in Dirs : d <= job.xid => d <= out /\ d # out
    BY <1>0, <2>1, SMT DEF Dirs
  <2>5. job'.out = out /\ job'.xid = out /\ job'.at = Progress(row.pointer) /\ gc' = gc
    BY <1>2, <2>1, LaunchFrame
  <2>6. \A s \in Steps : disk'[out].step[s] = "none"
    BY <1>2, <2>4, LaunchFrame, Zenon DEF OwnDirectory
  <2>7. Complete(job.out)' = {}
    BY <2>5, <2>6 DEF Complete
  <2>8. Progress(row.pointer)' = Progress(row.pointer)
    BY <1>2, LaunchFrame, Zenon DEF Progress
  <2>9. AtNewest'
    <3>1. \A s \in Steps : ~(disk'[job'.out].step[s] # "none")
      BY <2>5, <2>6
    <3>2. job'.at = IF Complete(job.out)' # {} THEN Newest(job.out)' ELSE Progress(row.pointer)'
      BY <2>5, <2>7, <2>8, Zenon
    <3>3. QED
      BY <3>1, <3>2, Zenon DEF AtNewest
  <2>10. gc'.dir = dir /\ Newest(gc.dir)' = Newest(gc.dir) /\ dir # out /\ dir <= out
    BY <2>2, <2>3, <2>4, <2>5 DEF NewestSpared
  <2>11. NewestSpared'
    BY <2>5, <2>10, Zenon DEF NewestSpared
  <2>12. ASSUME NEW d \in Dirs PROVE Newest(d)' >= Newest(d)
    <3>1. Newest(d)' = Newest(d) /\ Newest(d) \in Nat
      BY <2>3, <1>a
    <3>2. QED
      BY <3>1, SMT
  <2>13. QED
    BY <2>9, <2>11, <2>12
<1>3. CASE Train \/ BeginPeak \/ EndPeak \/ Bounce \/ Die
  <2>1. Runs /\ ~Launch
    <3>1. Runs
      BY <1>3 DEF Runs
    <3>2. job.alive /\ (job.alive => row.state = "running")
      BY <1>3, Zenon DEF Train, BeginPeak, EndPeak, Bounce, Die, OwnDirectory
    <3>3. QED
      BY <3>1, <3>2, Zenon DEF Launch
  <2>2. \A d \in Dirs, s \in Steps : disk'[d].step[s] = disk[d].step[s]
    <3>1. \A v \in Files, d \in Dirs, s \in Steps :
            [disk EXCEPT ![job.out].peak = v][d].step[s] = disk[d].step[s]
      BY <1>0, PeakPut
    <3>2. CASE BeginPeak
      BY <3>1, <3>2, FilesAre, Zenon DEF BeginPeak
    <3>3. CASE EndPeak
      BY <3>1, <3>3, FilesAre, Zenon DEF EndPeak
    <3>4. CASE Train \/ Bounce \/ Die
      BY <3>4, Zenon DEF Train, Bounce, Die
    <3>5. QED
      BY <1>3, <3>2, <3>3, <3>4
  <2>3. job'.at = job.at
    <3>1. CASE Bounce
      BY <1>0, <3>1, Zenon DEF Bounce, AtNewest, Job
    <3>2. CASE Train \/ BeginPeak \/ EndPeak \/ Die
      BY <1>0, <3>2, Zenon DEF Train, BeginPeak, EndPeak, Die, Job
    <3>3. QED
      BY <1>3, <3>1, <3>2
  <2>4. \A d \in Dirs : Newest(d)' = Newest(d) /\ Complete(d)' = Complete(d)
    BY <2>2, SameFiles
  <2>5. QED
    BY <1>0, <1>1, <2>1, <2>2, <2>3, <2>4, RunFrame
<1>4. CASE BeginSave
  <2>1. job.alive /\ job.at + 1 \in Steps /\ ~Launch /\ Runs
    <3>1. job.alive /\ job.at < MaxStep
      BY <1>4 DEF BeginSave
    <3>2. row.state = "running"
      BY <3>1 DEF OwnDirectory
    <3>3. ~Launch /\ Runs
      BY <1>4, <3>2 DEF Launch, Runs
    <3>4. QED
      BY <1>0, <3>1, <3>3, CheckpointsConstantsOK, SMT DEF Steps
  <2>2. \A d \in Dirs, s \in Steps :
          disk'[d].step[s] = IF d = job.out /\ s = job.at + 1 THEN "torn" ELSE disk[d].step[s]
    <3>1. disk' = [disk EXCEPT ![job.out].step[job.at + 1] = "torn"]
      BY <1>4 DEF BeginSave
    <3>2. QED
      BY <1>0, <2>1, <3>1, FilesAre, DiskPut
  <2>3. disk[job.out].step[job.at + 1] # "complete"
    <3>1. SUFFICES ASSUME job.at + 1 \in Complete(job.out) PROVE FALSE
      BY <2>1 DEF Complete
    <3>2. job.at = Newest(job.out) /\ job.at + 1 <= Newest(job.out)
      BY <1>0, <2>1, <3>1, NewestIs, Zenon DEF AtNewest
    <3>3. QED
      BY <1>0, <3>2, SMT
  <2>4. ASSUME NEW d \in Dirs PROVE Newest(d)' = Newest(d) /\ Complete(d)' = Complete(d)
    <3>1. \A s \in Steps : disk'[d].step[s] = "complete" <=> disk[d].step[s] = "complete"
      BY <2>2, <2>3, Zenon
    <3>2. QED
      BY <3>1, SameFiles
  <2>5. job'.at = job.at
    BY <1>0, <1>4, Zenon DEF BeginSave, Job
  <2>6. \A s \in Steps : disk'[job.out].step[s] # "none" => disk[job.out].step[s] # "none" \/ s = job.at + 1
    BY <1>0, <2>2, Zenon
  <2>7. QED
    BY <1>1, <2>1, <2>4, <2>5, <2>6, RunFrame
<1>5. CASE EndSave
  <2>1. PICK out \in Dirs : out = job.out
    BY <1>0
  <2>2. PICK dir \in Dirs : dir = gc.dir
    BY <1>0
  <2>3. /\ job.alive /\ job'.at = job.at + 1 /\ job'.out = out /\ job'.xid = job.xid
        /\ gc' = gc
    BY <1>0, <1>5, <2>1, Zenon DEF EndSave, Job
  <2>4. /\ \A s \in Steps : disk'[out].step[s] # "none" => s <= job.at + 1
        /\ Complete(out)' # {} /\ Newest(out)' = job.at + 1 /\ Newest(out)' >= Newest(out)
    BY <1>5, <2>1, SaveIsNewest
  <2>5. ASSUME NEW d \in Dirs, d # out
        PROVE  Newest(d)' = Newest(d)
    <3>1. job.alive => row.state = "running"
      BY DEF OwnDirectory
    <3>2. Runs /\ ~Launch
      BY <1>5, <2>3, <3>1 DEF Runs, Launch
    <3>3. disk'[d] = disk[d]
      BY <2>1, <2>5, <3>2, RunFrame
    <3>4. QED
      BY <3>3, SameFiles
  <2>6. \A n \in Nat : n <= n + 1 /\ ~(n + 1 <= n) /\ \A s \in Nat : s <= n + 1 => s <= n + 1 + 1
    BY SMT
  <2>7. Steps \subseteq Nat
    BY DEF Steps
  <2>8. AtNewest'
    <3>1. Complete(job.out)' # {} /\ Newest(job.out)' = job'.at
      BY <2>3, <2>4
    <3>2. \A s \in Steps : disk'[out].step[s] # "none" => s <= job'.at + 1
      BY <1>0, <2>3, <2>4, <2>6, <2>7
    <3>3. QED
      BY <2>3, <3>1, <3>2, Zenon DEF AtNewest
  <2>9. NewestSpared'
    <3>1. Newest(dir)' \notin gc.doomed
      <4>1. CASE dir = out
        <5>1. \A s \in gc.doomed : s <= job.at
          BY <2>1, <2>2, <2>3, <4>1, Zenon DEF NewestSpared
        <5>2. Newest(dir)' = job.at + 1
          BY <2>4, <4>1
        <5>3. QED
          BY <1>0, <5>1, <5>2, SMT
      <4>2. CASE dir # out
        BY <2>2, <2>5, <4>2, Zenon DEF NewestSpared
      <4>3. QED
        BY <4>1, <4>2
    <3>2. dir = out => /\ \A s \in gc.steps : s <= job'.at + 1
                       /\ \A s \in gc.doomed : s <= job'.at
      <4>1. SUFFICES ASSUME dir = out
                     PROVE  /\ \A s \in gc.steps : s <= job'.at + 1
                            /\ \A s \in gc.doomed : s <= job'.at
        OBVIOUS
      <4>2. /\ \A s \in gc.steps : s <= job.at + 1
            /\ \A s \in gc.doomed : s <= job.at
        BY <2>1, <2>2, <2>3, <4>1 DEF NewestSpared
      <4>3. QED
        <5>1. \A s \in Nat : /\ s <= job.at + 1 => s <= job.at + 1 + 1
                             /\ s <= job.at => s <= job.at + 1
          BY <1>0, SMT
        <5>2. QED
          <6>1. ASSUME NEW s \in gc.steps PROVE s <= job'.at + 1
            <7>1. job'.at = job.at + 1 /\ s \in Nat
              BY <1>0, <2>3, <2>7
            <7>2. QED
              BY <1>0, <4>2, <7>1, SMT
          <6>2. ASSUME NEW s \in gc.doomed PROVE s <= job'.at
            <7>1. job'.at = job.at + 1 /\ s \in Nat
              BY <1>0, <2>3, <2>7
            <7>2. QED
              BY <1>0, <4>2, <7>1, SMT
          <6>3. QED
            BY <6>1, <6>2
    <3>3. Newest(gc.dir)' \notin gc.doomed
      BY <2>2, <2>3, <3>1
    <3>4. QED
      BY <2>2, <2>3, <3>2, <3>3, Zenon DEF NewestSpared
  <2>10. ASSUME NEW d \in Dirs PROVE Newest(d)' >= Newest(d)
    <3>1. CASE d # out
      <4>1. Newest(d)' = Newest(d) /\ Newest(d) \in Nat
        BY <2>5, <3>1, <1>a
      <4>2. QED
        BY <4>1, SMT
    <3>2. QED
      BY <2>4, <3>1
  <2>11. QED
    BY <2>8, <2>9, <2>10
<1>6. CASE Loop
  <2>1. UNCHANGED <<disk, gc>> /\ job'.out = job.out /\ job'.xid = job.xid
    BY <1>6, LoopFrame
  <2>2. \A d \in Dirs : Newest(d)' = Newest(d) /\ Complete(d)' = Complete(d)
    BY <2>1, SameFiles
  <2>3. PICK out \in Dirs : out = job.out
    BY <1>0
  <2>4. PICK dir \in Dirs : dir = gc.dir
    BY <1>0
  <2>5. job'.alive => job' = job /\ job.alive /\ row'.pointer = row.pointer
    BY <1>6, LoopFrame
  <2>6. Complete(job.out)' = Complete(out) /\ Newest(job.out)' = Newest(out) /\ Newest(gc.dir)' = Newest(dir)
    BY <2>1, <2>2, <2>3, <2>4
  <2>7. job'.alive => Progress(row.pointer)' = Progress(row.pointer)
    BY <2>5, Zenon DEF Progress
  <2>8. AtNewest'
    BY <2>1, <2>3, <2>5, <2>6, <2>7, Zenon DEF AtNewest
  <2>9. NewestSpared'
    BY <2>1, <2>4, <2>5, <2>6, Zenon DEF NewestSpared
  <2>10. ASSUME NEW d \in Dirs PROVE Newest(d)' >= Newest(d)
    <3>1. Newest(d)' = Newest(d) /\ Newest(d) \in Nat
      BY <2>2, <1>a
    <3>2. QED
      BY <3>1, SMT
  <2>11. QED
    BY <2>8, <2>9, <2>10
<1>7. CASE Sweep
  <2>1. PICK dir \in Dirs : dir = gc.dir
    BY <1>0
  <2>2. PICK out \in Dirs : out = job.out
    BY <1>0
  <2>3. row' = row /\ job' = job
    BY <1>7, SweepFrame
  <2>4. \A d \in Dirs, s \in Steps :
          disk'[d].step[s] # disk[d].step[s] => d = dir /\ s \in gc.doomed /\ disk'[d].step[s] = "none"
    BY <1>7, <2>1, SweepFrame
  <2>5. ASSUME NEW d \in Dirs
        PROVE  Newest(d)' = Newest(d) /\ (Complete(d)' = {} <=> Complete(d) = {})
    <3>1. Complete(d)' \subseteq Complete(d)
      BY <2>4 DEF Complete
    <3>2. CASE Complete(d) = {}
      BY <3>1, <3>2 DEF Newest
    <3>3. CASE Complete(d) # {}
      <4>1. Newest(d) \in Complete(d) /\ (d = dir => Newest(d) \notin gc.doomed)
        BY <2>1, <3>3, NewestIs DEF NewestSpared
      <4>2. Newest(d) \in Complete(d)'
        BY <2>4, <4>1, Zenon DEF Complete
      <4>3. Newest(d)' \in Complete(d) /\ Newest(d) <= Newest(d)'
        BY <3>1, <4>2, NextNewestIs
      <4>4. Newest(d)' <= Newest(d) /\ Newest(d)' \in Steps /\ Newest(d) \in Steps
        BY <4>1, <4>3, NewestIs DEF Complete
      <4>5. QED
        BY <4>2, <4>3, <4>4, SMT DEF Steps
    <3>4. QED
      BY <3>2, <3>3
  <2>6. AtNewest'
    <3>1. Newest(job.out)' = Newest(out) /\ (Complete(job.out)' = {} <=> Complete(out) = {})
      BY <2>2, <2>3, <2>5
    <3>2. \A s \in Steps : disk'[out].step[s] # "none" => disk[out].step[s] # "none"
      BY <2>4, Zenon
    <3>3. Progress(row.pointer)' = Progress(row.pointer)
      BY <2>3, Zenon DEF Progress
    <3>4. QED
      BY <2>2, <2>3, <3>1, <3>2, <3>3, Zenon DEF AtNewest
  <2>7. ASSUME gc'.dir \in Dirs, gc'.dir <= job.xid, Newest(gc'.dir) \notin gc'.doomed,
               job.alive /\ gc'.dir = job.out => \A s \in gc'.steps : s <= job.at + 1,
               job.alive /\ gc'.dir = job.out => \A s \in gc'.doomed : s <= job.at
        PROVE  NewestSpared'
    <3>1. PICK d \in Dirs : d = gc'.dir
      BY <2>7
    <3>2. Newest(gc.dir)' = Newest(d)
      BY <2>5, <3>1
    <3>3. QED
      BY <2>3, <2>7, <3>1, <3>2, Zenon DEF NewestSpared
  <2>8. ASSUME NEW d \in Dirs, GcList(d) PROVE NewestSpared'
    <3>1. gc'.dir = d /\ gc'.doomed = {} /\ gc'.steps = {s \in Steps : disk[d].step[s] # "none"}
      BY <2>8, Zenon DEF GcList, NoSweep
    <3>2. d <= job.xid
      <4>1. ~(d > job.xid)
        BY <2>8, Zenon DEF GcList, OwnDirectory
      <4>2. QED
        BY <1>0, <4>1, SMT DEF Dirs
    <3>3. job.alive /\ d = job.out => \A s \in gc'.steps : s <= job.at + 1
      BY <3>1, Zenon DEF AtNewest
    <3>4. QED
      BY <2>7, <3>1, <3>2, <3>3, Zenon
  <2>9. ASSUME GcPlan PROVE NewestSpared'
    <3> DEFINE complete == Complete(dir) \cap gc.steps
    <3>1. gc' = [gc EXCEPT !.pc = "doomed", !.doomed = gc.steps \ Kept(complete),
                           !.peak = @ /\ disk[gc.dir].peak # "complete"]
      BY <2>1, <2>9, Zenon DEF GcPlan
    <3>2. gc'.dir = dir /\ gc'.steps = gc.steps /\ gc'.doomed = gc.steps \ Kept(complete)
      BY <1>0, <2>1, <3>1, Zenon DEF SweepState
    <3>3. Newest(dir) \notin gc'.doomed
      <4>1. SUFFICES ASSUME Newest(dir) \in gc.steps PROVE Newest(dir) \in Kept(complete)
        BY <3>2
      <4>2. Newest(dir) # 0
        BY <1>0, <4>1, SMT DEF Steps
      <4>3. Newest(dir) \in complete /\ \A s \in complete : s <= Newest(dir)
        BY <4>1, <4>2, NewestIs
      <4>4. complete \in SUBSET (1..MaxStep)
        BY <1>0 DEF Steps
      <4> HIDE DEF complete
      <4>5. Greatest(complete) \in complete /\ Newest(dir) <= Greatest(complete)
        BY <4>3, <4>4, GreatestIs, CheckpointsConstantsOK
      <4>6. Greatest(complete) <= Newest(dir)
        BY <4>3, <4>5
      <4>7. Greatest(complete) = Newest(dir)
        <5>1. Newest(dir) \in 1..MaxStep /\ Greatest(complete) \in 1..MaxStep
          BY <4>3, <4>4, <4>5, Zenon
        <5>2. QED
          BY <4>5, <4>6, <5>1, CheckpointsConstantsOK, SMT
      <4>8. QED
        BY <4>3, <4>7, Zenon DEF Kept
    <3>4. job.alive /\ dir = job.out => /\ \A s \in gc'.steps : s <= job.at + 1
                                        /\ \A s \in gc'.doomed : s <= job.at
      <4>1. SUFFICES ASSUME job.alive, dir = job.out, NEW s \in gc'.doomed
                     PROVE  s <= job.at
        BY <2>1, <3>2, Zenon DEF NewestSpared
      <4>2. s \in gc.steps /\ s # Greatest(gc.steps)
        BY <3>2, <4>1, Zenon DEF Kept
      <4>3. gc.steps \in SUBSET (1..MaxStep)
        BY <1>0 DEF Steps
      <4>4. s <= Greatest(gc.steps) /\ Greatest(gc.steps) \in gc.steps
        BY <4>2, <4>3, GreatestIs, CheckpointsConstantsOK
      <4>5. Greatest(gc.steps) <= job.at + 1
        BY <2>1, <4>1, <4>4, Zenon DEF NewestSpared
      <4>6. QED
        BY <1>0, <4>2, <4>3, <4>4, <4>5, SMT
    <3>5. dir <= job.xid
      BY <2>1 DEF NewestSpared
    <3>6. QED
      BY <2>7, <3>2, <3>3, <3>4, <3>5
  <2>10. ASSUME GcRemove PROVE NewestSpared'
    <3>1. gc'.dir = gc.dir /\ gc'.steps = gc.steps /\ gc'.doomed \subseteq gc.doomed
      BY <1>0, <2>10, Zenon DEF GcRemove, SweepState
    <3>2. /\ gc'.dir \in Dirs /\ gc'.dir <= job.xid /\ Newest(gc'.dir) \notin gc'.doomed
          /\ job.alive /\ gc'.dir = job.out => \A s \in gc'.steps : s <= job.at + 1
          /\ job.alive /\ gc'.dir = job.out => \A s \in gc'.doomed : s <= job.at
      BY <1>0, <3>1 DEF NewestSpared
    <3>3. QED
      BY <2>7, <3>2
  <2>11. ASSUME GcEnd PROVE NewestSpared'
    <3>1. gc'.dir = 0 /\ gc'.doomed = {} /\ gc'.steps = {}
      BY <2>11, Zenon DEF GcEnd, NoSweep
    <3>2. 0 \in Dirs /\ 0 <= job.xid
      BY <1>0, CheckpointsConstantsOK, SMT DEF Dirs
    <3>3. QED
      BY <2>7, <3>1, <3>2
  <2>12. NewestSpared'
    BY <1>7, <2>8, <2>9, <2>10, <2>11 DEF Sweep
  <2>13. ASSUME NEW d \in Dirs PROVE Newest(d)' >= Newest(d)
    <3>1. Newest(d)' = Newest(d) /\ Newest(d) \in Nat
      BY <2>5, <1>a
    <3>2. QED
      BY <3>1, SMT
  <2>14. QED
    BY <2>6, <2>12, <2>13
<1>8. CASE UNCHANGED vars
  <2>1. \A d \in Dirs : Newest(d)' = Newest(d) /\ Complete(d)' = Complete(d)
    BY <1>8, SameFiles DEF vars
  <2>2. QED
    BY <1>1, <1>8, <2>1 DEF vars
<1>9. QED
  BY <1>2, <1>3, <1>4, <1>5, <1>6, <1>7, <1>8 DEF Next, Runs
-----------------------------------------------------------------------------
(* The theorems.                                                           *)

\* It holds at first.
LEMMA LineageInit == Init => Lineage
  BY InitTyped, OwnDirectoryInit, OriginInit, LogInit DEF Lineage

\* And every step keeps it.
LEMMA LineageStep == Lineage /\ [Next]_vars => Lineage'
<1> SUFFICES ASSUME Lineage, [Next]_vars PROVE Lineage'
  OBVIOUS
<1>1. TypeOK /\ BelowLimit /\ OwnDirectory /\ OriginAlone /\ LogTells
  BY DEF Lineage
<1>2. TypeOK' /\ BelowLimit'
  BY <1>1, TypedStep
<1>3. OwnDirectory' /\ OriginAlone' /\ LogTells'
  BY <1>1, OwnDirectoryStep, OriginStep, LogStep
<1>4. QED
  BY <1>2, <1>3 DEF Lineage

\* Every variable keeps its type, whatever fails.
THEOREM TypeCorrect == Spec => []TypeOK
<1>1. Lineage => TypeOK
  BY DEF Lineage
<1>2. QED
  BY <1>1, LineageInit, LineageStep, PTL DEF Spec

\* The checkpoint a run was told to start from is deleted by nobody, whatever fails.
THEOREM SourceStays == Spec => ResumeSourceStays
<1> DEFINE A == (row.state \in {"queued", "running"} /\ row'.pointer = row.pointer /\ Stored(row.pointer))
                  => Stored(row.pointer)'
<1>1. Lineage /\ [Next]_vars => [A]_vars
  BY SourceStep DEF Lineage
<1>2. QED
  BY <1>1, LineageInit, LineageStep, PTL DEF Spec, ResumeSourceStays

\* If the cell of an experiment is always known, no dead run that completed a checkpoint starts
\* over from step 0, be it that a listing failed or that the log was cut.
THEOREM NoBlindColdRestart ==
  ASSUME "nocell" \notin Faults
  PROVE  Spec => ColdOnlyWithNothing
<1> DEFINE A == (layout # "eqr" /\ row.state = "running" /\ move.pc = "idle"
                   /\ row'.state = "queued" /\ row'.pointer = NoCkpt)
                  => Complete(job.out) = {} /\ row.known = NoCkpt
<1>1. Lineage /\ [Next]_vars => [A]_vars
  BY ColdStep DEF Lineage
<1>2. QED
  BY <1>1, LineageInit, LineageStep, PTL DEF Spec, ColdOnlyWithNothing

\* Unless a run started from another run's checkpoint, no queued row points at an older checkpoint
\* than the run was ever seen to have, whatever fails.
THEOREM NoRewind ==
  ASSUME ~FineTune
  PROVE  Spec => []NeverRewinds
<1>1. Lineage /\ NeverRewinds /\ WarmIsNewest /\ [Next]_vars => NeverRewinds' /\ WarmIsNewest'
  BY RewindStep
<1>2. QED
  BY <1>1, RewindInit, LineageInit, LineageStep, PTL DEF Spec

\* If the probes of a sweep do not fail, no directory ever loses its newest complete checkpoint.
THEOREM NewestIsKept ==
  ASSUME "probe" \notin Faults
  PROVE  Spec => NewestStays
<1> DEFINE A == \A d \in Dirs : Newest(d)' >= Newest(d)
<1>1. Lineage /\ AtNewest /\ NewestSpared /\ [Next]_vars => AtNewest' /\ NewestSpared' /\ [A]_vars
  BY NewestStep
<1>2. QED
  BY <1>1, NewestInit, LineageInit, LineageStep, PTL DEF Spec, NewestStays
=============================================================================
