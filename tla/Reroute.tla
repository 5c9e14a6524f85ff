-------------------------------- MODULE Reroute --------------------------------
(***************************************************************************)
(* google3_tpu_utils/route_check.py: the sweep that takes a job which gets *)
(* nowhere off its slice and puts it back in the queue, and the jobs, the  *)
(* market and the probes it judges by.                                     *)
(*                                                                         *)
(* A step of the sweep is what it reads or does between two waits: the     *)
(* probes of one look, the second look after the gap, the read of the      *)
(* checkpoints with the cancel, and what it writes down.  A tick is half   *)
(* an hour, for the brake, which counts an hour.                           *)
(***************************************************************************)
EXTENDS Integers, FiniteSets

CONSTANTS Jobs,
          Limit,       \* moves an hour
          Threshold,   \* restarts without progress
          Failing,     \* the probes that may fail
          Unseen,      \* the jobs that save as step_<N>/, which the probe passes over
          Adopts,      \* whether a row may be adopted without its cell
          Lucky,       \* bound: the jobs Borg ever seats
          MaxLost      \* bound: crashes of the sweep, and of its history, moves not saved

Probes == {"status", "borg", "output", "restarts", "placement", "checkpoints", "cancel"}

ASSUME RerouteConstantsOK ==
  /\ IsFiniteSet(Jobs) /\ Lucky \subseteq Jobs /\ Unseen \subseteq Jobs
  /\ Limit \in Nat \ {0} /\ Threshold \in Nat \ {0}
  /\ Failing \subseteq Probes /\ Adopts \in BOOLEAN
  /\ MaxLost \in Nat

VARIABLES
  row,      \* of each job: its state, whether it has its cell, whether its patience is over
  exp,      \* the experiment of each
  sweep,    \* the pass: where it is, what is still to do, the job in hand, why it is to be
            \* moved, and, when that was decided, whether it had its slice or had earned it
  hist,     \* the moves the pass knows of: of this half hour, of the one before
  file,     \* and those saved
  made,     \* and those made
  lost      \* crashes, and moves that were not saved

vars == <<row, exp, sweep, hist, file, made, lost>>

Places == {"queued", "boot", "train", "dead"}
Row == [st : {"QUEUED", "SUBMITTED", "RUNNING"}, cell : BOOLEAN, due : BOOLEAN]

\* Starts are counted up to one more than a job may have that saved nothing.
Starts == 0..(Threshold + 1)
OneMore(n) == IF n > Threshold THEN n ELSE n + 1
Exp == [at : Places, odd : BOOLEAN, wrote : {"never", "fresh", "stale"},
        loud : BOOLEAN,      \* its last log has 8 KB, and moved within ten minutes
        saved : BOOLEAN,     \* there is a checkpoint the probe sees
        newer : Starts,      \* the logs of attempts newer than that checkpoint, or all
        since : Starts]      \* its starts since it really saved
Between(pc, todo) == [pc |-> pc, todo |-> todo, job |-> "none", why |-> "none",
                      seated |-> FALSE, earned |-> FALSE]
Idle == Between("idle", {})
Hour == [now : Nat, before : Nat]
None == [now |-> 0, before |-> 0]
Pass == [pc : {"idle", "look", "gap", "run", "read", "cancel", "record"}, todo : SUBSET Jobs,
         job : Jobs \cup {"none"}, why : {"none", "stuck", "thrash", "nominal"},
         seated : BOOLEAN, earned : BOOLEAN]

Live(j) == row[j].st # "QUEUED"

TypeOK ==
  /\ row \in [Jobs -> Row] /\ exp \in [Jobs -> Exp]
  /\ \A j \in Jobs : row[j].st = "QUEUED" => ~row[j].cell /\ ~row[j].due
  /\ sweep \in Pass
  /\ sweep.pc \in {"read", "cancel", "record"} => sweep.why # "none"
  /\ hist \in Hour /\ file \in Hour /\ made \in Hour /\ lost \in 0..MaxLost

NoExp == [at |-> "dead", odd |-> FALSE, wrote |-> "never", loud |-> FALSE, saved |-> FALSE,
          newer |-> 0, since |-> 0]

Init ==
  /\ row = [j \in Jobs |-> [st |-> "QUEUED", cell |-> FALSE, due |-> FALSE]]
  /\ exp = [j \in Jobs |-> NoExp]
  /\ sweep = Idle
  /\ hist = None /\ file = None /\ made = None
  /\ lost = 0
-----------------------------------------------------------------------------
(* What the probes answer.                                                 *)

Seated(e) == e.at \in {"boot", "train"}

\* What a job must have done to be thrashing: its starts since it saved, but the one after the
\* save; or, if it never saved, its restarts.
Earned(e) == IF e.saved THEN e.since + 1 >= Threshold ELSE e.since > Threshold

\* XManager may say RUNNING of a job no group of which ever ran, and PENDING of one that
\* trains, between two segments of its shadow units.
Status(e, blind) ==
  IF "status" \in blind THEN "UNKNOWN"
  ELSE CASE e.at = "dead"   -> "TERMINAL"
         [] e.at = "queued" -> IF e.odd THEN "RUNNING" ELSE "PENDING"
         [] OTHER           -> IF e.odd THEN "PENDING" ELSE "RUNNING"

\* Without a cell there is nobody to ask.
VmGroup(j, blind) ==
  IF "borg" \in blind \/ ~row[j].cell THEN "unknown" ELSE IF Seated(exp[j]) THEN "run" ELSE "none"

Output(j, blind) == IF "output" \in blind \/ ~row[j].cell THEN "failed" ELSE exp[j].wrote

\* No restarts where there is nothing to read, or of a job whose last log is long and moves.
Unmeasured(j, blind) == "restarts" \in blind \/ ~row[j].cell \/ exp[j].loud

\* A faulty variant: the first start counts as a restart.
RestartsFirst(j, blind) == IF Unmeasured(j, blind) THEN 0 ELSE exp[j].newer

\* The logs of attempts newer than the newest checkpoint; without one, all but the first.
Restarts(j, blind) ==
  IF Unmeasured(j, blind) THEN 0
  ELSE IF exp[j].saved \/ exp[j].newer = 0 THEN exp[j].newer ELSE exp[j].newer - 1
-----------------------------------------------------------------------------
(* The sweep.                                                              *)

Moves(h) == h.now + h.before
Brake(h) == Moves(h) >= Limit
Noted(h) == [h EXCEPT !.now = @ + 1]

\* A faulty variant: a row that was promoted is looked at no more.
CandidatesSubmitted == {j \in Jobs : row[j].st = "SUBMITTED" /\ row[j].due}
\* needs_reroute and needs_liveness_recheck.
Candidates == {j \in Jobs : Live(j) /\ row[j].due}

\* A pass is opened on the history that was saved.
Begin ==
  /\ sweep.pc = "idle" /\ Candidates # {} /\ ~Brake(file)
  /\ sweep' = Between("look", Candidates)
  /\ hist' = file
  /\ UNCHANGED <<row, exp, file, made, lost>>

\* Nothing to do, or too much was done.
BrakeOpening == FALSE
BrakeInPass == Brake(hist)
Close ==
  /\ sweep.pc = "look" /\ (sweep.todo = {} \/ BrakeInPass)
  /\ sweep' = Idle /\ hist' = None
  /\ UNCHANGED <<row, exp, file, made, lost>>

\* The row is left for the next pass, or taken a step further.
Rest(j) == Between("look", sweep.todo \ {j})
Left(j) == sweep' = Rest(j) /\ UNCHANGED row
Step(j, pc, why) ==
  sweep' = [pc |-> pc, todo |-> sweep.todo \ {j}, job |-> j, why |-> why,
            seated |-> why # "thrash" /\ Seated(exp[j]), earned |-> why = "thrash" /\ Earned(exp[j])]
At(pc, j) == sweep.pc = pc /\ sweep.job = j

\* A row that lost its cell gets it back from the experiment, if that can be read.
Recovered(j, blind) ==
  row' = IF "placement" \in blind THEN row ELSE [row EXCEPT ![j].cell = TRUE]

\* Borg has no group of it, or it wrote nothing of late.  What was written is not asked of a
\* job no group of which runs; and a listing that fails leaves the job alone.
NoSign(j, blind) == VmGroup(j, blind) = "none" \/ Output(j, blind) \in {"never", "stale"}

\* One row of the list: what XManager says of it decides which checks it gets.  A dead one is
\* the reconcile's.
Look(j, blind) ==
  /\ sweep.pc = "look" /\ j \in sweep.todo /\ ~BrakeInPass
  /\ LET status == Status(exp[j], blind)
     IN \/ status = "PENDING" /\ NoSign(j, blind) /\ Step(j, "gap", "none") /\ UNCHANGED row
        \/ status = "PENDING" /\ ~NoSign(j, blind) /\ Left(j)
        \/ status = "RUNNING" /\ Step(j, "run", "none") /\ Recovered(j, blind)
        \/ status \in {"UNKNOWN", "TERMINAL"} /\ Left(j)
  /\ UNCHANGED <<exp, hist, file, made, lost>>

\* A faulty variant: the second look does not ask XManager again.
StuckOnce(j, blind) == NoSign(j, blind)
Stuck(j, blind) == NoSign(j, blind) /\ Status(exp[j], blind) = "PENDING"

\* The second look, after the gap.
Gap(j, blind) ==
  /\ At("gap", j)
  /\ \/ Stuck(j, blind) /\ Step(j, "read", "stuck") /\ UNCHANGED row
     \/ ~Stuck(j, blind) /\ Left(j)
  /\ UNCHANGED <<exp, hist, file, made, lost>>

Thrashes(j, blind) == Restarts(j, blind) >= Threshold

\* No group runs and nothing was ever written; or there is no cell to ask about.
Nominal(j, blind) ==
  \/ VmGroup(j, blind) = "none" /\ Output(j, blind) = "never"
  \/ ~row[j].cell

\* A job XManager calls RUNNING.
Judge(j, blind) ==
  /\ At("run", j)
  /\ \/ Thrashes(j, blind) /\ Step(j, "read", "thrash") /\ UNCHANGED row
     \/ ~Thrashes(j, blind) /\ Nominal(j, blind) /\ Step(j, "read", "nominal") /\ UNCHANGED row
     \/ /\ ~Thrashes(j, blind) /\ ~Nominal(j, blind)
        /\ sweep' = Rest(j)
        /\ row' = [row EXCEPT ![j].st =
             IF VmGroup(j, blind) = "none" /\ Output(j, blind) = "failed" THEN @ ELSE "RUNNING"]
  /\ UNCHANGED <<exp, hist, file, made, lost>>

\* Its checkpoints are read before it is cancelled; if they cannot be, it is left alone.
Read(j, blind) ==
  /\ At("read", j)
  /\ sweep' = IF "checkpoints" \in blind THEN Rest(j) ELSE [sweep EXCEPT !.pc = "cancel"]
  /\ UNCHANGED <<row, exp, hist, file, made, lost>>

Cancel(j, blind) ==
  /\ At("cancel", j)
  /\ IF "cancel" \in blind THEN sweep' = Rest(j) /\ UNCHANGED <<exp, made>>
     ELSE /\ sweep' = [sweep EXCEPT !.pc = "record"]
          /\ exp' = [exp EXCEPT ![j].at = "dead"]
          /\ made' = Noted(made)
  /\ UNCHANGED <<row, hist, file, lost>>

\* mark_reroute.  A faulty variant: the time of the submission stays.
RequeuedDue(r) == [st |-> "QUEUED", cell |-> FALSE, due |-> r.due]
Requeued(r) == [st |-> "QUEUED", cell |-> FALSE, due |-> FALSE]

\* The history is saved if the disk lets it be.
Record(j) ==
  /\ At("record", j)
  /\ hist' = Noted(hist)
  /\ \/ file' = hist' /\ UNCHANGED lost
     \/ lost < MaxLost /\ lost' = lost + 1 /\ UNCHANGED file
  /\ row' = [row EXCEPT ![j] = Requeued(@)]
  /\ sweep' = Rest(j)
  /\ UNCHANGED <<exp, made>>

\* The loop dies and is started again.
Crash ==
  /\ sweep.pc # "idle" /\ lost < MaxLost
  /\ lost' = lost + 1
  /\ sweep' = Idle /\ hist' = None
  /\ UNCHANGED <<row, exp, file, made>>

Sweep(j, blind) == Look(j, blind) \/ Gap(j, blind) \/ Judge(j, blind) \/ Read(j, blind) \/ Cancel(j, blind)
-----------------------------------------------------------------------------
(* The rest of the system.                                                 *)

\* A build ends with its job submitted, placed or adopted.
Submit(j) ==
  /\ row[j].st = "QUEUED"
  /\ \E cell \in {TRUE} \cup (IF Adopts THEN {FALSE} ELSE {}) :
       row' = [row EXCEPT ![j] = [st |-> "SUBMITTED", cell |-> cell, due |-> FALSE]]
  /\ exp' = [exp EXCEPT ![j] = [NoExp EXCEPT !.at = "queued"]]
  /\ UNCHANGED <<sweep, hist, file, made, lost>>

\* The patience of the row is over.
Age(j) ==
  /\ Live(j) /\ ~row[j].due
  /\ row' = [row EXCEPT ![j].due = TRUE]
  /\ UNCHANGED <<exp, sweep, hist, file, made, lost>>

\* The reconcile: a row whose experiment runs is promoted; one whose experiment is dead goes
\* back to the queue.
Reconcile(j) ==
  /\ sweep.pc = "idle" /\ Live(j)
  /\ \/ row[j].st = "SUBMITTED" /\ Status(exp[j], {}) = "RUNNING" /\ row' = [row EXCEPT ![j].st = "RUNNING"]
     \/ Status(exp[j], {}) = "TERMINAL" /\ row' = [row EXCEPT ![j] = Requeued(@)]
  /\ UNCHANGED <<exp, sweep, hist, file, made, lost>>

Moved(j, e) == exp' = [exp EXCEPT ![j] = e] /\ UNCHANGED <<row, sweep, hist, file, made, lost>>

\* Borg seats the job, loses it, or starts it again on its slice.
Seat(j) == exp[j].at = "queued" /\ j \in Lucky /\ Moved(j, [exp[j] EXCEPT !.at = "boot", !.odd = FALSE])
Preempt(j) == Seated(exp[j]) /\ Moved(j, [exp[j] EXCEPT !.at = "queued", !.odd = FALSE])
Restart(j) == exp[j].at = "train" /\ Moved(j, [exp[j] EXCEPT !.at = "boot", !.odd = FALSE])

\* The program starts, on a new slice or the old one, with the log of another attempt.
Train(j) ==
  /\ exp[j].at = "boot"
  /\ Moved(j, [exp[j] EXCEPT !.at = "train", !.wrote = "fresh", !.loud = FALSE,
                             !.newer = OneMore(@), !.since = OneMore(@)])

\* A job that trains writes all the time, and saves now and then; the attempt that saved goes
\* on logging.
Save(j) ==
  /\ exp[j].at = "train"
  /\ Moved(j, IF j \in Unseen THEN [exp[j] EXCEPT !.since = 0]
              ELSE [exp[j] EXCEPT !.since = 0, !.saved = TRUE, !.newer = 0])
Log(j) ==
  /\ exp[j].at = "train" /\ ~exp[j].loud
  /\ Moved(j, [exp[j] EXCEPT !.loud = TRUE, !.newer = IF @ = 0 THEN 1 ELSE @])
Quiet(j) == exp[j].loud /\ Moved(j, [exp[j] EXCEPT !.loud = FALSE])
Stale(j) ==
  /\ exp[j].wrote = "fresh" /\ exp[j].at \in {"queued", "boot"}
  /\ Moved(j, [exp[j] EXCEPT !.wrote = "stale"])

\* XManager lies of a job that never ran, for good; of one that trains for a while.
Lie(j) ==
  /\ exp[j].at = "queued" /\ exp[j].wrote = "never" /\ ~exp[j].odd
  /\ Moved(j, [exp[j] EXCEPT !.odd = TRUE])
Shadow(j) == exp[j].at = "train" /\ Moved(j, [exp[j] EXCEPT !.odd = ~@])

Past(h) == [now |-> 0, before |-> h.now]
Tick ==
  /\ Moves(made) > 0 \/ Moves(file) > 0
  /\ hist' = Past(hist) /\ file' = Past(file) /\ made' = Past(made)
  /\ UNCHANGED <<row, exp, sweep, lost>>

World(j) == \/ Submit(j) \/ Age(j) \/ Reconcile(j) \/ Seat(j) \/ Preempt(j) \/ Restart(j)
            \/ Train(j) \/ Save(j) \/ Log(j) \/ Quiet(j) \/ Stale(j) \/ Lie(j) \/ Shadow(j)
Next ==
  \/ Begin \/ Close \/ Crash \/ Tick
  \/ \E j \in Jobs : World(j) \/ Record(j) \/ \E blind \in SUBSET Failing : Sweep(j, blind)

Spec == Init /\ [][Next]_vars

\* The loop goes on, with a reconcile before every pass; a probe that is asked again and again
\* answers; time passes.
FairSpec ==
  /\ Spec
  /\ WF_vars(Begin) /\ WF_vars(Close) /\ WF_vars(Tick)
  /\ \A j \in Jobs : /\ SF_vars(Look(j, {})) /\ SF_vars(Gap(j, {})) /\ SF_vars(Judge(j, {}))
                     /\ SF_vars(Read(j, {})) /\ SF_vars(Cancel(j, {}))
                     /\ WF_vars(Record(j)) /\ WF_vars(Age(j)) /\ SF_vars(Reconcile(j))
-----------------------------------------------------------------------------
(* Properties.                                                             *)

Kills(j) == exp[j].at # "dead" /\ exp'[j].at = "dead"

\* A job that has its slice, and had it when the sweep last looked at it, is not cancelled as
\* stuck or as running in name only.  (run_reroute, "Every guard can only turn a would-be
\* reroute OFF")
NeverCancelsTheLiving ==
  [][\A j \in Jobs : (Kills(j) /\ sweep.why # "thrash") =>
       ~(Seated(exp[j]) /\ sweep.seated)]_vars

\* A job is cancelled as thrashing only if, when it was judged, it had started Threshold - 1
\* times since it last saved, or had Threshold restarts and never saved: with the threshold of
\* three one that saves after every start is spared, however often it is moved.  Not so the
\* jobs whose checkpoints are not seen.  (decide_inplace_reroute, "A job that IS checkpointing
\* between preemptions ... is left alone no matter how often the market moves it")
ThrashSparesProgress ==
  [][\A j \in Jobs \ Unseen : (Kills(j) /\ sweep.why = "thrash") => sweep.earned]_vars

\* In no hour are more jobs moved than the limit, but for moves whose record was lost with a
\* crash or a disk.  (global_reroute_brake, "a runaway fuse")
BrakeHolds == Moves(made) <= Limit + lost

\* A submitted job that has no slice gets one or goes back to the queue, though XManager say
\* it runs and though the sweep die; a row without its cell only once it is said to run.
\* (needs_reroute, "A job is never given up on")
Waits(j) == Live(j) /\ ~Seated(exp[j])
StuckIsMoved ==
  \A j \in Jobs : (Waits(j) /\ (row[j].cell \/ exp[j].odd)) ~> ~Waits(j)
-----------------------------------------------------------------------------
(* Why the safety properties hold: what the sweep has in hand while it     *)
(* moves a job.                                                            *)

\* A job in hand is a live one, looked at once.
InHand ==
  /\ sweep.todo \subseteq {j \in Jobs : Live(j)}
  /\ sweep.pc = "idle" => sweep.todo = {}
  /\ sweep.pc \notin {"idle", "look"} =>
       sweep.job \in Jobs /\ Live(sweep.job) /\ sweep.job \notin sweep.todo

\* The probe counts at most the attempt that saved too many; one that trains has a log.
Seen(e) ==
  /\ e.newer <= e.since + 1
  /\ ~e.saved => e.newer <= e.since
  /\ ~e.saved /\ e.at = "train" => e.newer > 0
CountIsRight == \A j \in Jobs \ Unseen : Seen(exp[j])

\* What Borg seats is told apart from what it does not by what it writes or by its status.
Shows(e) == (e.at = "boot" => ~e.odd) /\ (e.at = "train" => e.wrote = "fresh")
SeatedShows == \A j \in Jobs : Shows(exp[j])

\* A job that is judged as running has its cell.
CellKnown == sweep.pc = "run" => row[sweep.job].cell

\* What was decided was true of the job when it was.
Deciding == sweep.pc \in {"read", "cancel", "record"}
Thrashing ==
  Deciding /\ sweep.why = "thrash" /\ sweep.job \notin Unseen => sweep.earned
Stranded == Deciding /\ sweep.why # "thrash" => ~sweep.seated

\* A history counts the moves made, the one in hand but for it, and those lost.
Unsaved == IF sweep.pc = "record" THEN 1 ELSE 0
Counts(h) == /\ made.now <= h.now + lost + Unsaved
             /\ Moves(made) <= Moves(h) + lost + Unsaved
Counted ==
  /\ Counts(file)
  /\ sweep.pc # "idle" => Counts(hist)
  /\ sweep.pc \in {"gap", "run", "read", "cancel"} => Moves(hist) < Limit
=============================================================================
