------------------------------ MODULE Checkpoints ------------------------------
(***************************************************************************)
(* The checkpoints of one run: who writes them, how route_check.py finds   *)
(* the one a restart resumes from, and what scripts/ckpt_gc.py deletes.    *)
(*                                                                         *)
(* A run is a chain of experiments, each with an output directory.  Its    *)
(* queue row carries a pointer, the checkpoint the next experiment starts  *)
(* from, and the newest checkpoint the router was ever able to see.  Reads *)
(* of CNS fail; a failed read is not an empty directory.                   *)
(*                                                                         *)
(* What a row goes through besides is in JobQueue; here a queued row just  *)
(* becomes a new experiment.                                               *)
(***************************************************************************)
EXTENDS Naturals

CONSTANTS MaxXid,          \* bound: experiments
          MaxStep,         \* bound: steps
          Layouts,         \* how a family of jobs lays out its checkpoints
          Origins,         \* steps of the checkpoint the run's user named; 0 for none
          FineTune,        \* that checkpoint is of another run, a pretraining
          Faults,          \* what may go wrong
          MaxAutoResumes,  \* auto_resume_max
          CnsReadMax,      \* CNS_READ_MAX_FAILURES
          Threshold,       \* inplace_restart_threshold
          Milestone,       \* --milestone
          MaxSweeps        \* bound: passes of ckpt_gc

ASSUME CheckpointsConstantsOK ==
  /\ MaxXid \in Nat \ {0} /\ MaxStep \in Nat \ {0}
  /\ Layouts \subseteq {"torch", "elt", "eqr"} /\ Layouts # {}
  /\ Origins \subseteq 0..MaxStep /\ Origins # {}
  /\ FineTune \in BOOLEAN
  /\ Faults \subseteq {"unread", "blindlog", "nocell", "sibling", "bug", "prune", "probe"}
  /\ MaxAutoResumes \in Nat /\ CnsReadMax \in Nat \ {0}
  /\ Threshold \in Nat \ {0} /\ Milestone \in Nat /\ MaxSweeps \in Nat

VARIABLES
  layout,   \* of this run
  disk,     \* each output directory: its steps and its peak
  row,      \* the queue row
  job,      \* the experiment of the row
  move,     \* the reroute under way
  gc,       \* the sweep under way
  sweeps

vars == <<layout, disk, row, job, move, gc, sweeps>>

Steps == 1..MaxStep
Dirs  == 0..MaxXid       \* of each experiment; 0 is where the run's user started from
NoXid == 0
Files == {"none", "torn", "complete"}

\* torch steps/step_<N>.pt, elt checkpoints/<N>, eqr checkpoints/step_<N>.
Checkpoint == [dir : Dirs, step : 0..MaxStep]
NoCkpt == [dir |-> 0, step |-> 0]

\* The resume keys of a row's launch_kwargs: load_from, or restart_from and
\* restart_step.
Keys == {"load_from", "restart_from"}
Row == [state : {"queued", "running", "held", "failed"},
        xid : Dirs,
        pointer : Checkpoint,
        key : Keys,
        known : Checkpoint,               \* last_known_checkpoint
        resumes : 0..MaxAutoResumes,      \* more than the limit reads as the limit
        unread : 0..CnsReadMax,           \* cns_read_failures; likewise
        struck : BOOLEAN]                 \* its evictions hold a strike
Job == [xid : Dirs, alive : BOOLEAN, out : Dirs, at : 0..MaxStep,
        writing : {"nothing", "step", "peak"},
        trained : BOOLEAN, bug : BOOLEAN,           \* what its log shows
        preempted : BOOLEAN,                        \* what XManager says of its end
        restarts : 0..Threshold]                    \* in place, since its last checkpoint
NoJob == [xid |-> NoXid, alive |-> FALSE, out |-> 0, at |-> 0, writing |-> "nothing", trained |-> FALSE, bug |-> FALSE,
          preempted |-> FALSE, restarts |-> 0]

NoMove == [pc |-> "idle", warm |-> NoCkpt, thrash |-> FALSE]
NoSweep == [pc |-> "idle", dir |-> 0, steps |-> {}, doomed |-> {}, peak |-> FALSE]

TypeOK ==
  /\ layout \in Layouts
  /\ disk \in [Dirs -> [step : [Steps -> Files], peak : Files]]
  /\ row \in Row
  /\ job \in Job
  /\ move \in [pc : {"idle", "cancel"}, warm : Checkpoint, thrash : BOOLEAN]
  /\ gc \in [pc : {"idle", "listed", "doomed"}, dir : Dirs, steps : SUBSET Steps,
             doomed : SUBSET Steps, peak : BOOLEAN]
  /\ sweeps \in 0..MaxSweeps
-----------------------------------------------------------------------------
(* Checkpoints.                                                            *)

Complete(d) == {s \in Steps : disk[d].step[s] = "complete"}
Greatest(S) == CHOOSE s \in S : \A t \in S : t <= s
Newest(d) == IF Complete(d) = {} THEN 0 ELSE Greatest(Complete(d))
Stored(c) == c # NoCkpt /\ disk[c.dir].step[c.step] = "complete"

\* The step at which a run goes on when it starts from c.
Progress(c) == IF c.dir = 0 /\ FineTune THEN 0 ELSE c.step

\* _latest_complete_checkpoint looks for two of the three layouts.
Found(d) == IF layout \in {"torch", "elt"} /\ Newest(d) # 0
            THEN [dir |-> d, step |-> Newest(d)] ELSE NoCkpt

\* note_known_checkpoint: never to an older one.
Note(r, c) == IF c # NoCkpt /\ (r.known = NoCkpt \/ c.step > r.known.step)
              THEN [r EXCEPT !.known = c] ELSE r

\* pick_restart_checkpoint: the run's own, or else where it started from.
Pick(r, c) ==
  CASE c = NoCkpt /\ r.known = NoCkpt -> r.pointer
    [] c = NoCkpt /\ r.known # NoCkpt -> r.known
    [] c # NoCkpt /\ r.known = NoCkpt -> c
    [] OTHER -> IF c.step >= r.known.step THEN c ELSE r.known

Key == IF layout = "elt" THEN "restart_from" ELSE "load_from"

\* A faulty variant: every layout resumes by load_from.
ApplyLoadFrom(r, c) == [r EXCEPT !.pointer = c, !.key = "load_from"]

\* _apply_resume_pointer: the key of the layout, unless the step that key holds is a
\* greater one.
ApplyPointer(r, c) ==
  IF c.step >= r.pointer.step THEN [r EXCEPT !.pointer = c, !.key = Key] ELSE r

\* A faulty variant: the pointer is left as it is.
NotAdvanced(r) == r

\* advance_resume_pointer.
Advance(r) == IF r.known # NoCkpt /\ r.pointer # NoCkpt THEN ApplyPointer(r, r.known) ELSE r
-----------------------------------------------------------------------------
(* What a decision reads.                                                  *)

Read(ok, c, bug, trained) == [ok |-> ok, found |-> c, bug |-> bug, trained |-> trained]
FailedRead == Read(FALSE, NoCkpt, FALSE, FALSE)
NothingRead == Read(TRUE, NoCkpt, FALSE, FALSE)

\* A faulty variant: what cannot be read is not there.
EvidenceOrNothing ==
  {IF job.trained \/ job.bug THEN Read(TRUE, Found(job.out), job.bug, job.trained) ELSE NothingRead}
    \cup (IF "unread" \in Faults THEN {NothingRead} ELSE {})

\* looks_like_code_bug and looks_trained, of slices of the log that may fail unseen.
BugSeen == {job.bug} \cup (IF "blindlog" \in Faults THEN {FALSE} ELSE {})
StepSeen == {job.trained} \cup (IF "blindlog" \in Faults THEN {FALSE} ELSE {})

\* read_code_bug_and_checkpoint.  Without a log, nothing.  The listing may fail; and
\* without a cell there is no directory to read.
Evidence ==
  (IF job.trained \/ job.bug
   THEN {Read(TRUE, Found(job.out), log.bug, log.trained) :
           log \in [bug : BugSeen, trained : StepSeen]}
   ELSE {NothingRead})
  \cup (IF "unread" \in Faults THEN {FailedRead} ELSE {})
  \cup (IF "nocell" \in Faults THEN {NothingRead} ELSE {})

Siblings == {FALSE} \cup (IF "sibling" \in Faults THEN {TRUE} ELSE {})

\* The checkpoint a restart would resume from.
Chosen(r, ev) == IF ev.ok THEN Pick(r, ev.found) ELSE r.known

\* _termination_cause_of, or else looks_trained: not its own doing.
External(r, ev) == r.struck \/ job.preempted \/ ev.trained

\* plan_pruned_restart, for a row whose experiment is over or about to be.
Plan(r, ev, sibling, spent) ==
  IF ev.bug \/ sibling \/ spent THEN "hold"
  ELSE IF Chosen(r, ev) # NoCkpt THEN "warm"
  ELSE IF ev.ok /\ External(r, ev) THEN "cold" ELSE "hold"

\* build_warm_restart_entry, build_cold_restart_entry: the row of a restart.
Resumed(r) == [r EXCEPT !.state = "queued", !.xid = NoXid, !.resumes = @ + 1, !.unread = 0,
                        !.struck = FALSE]
Warm(r, c) == Resumed(ApplyPointer(r, c))
Cold(r) == [Resumed(r) EXCEPT !.pointer = NoCkpt, !.known = NoCkpt]

\* A faulty variant: the count runs past its limit.
CountUnreadOn(r) == [r EXCEPT !.unread = @ + 1]

CountUnread(r) == [r EXCEPT !.unread = IF @ < CnsReadMax THEN @ + 1 ELSE @]
-----------------------------------------------------------------------------
(* The job.                                                                *)

Init ==
  /\ layout \in Layouts
  /\ \E o \in Origins :
       /\ disk = [d \in Dirs |->
                    [step |-> [s \in Steps |-> IF d = 0 /\ s = o THEN "complete" ELSE "none"],
                     peak |-> "none"]]
       /\ row = [state |-> "queued", xid |-> NoXid, pointer |-> [dir |-> 0, step |-> o],
                 key |-> Key, known |-> NoCkpt, resumes |-> 0, unread |-> 0,
                 struck |-> FALSE]
  /\ job = NoJob
  /\ move = NoMove
  /\ gc = NoSweep
  /\ sweeps = 0

\* The row becomes an experiment.  An ELT job told to LOAD_FROM writes where it loads
\* from; a job without its checkpoint fails.
Launch ==
  /\ row.state = "queued" /\ job.xid < MaxXid
  /\ row' = [row EXCEPT !.state = "running", !.xid = job.xid + 1]
  /\ LET c == row.pointer
         there == c = NoCkpt \/ Stored(c)
         inside == c # NoCkpt /\ layout = "elt" /\ row.key = "load_from"
     IN job' = [NoJob EXCEPT !.xid = job.xid + 1, !.alive = there, !.bug = ~there,
                             !.out = IF inside THEN c.dir ELSE job.xid + 1,
                             !.at = Progress(c)]
  /\ UNCHANGED <<layout, disk, move, gc, sweeps>>

\* Its log has a training step; then it saves.  A save cut short leaves a torn file.
Train ==
  /\ job.alive /\ ~job.trained
  /\ job' = [job EXCEPT !.trained = TRUE]
  /\ UNCHANGED <<layout, disk, row, move, gc, sweeps>>
BeginSave ==
  /\ job.alive /\ job.trained /\ job.writing = "nothing" /\ job.at < MaxStep
  /\ job' = [job EXCEPT !.writing = "step"]
  /\ disk' = [disk EXCEPT ![job.out].step[job.at + 1] = "torn"]
  /\ UNCHANGED <<layout, row, move, gc, sweeps>>

\* max_to_keep, where the saver has it: what is older goes.
EndSave ==
  /\ job.alive /\ job.writing = "step"
  /\ job' = [job EXCEPT !.writing = "nothing", !.at = @ + 1, !.restarts = 0]
  /\ LET new == job.at + 1
         saved == [disk EXCEPT ![job.out].step[new] = "complete"]
     IN \/ disk' = saved
        \/ /\ "prune" \in Faults /\ layout # "eqr"
           /\ disk' = [saved EXCEPT ![job.out].step =
                         [s \in Steps |-> IF s < new THEN "none" ELSE saved[job.out].step[s]]]
  /\ UNCHANGED <<layout, row, move, gc, sweeps>>

\* A copy is promoted to the run's peak; its extra.json is written last.
BeginPeak ==
  /\ layout = "eqr" /\ job.alive /\ job.writing = "nothing"
  /\ Complete(job.out) # {} /\ disk[job.out].peak # "complete"
  /\ job' = [job EXCEPT !.writing = "peak"]
  /\ disk' = [disk EXCEPT ![job.out].peak = "torn"]
  /\ UNCHANGED <<layout, row, move, gc, sweeps>>
EndPeak ==
  /\ job.alive /\ job.writing = "peak"
  /\ job' = [job EXCEPT !.writing = "nothing"]
  /\ disk' = [disk EXCEPT ![job.out].peak = "complete"]
  /\ UNCHANGED <<layout, row, move, gc, sweeps>>

\* Borg restarts it in place: it goes on from the newest it has there.
Bounce ==
  /\ job.alive
  /\ job' = [job EXCEPT !.writing = "nothing",
                        !.at = IF Complete(job.out) # {} THEN Newest(job.out)
                               ELSE Progress(row.pointer),
                        !.restarts = IF @ < Threshold THEN @ + 1 ELSE @]
  /\ UNCHANGED <<layout, disk, row, move, gc, sweeps>>

\* It is preempted, and XManager may say so, or it fails of a bug, which its log shows.
Die ==
  /\ job.alive
  /\ \/ \E said \in BOOLEAN : job' = [job EXCEPT !.alive = FALSE, !.preempted = said]
     \/ "bug" \in Faults /\ job' = [job EXCEPT !.alive = FALSE, !.bug = TRUE]
  /\ UNCHANGED <<layout, disk, row, move, gc, sweeps>>
-----------------------------------------------------------------------------
(* The loop of route_check.py.                                             *)

Watched == row.state = "running" /\ move.pc = "idle"

\* run_checkpoint_census, for a row of a job that runs: a failed read changes nothing.
Census ==
  /\ Watched
  /\ row' = Note(row, Found(row.xid))
  /\ row' # row
  /\ UNCHANGED <<layout, disk, job, move, gc, sweeps>>

\* The experiment is over, and the row must be settled on the evidence of this read.
Settle(ev) ==
  /\ Watched /\ ~job.alive
  /\ ev \in Evidence
  /\ UNCHANGED <<layout, disk, job, move, gc, sweeps>>

\* Unreadable, a limited number of times: left alone.
Postpone(ev) ==
  /\ Settle(ev)
  /\ ~ev.ok /\ row.unread + 1 < CnsReadMax
  /\ row' = CountUnread(row)

\* A row that may be decided, as the decision sees it.
Decides(ev) == ev.ok \/ row.unread + 1 >= CnsReadMax
Judged(ev) == IF ev.ok THEN [Note(row, ev.found) EXCEPT !.unread = 0] ELSE CountUnread(row)
Verdict(ev, sibling) == Plan(Judged(ev), ev, sibling, row.resumes >= MaxAutoResumes)

RestartWarm(ev, sibling) ==
  /\ Settle(ev) /\ Decides(ev) /\ Verdict(ev, sibling) = "warm"
  /\ row' = Warm(Judged(ev), Chosen(Judged(ev), ev))
RestartCold(ev, sibling) ==
  /\ Settle(ev) /\ Decides(ev) /\ Verdict(ev, sibling) = "cold"
  /\ row' = Cold(Judged(ev))
\* Dead for good, or put before a human if that is for want of a read.
Bury(ev, sibling) ==
  /\ Settle(ev) /\ Decides(ev) /\ Verdict(ev, sibling) = "hold"
  /\ row' = [Judged(ev) EXCEPT !.state = IF ev.ok THEN "failed" ELSE "held"]

\* The job lives, but is stuck, or restarts in place and gets nowhere: its checkpoints
\* are read before it is cancelled, and if they cannot be it is left alone.
RerouteRead(ev, sibling, thrash) ==
  /\ Watched /\ job.alive
  /\ thrash => job.restarts = Threshold
  /\ ev \in Evidence
  /\ IF ev.ok
     THEN LET r == Note(row, ev.found)
              verdict == Plan(r, ev, sibling, FALSE)
          IN /\ row' = r
             /\ move' = [pc |-> "cancel", thrash |-> thrash,
                         warm |-> IF verdict = "warm" THEN Chosen(r, ev) ELSE NoCkpt]
     ELSE row' = CountUnread(row) /\ UNCHANGED move
  /\ UNCHANGED <<layout, disk, job, gc, sweeps>>

\* Cancelled, the row goes back to QUEUED, with the checkpoint read before or at least
\* no older a pointer than it is known to have reached.
Rerouted(r) == [r EXCEPT !.state = "queued", !.xid = NoXid, !.unread = 0,
                         !.struck = @ \/ move.thrash]
WarmInPlace(r, c) == [ApplyPointer(r, c) EXCEPT
                        !.resumes = IF @ < MaxAutoResumes THEN @ + 1 ELSE @]
RerouteCancel ==
  /\ move.pc = "cancel"
  /\ job' = [job EXCEPT !.alive = FALSE]
  /\ row' = IF move.warm # NoCkpt THEN WarmInPlace(Rerouted(row), move.warm)
            ELSE Advance(Rerouted(row))
  /\ move' = NoMove
  /\ UNCHANGED <<layout, disk, gc, sweeps>>
CancelFails ==
  /\ move.pc = "cancel"
  /\ move' = NoMove
  /\ UNCHANGED <<layout, disk, row, job, gc, sweeps>>

Decide == \E ev \in Evidence, sibling \in Siblings :
  \/ Postpone(ev) \/ RestartWarm(ev, sibling) \/ RestartCold(ev, sibling) \/ Bury(ev, sibling)
  \/ \E thrash \in BOOLEAN : RerouteRead(ev, sibling, thrash)
Loop == Census \/ Decide \/ RerouteCancel \/ CancelFails
-----------------------------------------------------------------------------
(* scripts/ckpt_gc.py --go.                                                *)

\* The names in a checkpoints/ directory; only eqr's are its to delete.
GcList(d) ==
  /\ gc.pc = "idle" /\ sweeps < MaxSweeps /\ layout = "eqr"
  /\ \E s \in Steps : disk[d].step[s] # "none"
  /\ gc' = [NoSweep EXCEPT !.pc = "listed", !.dir = d,
                           !.steps = {s \in Steps : disk[d].step[s] # "none"},
                           !.peak = disk[d].peak # "none"]
  /\ sweeps' = sweeps + 1
  /\ UNCHANGED <<layout, disk, row, job, move>>

\* A faulty variant: the greatest step is kept, complete or not.
KeptLatest(complete) ==
  {Greatest(gc.steps)} \cup {s \in gc.steps : Milestone > 0 /\ s % Milestone = 0}

\* The latest, the newest complete and the milestones.
Kept(complete) ==
  {Greatest(gc.steps)} \cup (IF complete = {} THEN {} ELSE {Greatest(complete)})
    \cup {s \in gc.steps : Milestone > 0 /\ s % Milestone = 0}

\* What has extra.json, by one more listing, or by a probe of each, which fails unseen.
GcPlan ==
  /\ gc.pc = "listed"
  /\ \E complete \in {Complete(gc.dir) \cap gc.steps}
                       \cup (IF "probe" \in Faults THEN {{}} ELSE {}) :
       gc' = [gc EXCEPT !.pc = "doomed", !.doomed = gc.steps \ Kept(complete),
                        !.peak = @ /\ disk[gc.dir].peak # "complete"]
  /\ UNCHANGED <<layout, disk, row, job, move, sweeps>>

GcRemove ==
  /\ gc.pc = "doomed"
  /\ \/ \E s \in gc.doomed :
          /\ disk' = [disk EXCEPT ![gc.dir].step[s] = "none"]
          /\ gc' = [gc EXCEPT !.doomed = @ \ {s}]
     \/ /\ gc.peak
        /\ disk' = [disk EXCEPT ![gc.dir].peak = "none"]
        /\ gc' = [gc EXCEPT !.peak = FALSE]
  /\ UNCHANGED <<layout, row, job, move, sweeps>>

\* The sweep is over, or the rest could not be removed.
GcEnd ==
  /\ gc.pc # "idle"
  /\ gc' = NoSweep
  /\ UNCHANGED <<layout, disk, row, job, move, sweeps>>

Sweep == (\E d \in Dirs : GcList(d)) \/ GcPlan \/ GcRemove \/ GcEnd
-----------------------------------------------------------------------------
Runs == Launch \/ Train \/ BeginSave \/ EndSave \/ BeginPeak \/ EndPeak \/ Bounce \/ Die
Next == Runs \/ Loop \/ Sweep
Spec == Init /\ [][Next]_vars
-----------------------------------------------------------------------------
(* Properties.                                                             *)

\* A queued run starts no earlier than the newest checkpoint it was ever seen to write,
\* whether a restart or a reroute queued it, and whatever could be read then.
\* (pick_restart_checkpoint, advance_resume_pointer: "that stale pointer silently
\* rewinds the run")
NeverRewinds ==
  (row.state = "queued" /\ row.pointer # NoCkpt /\ row.known # NoCkpt)
    => Progress(row.pointer) >= Progress(row.known)

\* A restart starts a dead run over from step 0 only if it had completed no checkpoint,
\* be it that a read failed or that the log said nothing.  In the layouts the router
\* looks for.  (run_reconcile, "never a cold rerun on a failed read")
ColdOnlyWithNothing ==
  [][(layout # "eqr" /\ row.state = "running" /\ move.pc = "idle"
        /\ row'.state = "queued" /\ row'.pointer = NoCkpt)
     => Complete(job.out) = {} /\ row.known = NoCkpt]_vars

\* The checkpoint a run was told to start from is not deleted by anyone, its own saver
\* included.  (_apply_resume_pointer, "orbax (max_to_keep) deletes the very checkpoints
\* it resumed from")
ResumeSourceStays ==
  [][(row.state \in {"queued", "running"} /\ row'.pointer = row.pointer /\ Stored(row.pointer))
     => Stored(row.pointer)']_vars

\* No directory ever loses its newest complete checkpoint, to a sweep of a run that is
\* alive and saving either.  (ckpt_gc.py, "safe to run against a cell with live jobs")
NewestStays == [][\A d \in Dirs : Newest(d)' >= Newest(d)]_vars

=============================================================================
