------------------------------- MODULE JobQueue -------------------------------
(***************************************************************************)
(* google3_tpu_utils/route_check.py: the job queue and the two daemons     *)
(* that drive it.                                                          *)
(*                                                                         *)
(* The builder (`--dispatch_worker`, one per queue file) dispatches QUEUED *)
(* rows and builds them one at a time with `tpu queue`, which creates the  *)
(* XManager experiment early in a build of many minutes and launches it at *)
(* the end.  The loop (`--reroute_loop`) reconciles rows with XManager and *)
(* moves stuck experiments, on a snapshot of the queue that it merges back *)
(* at the end of each pass.  Every write of the queue file is one locked   *)
(* read-modify-write: one step here.  Either daemon may be killed between  *)
(* any two steps and is started again.                                     *)
(***************************************************************************)
EXTENDS QueueRow, FiniteSets

CONSTANTS NoId,              \* no job
          Unminted, Cleared, \* a job id not used yet; one whose row was archived
          MaxBuildAttempts,  \* max_build_attempts
          RerouteLimit,      \* REROUTE_GLOBAL_MAX_PER_HOUR; the hour never passes
          MaxJobs,           \* bound: jobs enqueued
          MaxCrashes,        \* bound: daemons killed
          Evidence,          \* what a read of logs and checkpoints may say
          BuildEnds,         \* how a build may end
          Users,             \* what users may do besides enqueue
          Faults             \* what may go wrong outside the two daemons

ASSUME QueueConstantsOK ==
  /\ NoId \notin Ids
  /\ Unminted \notin Row /\ Cleared \notin Row /\ Unminted # Cleared
  /\ MaxBuildAttempts \in Nat \ {0}
  /\ RerouteLimit \in Nat /\ MaxJobs \in Nat /\ MaxCrashes \in Nat
  /\ Evidence \subseteq {"restartable", "nothing", "unreadable"}
  /\ BuildEnds \subseteq {"failed", "deferred", "stage", "launched", "nolaunch", "zombie", "timeout"}
  /\ Users \subseteq {"cancel", "requeue", "clear"}
  /\ Faults \subseteq {"orphan", "unbound", "nodir", "blind", "thrash", "late"}

VARIABLES
  queue,     \* the queue file: Ids -> row
  builder,   \* the dispatch worker and its `tpu queue` child
  pass,      \* the reroute loop's current pass
  dirty,     \* rows written since the pass took its baseline
  xm,        \* XManager: xid -> its experiment
  registry,  \* xid -> what the XID registry records of a cancel
  orphans,   \* `tpu queue` children that outlived their builder
  moves,     \* re-routes in the history file
  crashes,
  stopped    \* history: who stopped each experiment

vars == <<queue, builder, pass, dirty, xm, registry, orphans, moves, crashes, stopped>>
world == <<xm, registry, stopped>>

MaybeRow == Row \cup {Unminted, Cleared}
IsRow(r) == r \notin {Unminted, Cleared}
InState(q, S) == {j \in Ids : IsRow(q[j]) /\ q[j].state \in S}

XmState == {"none", "empty", "pending", "running", "completed", "stopped"}
Alive == {"pending", "running"}
Experiment == [state : XmState, job : Ids \cup {NoId}, run : Ids \cup {NoId}]
NoExperiment == [state |-> "none", job |-> NoId, run |-> NoId]

\* A locked write of the queue file.  Every write stamps times or reasons on the
\* rows it changes, so a row no longer equal to its baseline is a dirty row.
Save(q) ==
  /\ queue' = q
  /\ dirty' = IF pass.pc = "idle" THEN {} ELSE dirty \cup {j \in Ids : q[j] # queue[j]}
SaveRow(j, row) == Save([queue EXCEPT ![j] = row])

BuilderPC == {"dispatch", "apply", "claim", "plan", "build", "created", "bound", "record"}
BuilderState ==
  [pc      : BuilderPC,
   queued  : SUBSET Ids,                 \* dispatch: the candidates it planned
   job     : Ids \cup {NoId},            \* the claimed row's id ...
   claimed : Row \cup {Unminted},        \* ... and the copy the claim returned
   xid     : Xids \cup {NoXid},          \* the experiment the build created
   end     : BuildEnds \cup {""}]
AtDispatch == [pc |-> "dispatch", queued |-> {}, job |-> NoId, claimed |-> Unminted,
               xid |-> NoXid, end |-> ""]

PassPC == {"idle", "rows", "confirm", "cancel", "archive", "persist"}
PassState ==
  [pc      : PassPC,
   kind    : {"reconcile", "reroute"},
   copy    : [Ids -> MaybeRow],          \* the snapshot, as the pass edits it
   todo    : SUBSET Ids,                 \* rows it has still to look at
   touched : SUBSET Ids,                 \* snapshot rows it changed
   fresh   : SUBSET Ids,                 \* restart rows it appended
   row     : Ids \cup {NoId},            \* the row being moved
   cached  : BOOLEAN,                    \* make_registry_cancelled_lookup: loaded?
   cancels : SUBSET Xids]                \* ... the cancels it found
NoCopy == [j \in Ids |-> Unminted]
Between(kind) == [pc |-> "idle", kind |-> kind, copy |-> NoCopy, todo |-> {}, touched |-> {},
                  fresh |-> {}, row |-> NoId, cached |-> FALSE, cancels |-> {}]

TypeOK ==
  /\ queue \in [Ids -> MaybeRow]
  /\ builder \in BuilderState
  /\ pass \in PassState
  /\ dirty \in SUBSET Ids
  /\ xm \in [Xids -> Experiment]
  /\ registry \in [Xids -> {"live", "cancelled", "moved"}]
  /\ orphans \in SUBSET [job : Ids, run : Ids, xid : Xids \cup {NoXid}]
  /\ moves \in Nat
  /\ crashes \in 0..MaxCrashes
  /\ stopped \in [Xids -> {"", "user", "router"}]

Init ==
  /\ queue = NoCopy
  /\ builder = AtDispatch
  /\ pass = Between("reroute")
  /\ dirty = {}
  /\ xm = [x \in Xids |-> NoExperiment]
  /\ registry = [x \in Xids |-> "live"]
  /\ orphans = {}
  /\ moves = 0
  /\ crashes = 0
  /\ stopped = [x \in Xids |-> ""]
-----------------------------------------------------------------------------
(* The world: users, XManager, `tpu queue` children left behind.           *)

\* A job id is minted once; the pass may already have minted some.
Mintable(j) == queue[j] = Unminted /\ pass.copy[j] = Unminted

Enqueue(j) ==
  /\ Mintable(j)
  /\ Cardinality({i \in Ids : queue[i] # Unminted}) < MaxJobs
  /\ SaveRow(j, NewRow(j))
  /\ UNCHANGED <<builder, pass, world, orphans, moves, crashes>>

RequeueRow(j) ==
  /\ "requeue" \in Users
  /\ j \in InState(queue, {"HELD"})
  /\ SaveRow(j, RequeueHeld(queue[j]))
  /\ UNCHANGED <<builder, pass, world, orphans, moves, crashes>>

\* `tpu clear`: archive_finished_queue_rows drops the finished rows it matches.
ClearRow(j) ==
  /\ "clear" \in Users
  /\ j \in InState(queue, Finished)
  /\ AllXids(queue[j]) # {}
  /\ SaveRow(j, Cleared)
  /\ UNCHANGED <<builder, pass, world, orphans, moves, crashes>>

\* `tpu cancel` by a user: stop the experiment, then record it in the registry.
UserStop(x) ==
  /\ "cancel" \in Users
  /\ xm[x].state \in Alive
  /\ xm' = [xm EXCEPT ![x].state = "stopped"]
  /\ stopped' = [stopped EXCEPT ![x] = "user"]
  /\ UNCHANGED <<queue, builder, pass, dirty, registry, orphans, moves, crashes>>

UserMark(x) ==
  /\ stopped[x] = "user" /\ registry[x] = "live"
  /\ registry' = [registry EXCEPT ![x] = "cancelled"]
  /\ UNCHANGED <<queue, builder, pass, dirty, xm, orphans, moves, crashes, stopped>>

\* An experiment wins chips, loses them, completes or dies.
Evolve(x, from, to) ==
  /\ xm[x].state = from
  /\ xm' = [xm EXCEPT ![x].state = to]
  /\ UNCHANGED <<queue, builder, pass, dirty, registry, orphans, moves, crashes, stopped>>

XManager == \E x \in Xids :
  \/ Evolve(x, "pending", "running")
  \/ Evolve(x, "running", "pending")
  \/ Evolve(x, "running", "completed")
  \/ Evolve(x, "running", "stopped")

\* create_experiment: ids grow.  The launcher tags it with the job id and gives it
\* the run's config, hence its out_dir.
NextXid == CHOOSE x \in Xids : /\ xm[x].state = "none"
                               /\ \A y \in 1..x - 1 : xm[y].state # "none"
XidsLeft == \E x \in Xids : xm[x].state = "none"
Created(j, r) == xm' = [xm EXCEPT ![NextXid] = [state |-> "empty", job |-> j, run |-> r]]

\* A child whose builder was killed creates and launches its experiment, or dies.
OrphanStep(o) ==
  /\ \/ /\ o.xid = NoXid /\ XidsLeft
        /\ Created(o.job, o.run)
        /\ orphans' = (orphans \ {o}) \cup {[o EXCEPT !.xid = NextXid]}
     \/ /\ o.xid # NoXid
        /\ xm' = [xm EXCEPT ![o.xid].state = "pending"]
        /\ orphans' = orphans \ {o}
     \/ orphans' = orphans \ {o} /\ UNCHANGED xm
  /\ UNCHANGED <<queue, builder, pass, dirty, registry, moves, crashes, stopped>>
-----------------------------------------------------------------------------
(* The builder: run_dispatch_once, then run_worker_once, for ever.         *)

\* The builder leaves for label l with these other fields.
BuilderAt(l) == builder' = [builder EXCEPT !.pc = l]

\* A faulty variant: nothing is promoted.
DispatchUnpromoted ==
  /\ builder.pc = "dispatch"
  /\ LET ready == InState(queue, {"QUEUED"})
     IN builder' = IF InState(queue, {"BUILD_REQUESTED", "BUILDING"}) # {} \/ ready = {}
                   THEN [builder EXCEPT !.pc = "claim"]
                   ELSE [builder EXCEPT !.pc = "apply", !.queued = ready]
  /\ UNCHANGED <<queue, dirty, pass, world, orphans, moves, crashes>>

\* promote_deferred under the lock; then, on a plain read of the queue, the
\* backpressure gate and the candidates for this round.
Dispatch ==
  /\ builder.pc = "dispatch"
  /\ LET q == [j \in Ids |-> IF j \in InState(queue, {"BUDGET_DEFERRED"})
                             THEN Requeue(queue[j]) ELSE queue[j]]
         ready == InState(q, {"QUEUED"})
     IN /\ Save(q)
        /\ builder' = IF InState(q, {"BUILD_REQUESTED", "BUILDING"}) # {} \/ ready = {}
                      THEN [builder EXCEPT !.pc = "claim"]
                      ELSE [builder EXCEPT !.pc = "apply", !.queued = ready]
  /\ UNCHANGED <<pass, world, orphans, moves, crashes>>

\* Apply the plan to the candidates still QUEUED: some fit the headroom, some
\* are over the bar, some have no cell to go to.  With no budget reading, none.
Apply ==
  /\ builder.pc = "apply"
  /\ \E fit, over \in SUBSET builder.queued :
       /\ fit \cap over = {}
       /\ "deferred" \in BuildEnds \/ over = {}
       /\ LET still == InState(queue, {"QUEUED"})
          IN Save([j \in Ids |->
               CASE j \in fit \cap still  -> [queue[j] EXCEPT !.state = "BUILD_REQUESTED"]
                 [] j \in over \cap still -> [queue[j] EXCEPT !.state = "BUDGET_DEFERRED"]
                 [] OTHER -> queue[j]])
  /\ builder' = [builder EXCEPT !.pc = "claim", !.queued = {}]
  /\ UNCHANGED <<pass, world, orphans, moves, crashes>>

\* claim_next_build.  A BUILDING row met here is a claim of a builder that died:
\* this one has none.  It is reclaimed, and a requested row may be claimed.
Claim ==
  /\ builder.pc = "claim"
  /\ LET q == [j \in Ids |-> IF IsRow(queue[j]) THEN Reclaim(queue[j]) ELSE queue[j]]
         requested == InState(q, {"BUILD_REQUESTED"})
     IN \/ /\ requested = {}
           /\ Save(q)
           /\ builder' = AtDispatch
        \/ \E j \in requested :
             /\ Save([q EXCEPT ![j] = ClaimForBuild(@)])
             /\ builder' = [builder EXCEPT !.pc = "plan", !.job = j,
                                           !.claimed = ClaimForBuild(q[j])]
  /\ UNCHANGED <<pass, world, orphans, moves, crashes>>

\* update_entry: the row as it is now, whatever its state; a row gone is skipped.
TheRow == queue[builder.job]
Update(row) == IF IsRow(TheRow) THEN SaveRow(builder.job, row) ELSE UNCHANGED <<queue, dirty>>

\* Experiments tagged with the row's job id that the claimed copy does not know.
Escaped == {x \in Xids : xm[x].job = builder.job /\ x \notin AllXids(builder.claimed)}
MustProbe == builder.claimed.attempts > 0 /\ ~HasLive(builder.claimed)

\* No package directory, or more than one escaped experiment: HELD.
PlanHold ==
  /\ builder.pc = "plan"
  /\ "nodir" \in Faults \/ (MustProbe /\ Cardinality(Escaped) > 1)
  /\ Update(Hold(TheRow))
  /\ builder' = AtDispatch
  /\ UNCHANGED <<pass, world, orphans, moves, crashes>>

\* No cell right now, or the jobid lookup could not run: back to QUEUED.
PlanRequeue ==
  /\ builder.pc = "plan"
  /\ Update(Requeue(TheRow))
  /\ builder' = AtDispatch
  /\ UNCHANGED <<pass, world, orphans, moves, crashes>>

\* One escaped experiment: adopted, never rebuilt.
PlanAdopt ==
  /\ builder.pc = "plan"
  /\ MustProbe /\ Cardinality(Escaped) = 1
  /\ Update(AdoptRecovered(TheRow, CHOOSE x \in Escaped : TRUE))
  /\ builder' = AtDispatch
  /\ UNCHANGED <<pass, world, orphans, moves, crashes>>

PlanBuild ==
  /\ builder.pc = "plan"
  /\ MustProbe => Escaped = {}
  /\ BuilderAt("build")
  /\ UNCHANGED <<queue, dirty, pass, world, orphans, moves, crashes>>

\* The child creates its experiment and prints `Experiment id: N`.
Create ==
  /\ builder.pc = "build" /\ XidsLeft
  /\ Created(builder.job, builder.claimed.run)
  /\ builder' = [builder EXCEPT !.pc = "created", !.xid = NextXid]
  /\ UNCHANGED <<queue, dirty, pass, registry, stopped, orphans, moves, crashes>>

\* _bind_early: its exceptions are swallowed, so the binding may be missing.
Bind ==
  /\ builder.pc = "created"
  /\ \/ Update(OpenCreating(TheRow, builder.xid))
     \/ "unbound" \in Faults /\ UNCHANGED <<queue, dirty>>
  /\ BuilderAt("bound")
  /\ UNCHANGED <<pass, world, orphans, moves, crashes>>

\* The child ends before it created anything.
EndEarly(end) ==
  /\ builder.pc = "build"
  /\ end \in {"failed", "deferred", "stage", "timeout"}
  /\ builder' = [builder EXCEPT !.pc = "record", !.end = end]
  /\ UNCHANGED <<queue, dirty, pass, world, orphans, moves, crashes>>

\* The child ends: launched; with no launch line, leaving no work units or work
\* units that failed; or killed by the timeout, which recovers the early id.
End(end) ==
  /\ builder.pc = "bound"
  /\ end \in {"launched", "nolaunch", "zombie", "timeout"}
  /\ xm' = CASE end = "launched" -> [xm EXCEPT ![builder.xid].state = "pending"]
             [] end = "zombie"   -> [xm EXCEPT ![builder.xid].state = "stopped"]
             [] OTHER            -> xm
  /\ builder' = [builder EXCEPT !.pc = "record", !.end = end]
  /\ UNCHANGED <<queue, dirty, pass, registry, stopped, orphans, moves, crashes>>

\* The result of the build, written to the row as it is now.
Failed(row) ==
  LET n == builder.claimed.attempts + 1
  IN [row EXCEPT !.attempts = n, !.state = IF n >= MaxBuildAttempts THEN "HELD" ELSE "QUEUED"]
Result(row) ==
  CASE builder.end \in {"launched", "timeout"} /\ builder.xid # NoXid ->
         ApplyPlacement(row, builder.xid)
    [] builder.end = "deferred" -> [row EXCEPT !.state = "BUDGET_DEFERRED"]
    [] builder.end = "stage"    -> Requeue(row)
    [] OTHER                    -> Failed(row)

Record ==
  /\ builder.pc = "record"
  /\ Update(Result(TheRow))
  /\ builder' = AtDispatch
  /\ UNCHANGED <<pass, world, orphans, moves, crashes>>

\* The builder is killed.  Its child dies of it, or carries on with nobody reading.
BuilderCrash ==
  /\ crashes < MaxCrashes /\ builder.pc # "dispatch"
  /\ crashes' = crashes + 1
  /\ builder' = AtDispatch
  /\ \/ UNCHANGED orphans
     \/ /\ "orphan" \in Faults /\ builder.pc \in {"build", "created", "bound"}
        /\ orphans' = orphans \cup 
             {[job |-> builder.job, run |-> builder.claimed.run, xid |-> builder.xid]}
  /\ UNCHANGED <<queue, dirty, pass, world, moves>>
-----------------------------------------------------------------------------
(* The loop: a reconcile pass, then a reroute pass, for ever.              *)

\* `xid` names the experiment to judge.  A BUILDING row whose newest submission
\* has ended still shows that attempt's id, which says nothing about this build.
Judgeable(row) == /\ row.state \in Reconcilable /\ XidOf(row) # NoXid
                  /\ row.state = "BUILDING" => HasLive(row)

\* needs_reroute and needs_liveness_recheck: both clocks run from submitted_at.
Movable(row) == row.state \in {"SUBMITTED", "RUNNING"} /\ row.stamped /\ XidOf(row) # NoXid

\* A pass takes its snapshot, its baseline and the rows to look at.  With the
\* global brake engaged a reroute pass looks at none.
Begin(kind) ==
  LET Wanted(row) == IF kind = "reconcile" THEN Judgeable(row)
                                           ELSE Movable(row) /\ moves < RerouteLimit
  IN /\ pass.pc = "idle" /\ pass.kind # kind
     /\ pass' = [Between(kind) EXCEPT !.pc = "rows", !.copy = queue,
                   !.todo = {j \in Ids : IsRow(queue[j]) /\ Wanted(queue[j])}]
     /\ UNCHANGED <<queue, builder, dirty, world, orphans, moves, crashes>>

BeingBuilt(x) == \/ builder.xid = x /\ builder.pc \in {"created", "bound"}
                 \/ \E o \in orphans : o.xid = x

\* XManagerStatusProbe.status.  A build ends within the age that makes no work
\* units mean GONE, so an experiment still being built is too young for it.
Status(x) ==
  CASE xm[x].state = "pending"   -> "PENDING"
    [] xm[x].state = "running"   -> "RUNNING"
    [] xm[x].state = "completed" -> "COMPLETED"
    [] xm[x].state = "stopped"   -> "TERMINAL"
    [] OTHER -> IF BeingBuilt(x) THEN "YOUNG" ELSE "GONE"
Probed(x) == {Status(x)} \cup (IF "blind" \in Faults THEN {"UNKNOWN"} ELSE {})

Skip(j) == [pass EXCEPT !.todo = @ \ {j}]
Edit(j, row) == [Skip(j) EXCEPT !.copy[j] = row, !.touched = @ \cup {j}]

\* The cancels recorded, as this pass's lookup sees them: read once, then cached.
CancelsSeen == IF pass.cached THEN pass.cancels ELSE {x \in Xids : registry[x] = "cancelled"}
Consulted(p) == [p EXCEPT !.cached = TRUE, !.cancels = CancelsSeen]

\* has_live_config_sibling: an unfinished row of the same run in the snapshot.
HasSibling(j) == \E k \in InState(pass.copy, Unfinished) \ {j} :
                    pass.copy[k].run = pass.copy[j].run
MayRestart(j) == /\ ~HasSibling(j) /\ pass.copy[j].resumes < MaxAutoResumes
                 /\ \E k \in Ids : Mintable(k)

Looks(j, status) == /\ pass.pc = "rows" /\ pass.kind = "reconcile" /\ j \in pass.todo
                    /\ status \in Probed(XidOf(pass.copy[j]))
Verdict(j, status) == DecideReconcile(pass.copy[j], status)

\* No verdict, or one that is good news.
Settle(j, status) ==
  /\ Looks(j, status) /\ Verdict(j, status) # "FAILED"
  /\ pass' = IF Verdict(j, status) = "leave" THEN Skip(j)
             ELSE Edit(j, Become(pass.copy[j], Verdict(j, status)))
  /\ UNCHANGED <<queue, builder, dirty, world, orphans, moves, crashes>>

\* Dead, and the registry says that somebody stopped it on purpose.
SettleCancelled(j, status) ==
  /\ Looks(j, status) /\ Verdict(j, status) = "FAILED"
  /\ XidOf(pass.copy[j]) \in CancelsSeen
  /\ pass' = Consulted(Edit(j, MarkCancelled(pass.copy[j])))
  /\ UNCHANGED <<queue, builder, dirty, world, orphans, moves, crashes>>

Dies(j, status) == /\ Looks(j, status) /\ Verdict(j, status) = "FAILED"
                   /\ XidOf(pass.copy[j]) \notin CancelsSeen

\* A faulty variant: left alone every time.
PostponeForever(j, status) ==
  /\ Dies(j, status) /\ "unreadable" \in Evidence
  /\ pass' = Consulted(Edit(j, Unreadable(pass.copy[j])))
  /\ UNCHANGED <<queue, builder, dirty, world, orphans, moves, crashes>>

\* Dead, but the evidence cannot be read: left alone, a limited number of times.
Postpone(j, status) ==
  /\ Dies(j, status) /\ "unreadable" \in Evidence
  /\ pass.copy[j].unread + 1 < CnsReadMax
  /\ pass' = Consulted(Edit(j, Unreadable(pass.copy[j])))
  /\ UNCHANGED <<queue, builder, dirty, world, orphans, moves, crashes>>

\* Read too often in vain: the last known checkpoint, if any, decides.
LastRead(j) == "unreadable" \in Evidence /\ pass.copy[j].unread + 1 >= CnsReadMax
ReadAndDead(j) == [Become(pass.copy[j], "FAILED") EXCEPT !.unread = 0]
UnreadAndDead(j) == Unreadable(Become(pass.copy[j], "FAILED"))

\* Dead, and the run may be restarted from what survives: a new row for it.
Restart(j, status) ==
  /\ Dies(j, status) /\ MayRestart(j)
  /\ \E k \in Ids, row \in {ReadAndDead(j), UnreadAndDead(j)} :
       /\ row = ReadAndDead(j) => "restartable" \in Evidence
       /\ row = UnreadAndDead(j) => LastRead(j)
       /\ Mintable(k)
       /\ pass' = [Consulted(Edit(j, row)) EXCEPT !.copy[k] = Restarted(pass.copy[j]),
                                                 !.fresh = @ \cup {k}]
  /\ UNCHANGED <<queue, builder, dirty, world, orphans, moves, crashes>>

\* Dead, and there is nothing to restart from, a bug, a sibling or no resume left.
Bury(j, status) ==
  /\ Dies(j, status)
  /\ \/ "nothing" \in Evidence
     \/ "restartable" \in Evidence /\ ~MayRestart(j)
  /\ pass' = Consulted(Edit(j, ReadAndDead(j)))
  /\ UNCHANGED <<queue, builder, dirty, world, orphans, moves, crashes>>

\* Dead, unreadable to the end and no known checkpoint: a human must look.
Park(j, status) ==
  /\ Dies(j, status) /\ LastRead(j)
  /\ pass' = Consulted(Edit(j, Hold(UnreadAndDead(j))))
  /\ UNCHANGED <<queue, builder, dirty, world, orphans, moves, crashes>>
-----------------------------------------------------------------------------
(* The reroute pass.                                                       *)

Sweeps(j, status) == /\ pass.pc = "rows" /\ pass.kind = "reroute" /\ j \in pass.todo
                     /\ moves < RerouteLimit
                     /\ status \in Probed(XidOf(pass.copy[j]))

\* Alive on disk, dead (left to the reconcile pass) or not to be seen: no action.
Pass(j, status) ==
  /\ Sweeps(j, status) /\ status # "RUNNING"
  /\ pass' = IF status = "PENDING" /\ pass.copy[j].unread > 0
             THEN Edit(j, [pass.copy[j] EXCEPT !.unread = 0]) ELSE Skip(j)
  /\ UNCHANGED <<queue, builder, dirty, world, orphans, moves, crashes>>

\* The disk could not be read: flagged, never acted on.
Flag(j, status) ==
  /\ Sweeps(j, status) /\ status \in {"PENDING", "RUNNING"} /\ "unreadable" \in Evidence
  /\ pass' = Edit(j, Unreadable(pass.copy[j]))
  /\ UNCHANGED <<queue, builder, dirty, world, orphans, moves, crashes>>

Promote(j, status) ==
  /\ Sweeps(j, status) /\ status = "RUNNING"
  /\ pass' = Edit(j, [Become(pass.copy[j], "RUNNING") EXCEPT !.unread = 0])
  /\ UNCHANGED <<queue, builder, dirty, world, orphans, moves, crashes>>

\* Suspect: PENDING with no output, to be sampled again; or RUNNING on paper, or
\* restarting in place with no progress, which one sample settles.
Suspect(j, status) ==
  /\ Sweeps(j, status)
  /\ status = "PENDING" \/ (status = "RUNNING" /\ "thrash" \in Faults)
  /\ pass' = [Skip(j) EXCEPT !.pc = IF status = "PENDING" THEN "confirm" ELSE "cancel",
                             !.row = j]
  /\ UNCHANGED <<queue, builder, dirty, world, orphans, moves, crashes>>

\* The second sample: still PENDING with no output; or alive, or not, or unreadable.
Confirm(status) ==
  /\ pass.pc = "confirm" /\ status \in Probed(XidOf(pass.copy[pass.row]))
  /\ LET row == pass.copy[pass.row]
         Leave(r) == [Edit(pass.row, r) EXCEPT !.pc = "rows", !.row = NoId]
     IN \/ status = "PENDING" /\ pass' = [pass EXCEPT !.pc = "cancel"]
        \/ pass' \in {Leave(row), Leave([row EXCEPT !.unread = 0])}
        \/ "unreadable" \in Evidence /\ pass' = Leave(Unreadable(row))
  /\ UNCHANGED <<queue, builder, dirty, world, orphans, moves, crashes>>

\* `tpu cancel`, as the router runs it, did its work on the experiment.
RouterCancels(x) ==
  /\ xm' = IF xm[x].state \in Alive THEN [xm EXCEPT ![x].state = "stopped"] ELSE xm
  /\ stopped' = IF xm[x].state \in Alive THEN [stopped EXCEPT ![x] = "router"] ELSE stopped
  /\ registry' = [registry EXCEPT ![x] = IF @ = "live" THEN "cancelled" ELSE @]

\* A faulty variant: the row is moved whether or not the cancel worked.
CancelUnchecked ==
  /\ pass.pc = "cancel"
  /\ RouterCancels(XidOf(pass.copy[pass.row])) \/ UNCHANGED world
  /\ moves' = moves + 1
  /\ pass' = [Edit(pass.row, MarkReroute(pass.copy[pass.row])) EXCEPT !.pc = "archive"]
  /\ UNCHANGED <<queue, builder, dirty, orphans, crashes>>

\* Checkpoints read first; cancel; the row goes back to QUEUED in the copy, warm
\* when a checkpoint survives.  The re-route is counted in the history file.
Cancel ==
  /\ pass.pc = "cancel"
  /\ RouterCancels(XidOf(pass.copy[pass.row]))
  /\ moves' = moves + 1
  /\ LET moved == MarkReroute(pass.copy[pass.row])
     IN \E row \in {moved} \cup (IF "restartable" \in Evidence /\ ~HasSibling(pass.row)
                                THEN {WarmInPlace(moved)} ELSE {}) :
          pass' = [Edit(pass.row, row) EXCEPT !.pc = "archive"]
  /\ UNCHANGED <<queue, builder, dirty, orphans, crashes>>

\* Not cancelled: the checkpoints could not be read, or the cancel reported
\* failure -- one that timed out may have done its work all the same.
CancelFails ==
  /\ pass.pc = "cancel"
  /\ \/ "unreadable" \in Evidence /\ UNCHANGED world
        /\ pass' = [Edit(pass.row, Unreadable(pass.copy[pass.row]))
                      EXCEPT !.pc = "rows", !.row = NoId]
     \/ \/ UNCHANGED world
        \/ "late" \in Faults /\ RouterCancels(XidOf(pass.copy[pass.row]))
        /\ pass' = [pass EXCEPT !.pc = "rows", !.row = NoId]
  /\ UNCHANGED <<queue, builder, dirty, orphans, moves, crashes>>

\* _archive_rerouted_xid: off the board, archived_by = 'reroute'.
Archive ==
  /\ pass.pc = "archive"
  /\ LET old == Newest(pass.copy[pass.row]).xid
     IN registry' = [registry EXCEPT ![old] = "moved"]
  /\ pass' = [pass EXCEPT !.pc = "persist"]
  /\ UNCHANGED <<queue, builder, dirty, xm, stopped, orphans, moves, crashes>>

\* Faulty variants: changed rows are written over whatever is there; the whole
\* snapshot is.
MergedBlind == [j \in Ids |-> IF j \in pass.fresh \cup pass.touched THEN pass.copy[j] ELSE queue[j]]
MergedWhole == [j \in Ids |-> IF IsRow(pass.copy[j]) THEN pass.copy[j] ELSE queue[j]]

\* merge_and_save_touched: a row written meanwhile keeps what was written, a row
\* dropped meanwhile stays dropped, a row the pass appended is added.
Merged == [j \in Ids |->
  IF j \in pass.fresh \/ (j \in pass.touched \ dirty /\ IsRow(queue[j]))
  THEN pass.copy[j] ELSE queue[j]]

Persist ==
  /\ pass.pc = "persist"
  /\ Save(Merged)
  /\ pass' = [pass EXCEPT !.pc = "rows", !.row = NoId]
  /\ UNCHANGED <<builder, world, orphans, moves, crashes>>

\* The end of a pass: every row looked at, or the brake engaged.
Merge ==
  /\ pass.pc = "rows"
  /\ pass.todo = {} \/ (pass.kind = "reroute" /\ moves >= RerouteLimit)
  /\ queue' = Merged
  /\ dirty' = {}
  /\ pass' = Between(pass.kind)
  /\ UNCHANGED <<builder, world, orphans, moves, crashes>>

\* The loop is killed, or an exception ends the pass: what it held is gone.
LoopCrash ==
  /\ crashes < MaxCrashes /\ pass.pc # "idle"
  /\ crashes' = crashes + 1
  /\ pass' = Between("reroute")
  /\ dirty' = {}
  /\ UNCHANGED <<queue, builder, world, orphans, moves>>
-----------------------------------------------------------------------------
UserStep == \/ \E j \in Ids : Enqueue(j) \/ RequeueRow(j) \/ ClearRow(j)
            \/ \E x \in Xids : UserStop(x) \/ UserMark(x)

BuilderStep ==
  \/ Dispatch \/ Apply \/ Claim
  \/ PlanHold \/ PlanRequeue \/ PlanAdopt \/ PlanBuild
  \/ Create \/ Bind \/ Record
  \/ \E end \in BuildEnds : EndEarly(end) \/ End(end)

XmStatus == {"PENDING", "RUNNING", "COMPLETED", "TERMINAL", "GONE", "YOUNG", "UNKNOWN"}
LoopStep ==
  \/ Begin("reconcile") \/ Begin("reroute")
  \/ \E j \in Ids, s \in XmStatus :
       \/ Settle(j, s) \/ SettleCancelled(j, s) \/ Postpone(j, s)
       \/ Restart(j, s) \/ Bury(j, s) \/ Park(j, s)
       \/ Pass(j, s) \/ Flag(j, s) \/ Promote(j, s) \/ Suspect(j, s)
  \/ \E s \in XmStatus : Confirm(s)
  \/ Cancel \/ CancelFails \/ Archive \/ Persist \/ Merge

Next ==
  \/ UserStep \/ XManager \/ \E o \in orphans : OrphanStep(o)
  \/ BuilderStep \/ BuilderCrash
  \/ LoopStep \/ LoopCrash

Spec == Init /\ [][Next]_vars

\* Both daemons are restarted when they end and never stop polling; a build ends.
FairSpec == Spec /\ WF_vars(BuilderStep) /\ WF_vars(LoopStep)
-----------------------------------------------------------------------------
(* Properties                                                              *)

RowOf(x) == queue[xm[x].job]
LiveXids == {x \in Xids : xm[x].state \in Alive}

\* Two live experiments never belong to one run: they would write the same
\* out_dir.  The builder's rebuilds, the loop's restarts and moves, crashes and
\* cancels must not add up to a second one.  (run_reconcile, reclaim_stale_building)
OneWriter == \A x, y \in LiveXids : xm[x].run = xm[y].run => x = y

\* Runs as the queue and XManager show them: those of unfinished rows, who writes for
\* each, and the experiments that were launched.
OpenRuns == {queue[j].run : j \in InState(queue, Unfinished)}
AnyOf(S) == IF S = {} THEN NoXid ELSE CHOOSE x \in S : TRUE
RunWriter == [r \in Ids |-> AnyOf({x \in LiveXids : xm[x].run = r})]
Launched == {x \in Xids : xm[x].state \notin {"none", "empty"}}

\* Rows, snapshots, merges, builds and crashes together behave as Runs says: a launch
\* finds its run open and without a writer, an experiment is launched once, and a run is
\* not closed under its writer.
AsRuns == INSTANCE Runs WITH Run <- Ids, Xid <- Xids, Nobody <- NoXid,
                             open <- OpenRuns, writer <- RunWriter, spent <- Launched
ImplementsRuns == AsRuns!Spec

\* A live experiment that a row records is the one in play on an unfinished row:
\* nothing superseded, retired or parked as ended is still running.  (open_creating,
\* mark_reroute, FINISHED_STATES)
LiveIsCurrent ==
  \A j \in InState(queue, JobState) : \A x \in AllXids(queue[j]) \cap LiveXids :
    XidOf(queue[j]) = x /\ HasLive(queue[j]) /\ queue[j].state \in Unfinished

\* A live experiment its row does not record is in the builder's hands, or the row
\* is in a state from which the jobid lookup will find it before the next build.
\* (run_worker_once, the escape check)
NothingEscapes ==
  \A x \in LiveXids : IsRow(RowOf(x)) /\ x \notin AllXids(RowOf(x)) =>
    \/ builder.xid = x
    \/ /\ ~HasLive(RowOf(x))
       /\ \/ RowOf(x).state = "BUILDING"
          \/ RowOf(x).state \in {"QUEUED", "BUILD_REQUESTED", "BUDGET_DEFERRED"}
             /\ RowOf(x).attempts > 0

\* No write of the queue file loses an experiment a row has recorded, in particular
\* not the merge of a pass whose snapshot predates it.  (merge_and_save_touched)
XidsKept ==
  [][\A j \in Ids : IsRow(queue[j]) /\ IsRow(queue'[j]) =>
       AllXids(queue[j]) \subseteq AllXids(queue'[j])]_vars

\* At most one row holds the build slot, whatever died, was cleared, or was merged
\* back from an old snapshot.  (claim_next_build, "the serial lock")
OneBuild == \A i, j \in InState(queue, {"BUILDING"}) : i = j

\* A row the user has cleared never comes back, in particular not from a pass that
\* read the queue while it was there.  (merge_and_save_touched: "Rows deleted
\* concurrently are not resurrected")
ClearedStays ==
  [][\A j \in Ids : queue[j] = Cleared => queue'[j] = Cleared]_vars

\* The single build slot is always given back, whoever held it.  (claim_next_build)
BuildSettles == \A j \in Ids : j \in InState(queue, {"BUILDING"}) ~>
                               j \notin InState(queue, {"BUILDING"})

\* A row whose experiment has ended does not stay SUBMITTED or RUNNING.  (run_reconcile)
Zombie(j) == /\ j \in InState(queue, {"SUBMITTED", "RUNNING"}) /\ XidOf(queue[j]) # NoXid
             /\ xm[XidOf(queue[j])].state \in {"completed", "stopped"}
DeadIsSeen == \A j \in Ids : Zombie(j) ~> ~Zombie(j)

\* A job deferred for budget is tested again.  (promote_deferred)
DeferredRetested == \A j \in Ids : j \in InState(queue, {"BUDGET_DEFERRED"}) ~>
                                   j \notin InState(queue, {"BUDGET_DEFERRED"})
=============================================================================
