# tpu_cmd in TLA+

`tpu_cmd` runs training experiments on a shared TPU pool. A user enqueues a
run; one daemon places it, builds it and launches it as an XManager experiment;
a second one watches the experiments, restarts runs whose experiment died from
their newest checkpoint, and moves those that get nowhere. A registry file keeps
what is known of each experiment (XID). This directory holds TLA+ models of the
parts that carry the state and the decisions: the **registry store**, the **job
queue with its two daemons**, the **launch** of a build with its stage, the
**checkpoints** a restart resumes from, the **dispatcher** with its routing, and
the **reroute sweep**. TLC checks them on small instances; TLAPS proves theorems
about each of these for instances of any size.

Paths are relative to the repository's root as `src/`. `RL` is
`google3_tpu_utils/route_lib.py`, `RC` is `google3_tpu_utils/route_check.py`,
`RS` is `google3_tpu_utils/registry_store.py`.

Contents: 1 inventory; 2 modules and how they correspond to the code; 3 what
the runs check; 4 where the code disagrees with its own text; 5 what is proved;
6 what is only model-checked and what is left out; 7 plan.

## 1. Inventory

| Component | State it keeps | Operations | Interacts with | Correct when |
|---|---|---|---|---|
| XID registry store (`RS`) | `.tpu_local_registry.json`, rewritten in place under `flock`; the archive; `.lastgood`; a journal | `mutate` and, through it, `register`, `mark_cancelled`, `remove_corpse`, `archive`, `patch_fields`; `read`; `repair` | every process: wrapper, launcher, status daemon, `clear`, reroute loop | no update is lost, an entry is never in neither file, a cancel stays |
| Job queue rows (`RL`) | one record per job: state, submissions, counters | pure functions: claim, bind, place, reclaim, requeue, re-route, reconcile, restart | both daemons, under the queue's lock | one live experiment per run, none lost sight of |
| Build dispatcher and builder (`RC`) | `.tpu_local_queue.json`; one child `tpu queue` | `run_dispatch_once`, `claim_next_build`, `run_worker_once`, `Submitter.submit` | queue, routing, budget, the wrapper | the build slot is held by one row and given back; rounds keep to budget and pools |
| Routing decisions (`RL`) | the memory in a row: cooldowns, strikes, the locked mesh | shapes, gates, scores, `plan_one`, `group_can_hold`, `plan_dispatch` | dispatcher; availability reader | a job fits where it is sent, and is not sent back where it failed |
| Reconcile and reroute loop (`RC`) | a snapshot of the queue, merged back at the end of a pass; a history of moves | `run_reconcile`, `run_reroute`, `merge_and_save_touched`, auto-resume | queue, XManager, Borg, registry, CNS | a dead run is noticed, a live one left alone, moves are braked |
| Checkpoint lineage (`RC`, `RL`) | the resume pointer and the newest known checkpoint of a row | census, evidence, `pick_restart_checkpoint`, `_apply_resume_pointer` | CNS, the loop | a restart never rewinds or starts over for want of a read |
| Checkpoint collector (`scripts/ckpt_gc.py`) | none | list, plan, remove | checkpoint directories of live and dead runs | the newest complete checkpoint stays |
| Wrapper's `tpu queue` (`tpu_wrapper.sh`) | two locks, a log | stage, build, launch, read the log, retry, register | stage, launcher, registry | every launch ends, what runs is what was staged |
| Content-addressed stage (`ca_stage.py`, `stage_content_hash.py`) | one directory per content hash, with a marker | verify, copy privately, mark, rename, fall back | concurrent launches; the stage collector | a name, once published, holds its content in full |
| Stage collector (`ca_gc.py`) | none | plan, re-probe, remove | registry, stage | no stage is removed from under the launch that made it, nor from its registered experiment |
| Launcher (`xm_launcher.py`) | a package cache | make or resume an experiment, build, add a work unit, register | XManager, registry | an entry has work, and runs its own source |
| Status daemon (`tpu_check_daemon.sh`) | caches published under a lock | one round of checks; write-back of verdicts | registry store | verdicts do not undo a cancel |
| Other wrapper commands, preflight router, reports, supervisors and scripts | none or caches | `cancel`, `clear`, rankings, one-shot reports, restart loops | all of the above | - |

**The hard behaviours.**

*Registry.* The file is rewritten *in place*, so a killed writer leaves bytes
that do not parse; the writers are many short-lived processes; archiving moves
an entry between two files; the status pass works for a long time on a snapshot
and applies its verdicts later, when a cancel may have come in between.

*Queue.* An experiment exists from an early moment of a build of many minutes,
while the row learns of it by a separate write (the early binding) that may be
lost. The builder may be killed anywhere, and its child may carry on. The loop
works on a snapshot for minutes. A move is five writes in four places.

*Launch.* Two launches share a stage name when their trees are equal, and share
a package cache and two locks which they wait for with a limit and then go on
without. A published stage may be older than the launch that reuses it, and the
collector may be taking it. The file system loses writes that were reported done. A
launcher dies between making an experiment, giving it work, registering it and saying so.

*Checkpoints.* Reads of CNS fail, and a failed read is not an empty directory; a
step number is compared across runs; the saver's own retention and the collector
delete while a restart is being decided.

*Dispatch.* A round spends one figure of headroom and one quota table on many
jobs; what was sent and does not run yet is in neither. A moved job must not go
back to where it failed, and a job locked to a mesh must keep it through every
change of generation.

*Reroute.* XManager calls jobs RUNNING that never ran and calls jobs PENDING that
train. Borg, the output's age and the log's restarts are asked besides, each may
fail, and minutes pass between the looks and the cancel. The sweep may die
between a cancel and the note that it made one.

The complete list of hazards, each at its line with the properties that cover
it, is in `PROJECT.json` under `hazards`; those no property covers say why.

## 2. Modules

| Module | What it is |
|---|---|
| `RegistryEntry` | one registry entry and the edits made to it |
| `Board` | the abstract specification: a registry and an archive as two maps that change atomically |
| `RegistryStore` | the files, the lock, and every system call of `mutate` and `repair`; extends `RegistryEntry`, refines `Board` |
| `RegistryStoreProofs` | its theorems |
| `Runs` | the abstract specification of the queue: runs that are open or not, and the experiment that writes for each |
| `QueueRow`, `JobQueue` | one queue row and the pure operations on it; users, XManager, the builder and the loop; `JobQueue` refines `Runs` |
| `JobQueueProofs` | its theorems: types, the build slot, what no write may lose |
| `WriterProofs` | its theorems: one writer per run, nothing lost sight of, and the refinement of `Runs` |
| `Launch` | `tpu queue`, the stage, the launcher and the stage collector |
| `LaunchProofs` | its theorems |
| `Checkpoints` | a run's chain of experiments, its checkpoints, the restart decision, and the checkpoint collector |
| `CheckpointsProofs` | its theorems |
| `Placement`, `Dispatch` | where one job is put (pure operators); which jobs a round sends, to which pool and within which budget |
| `FoldLemmas` | folds along a sequence and sums over a finite set: what they are, and how they grow |
| `DispatchProofs` | the theorems of `Placement` and `Dispatch` |
| `Reroute` | the sweep, its probes, its brake, and the jobs it judges |
| `RerouteProofs` | its theorems |
| `MC*` | the instances given to TLC |

The modules split the system by hazard. A queue row appears in several, each
time with the fields that its hazards are about, so that each state space stays
small: `JobQueue` has its states and submissions, `Checkpoints` its resume
pointer, `Dispatch` its placement, pool and memory, `Reroute` its cell and its
age. What a module takes from another as a free choice is said at its head.

### RegistryStore

`reg`, `lastgood` and `legacy` are the three files, `lock` the holder of the
exclusive `flock`, `proc[p]` the program counter and the locals of a process
inside the module. A file is missing, empty (0 bytes), torn (does not parse) or
parsed. `committed` and `known` are history: what the last completed write put
in the registry, and the xids ever registered.

A step is one system call, or a run of them that no other process can tell
apart. `mutate` is `Begin` (`existed`), `Open` (`O_CREAT`), `LockRead` /
`LockFail` (lock, parse, run `fn`, or release and retry), `ArchiveCopy`
(`archive`'s replacement of the archive inside `fn`), `WriteHead`, `WriteTail`
(write, truncate) and `Refresh` (`.lastgood`, unlock). The status pass is
`Snapshot`, `Judge` and then `mutate` with the `patch` edit. `repair` is
`RepairStart`, `RepairLoad`, `RepairRecheck`, `RepairHead`, `RepairTail`. `Abort`
ends any process at any step, as a kill or an `OSError` does. Names, URLs, the
journal and the stash of unwritten entries are left out: no decision reads them.

### QueueRow and JobQueue

`queue` is the queue file, one row per job id. `builder` holds the dispatch
worker's place and what it carries; `pass` the loop's snapshot as it edits it, the
rows still to visit, those touched and those appended. `xm` is XManager,
`registry` what the registry says of each experiment's cancel (the abstract
board, reduced to one field), `orphans` children that outlived their builder,
`moves` the re-routes in the history file.

Each write of the queue file is one locked read-modify-write in the code and one
step here. `Dispatch` and `Apply` are `run_dispatch_once`; `Claim` is
`claim_next_build` with its reclaim of stale claims; `PlanHold`, `PlanRequeue`,
`PlanAdopt`, `PlanBuild` are `run_worker_once` up to the build; `Create`, `Bind`,
`EndEarly`, `End`, `Record` are `submit` and the recording of its result. `Begin`
takes the loop's snapshot; `Settle`, `SettleCancelled`, `Postpone`, `Restart`,
`Bury`, `Park` are the verdicts of `run_reconcile`; `Pass`, `Flag`, `Promote`,
`Suspect`, `Confirm`, `Cancel`, `CancelFails`, `Archive`, `Persist` what
`run_reroute` does to a row; `Merge` is the end of a pass.

* `merge_and_save_touched` compares the row on disk with the baseline the pass
  read. Every write of a row stamps a time or a reason, so a row written since
  the snapshot differs from its baseline; `dirty` is the set of such rows. It
  replaces the clocks that would make the state infinite.
* One builder exists per queue file (its singleton lock), so a BUILDING row met by
  `Claim` is the claim of a builder that died, told by the dead process id or by
  its age; both are one step here.
* GONE (no work units) is believed only after an age that exceeds the longest
  build, so an experiment whose build is under way reads as too young.
* Which jobs fit, which are over the bar, what the logs and checkpoints say: free
  choices here, the subject of `Dispatch`, `Checkpoints` and `Reroute`.
* Job ids and xids are finite: when no id is left the restart is not taken; when
  no xid is left a build creates no experiment, and ends early where the run's
  `BuildEnds` has such an end (the live run has).

### Launch

`job[l]` is a run of `tpu queue`: its place, how it stages, the content of its
source tree, the locks it holds, the directory and the experiment it works with.
`dirs` is the staging parent. A tree is its content; a copy of it is whole, torn
in a file the checks read (`checks` is false too), or torn elsewhere; and the
collector may have taken some of it (`torn`). `packages` is the launcher's cache, by
label; a package holds a content, or what the collector left of one (`Remnant`). `xm`
is what each experiment was to run and does. `of`, in an entry of the registry, is
history: the launch of which the entry has been there since.

`Start` to `StageResume` are the staging: the guard, the lock with its limit
(`TakeLock` takes it when free and goes on without when another holds it), `Hash`,
`Look`, `StageTemp`, `Publish`, `StageFallback` of `ca_stage.py`; `StageFresh` is
the stage that is not content-addressed, `StageResume` the one the registry
recorded. `BuildLock`, `Group` and `Extract` are the wrapper's, `Create`,
`Prepare`, `Package`, `Add`, `Record`, `PrintLine` the launcher's `main`, in the
order of its effects. `GcPlan`, `GcReprobe`, `GcTear`, `GcRemove`, `GcEnd` are one
collection: the plan, the second reading of the registry, the files that `rmtree`
takes in any order, the directory, and the end, which may come at any time. Private
directories and published ones are collected (`ca_gc.py` 125-152). Of an age the model
knows only that it exceeds the launch that made the directory (12 hours and 7 days
against a build of minutes): `Old` has every directory of an ended launch, and a launch
that reuses one does not make it younger, as `verify_dir` only opens files in it.
A rename onto a directory that was just emptied succeeds in POSIX; here it fails, and
the private copy is used. `Die`, `Kill`, `Edit`, `Rot` are what happens besides. The names of
`ca_stage.py` carry 12 digits of the hash; contents with equal digits are taken to
be equal. The time limits of locks and builds are choices: what waits may go on.

### Checkpoints

One run: `disk` is each experiment's output directory, `row` the queue row,
`job` its experiment with what its log shows, `move` a reroute between its read
and its cancel, `gc` a sweep of `ckpt_gc.py`. `Evidence` is what
`read_code_bug_and_checkpoint` may answer: a failed read, nothing, or the newest
checkpoint `_latest_complete_checkpoint` finds in the layouts it knows. `Plan` is
`plan_pruned_restart`; `Postpone`, `RestartWarm`, `RestartCold`, `Bury` the end of a
dead row, `RerouteRead` and `RerouteCancel` that of a moved one. `Pick`, `Note`,
`ApplyPointer`, `Advance` keep their names of `RL` shortened. The layouts are
`torch` (`steps/step_<N>.pt`), `elt` (`checkpoints/<N>`) and `eqr`
(`checkpoints/step_<N>`); they differ in what finds them, what prunes them and
where a job resumed from them writes.

### Placement and Dispatch

`Placement` is pure: `CandidateShapes` (the power window, the GPU rule and the
mesh lock), `Gates` and `Placeable` (metro, storage, price caps, oversold cells,
room), `CellScore`, and `PlanOne`, which takes the best shape whose best cell is
not cooling and else the best at all. Prices are whole credits, multipliers
hundredths; the logarithmic weights are tables at the values they can take. A tick
is half an hour.

`Dispatch` adds the jobs, the market, the quota tables and the two drainers. Each
generation is fetched on its own (`avail_provider.py` 510-527): `missing` is the set of
those whose call fails (`Fail`, `Answer`), of which a fetch shows no free cell; the fetch
may fail as a whole besides (`Dark`).
`Dispatch(m)` is one round of `run_dispatch_once` on a fetch `m`: backpressure, the
plans, the choice of a pool with what it was already sent (`Picks`), the greedy
fill of the headroom (`PlanDispatch`). `Build` is `run_worker_once`, which plans
again. `Pass` is the one-shot pass (`run_tick` with `select_and_plan`). `Move` is
`mark_reroute` on the memory of a row. A round is one step: the interleaving of
its locked writes with others is `JobQueue`'s.

### Reroute

`row` is, of each job, its state, whether the row has its cell and whether its
patience is over; `exp` its experiment: where Borg has it, whether XManager
answers oddly of it (`odd`), what it wrote and when, whether its last log is long
and moves (`loud`), whether there is a checkpoint the probe sees (`saved`), how many
attempts have a log newer than it (`newer`), and, as history, its starts since it
really saved (`since`). Every start of the program logs an attempt, on a new slice as
on the old one (`Train`); an attempt that saves goes on logging (`Log`). The jobs in
`Unseen` save as `checkpoints/step_<N>/`, which the probe passes over. `sweep` is the pass: where it is, what is still to do, the job in
hand, why it is to be moved, and what that job looked like when it was judged
(history, for the properties). `hist` and `file` are the moves the pass knows of
and those saved, `made` those made.

`Begin` opens a pass on the saved history; `Look` is the first look; `Gap` the
second, after the wait; `Judge` what is done with a job XManager calls RUNNING
(promoted, thrashing, or running in name only); `Read` the read of checkpoints
without which nothing is cancelled; `Cancel`, `Record` the move and its note;
`Close` the end or the brake; `Crash` the death of the loop. A probe's answer is a
function of the experiment and of the set `blind` of probes that fail in this
step. `World` is users' builds, Borg, XManager and the jobs.

Assumed of the world, from how the code and its comments describe it: XManager
says RUNNING wrongly only of jobs that never wrote; it says PENDING of a training
job between two of its shadow units, and such a job writes all the time. A job
that wrote, was preempted, and is still called RUNNING is outside the model (the
code promotes it each pass). A cancel reported as failed is taken as without
effect here; the other case is `JobQueue`'s. A row's change takes effect at once,
where the code keeps it in memory until the pass merges: again `JobQueue`'s.

## 3. What the runs check

`Spec` is `Init /\ [][Next]_vars`; `FairSpec` adds fairness. Bounds are small
because the hazards are short: each is a race of two or three actors over one
job, one entry or one directory.

| Run | Properties | Instance |
|---|---|---|
| `registry_edits` | `WriterIsCurrent`, `TypeOK`, `NeverInNeither`, `CancelStays`, `ImplementsBoard` | 2 processes, 1 experiment, every writer but the launcher's and `repair`, 1 abort |
| `registry_repair` | `Recoverable` | with `repair`, 1 abort |
| `queue_safe` | `TypeOK`, `LiveIsCurrent`, `NothingEscapes`, `XidsKept`, `ImplementsRuns` | 1 job and one restart row, 3 experiments, user cancels, lost bindings, 1 kill |
| `queue_faults` | `OneBuild`, `ClearedStays` | 2 jobs, failed and half-failed builds, orphans, unreadable status, late cancels, requeue, clear, 1 kill |
| `queue_live` | `BuildSettles`, `DeadIsSeen`, `DeferredRetested` | 1 job, 2 experiments, unreadable logs, deferrals, timeouts, user cancels, 1 kill, fair |
| `launch` | `TypeOK`, `PublishedIsWhole`, `RunsItsSource`, `RegisteredHasWork`, `RegisteredDirsStay`, `StageInUseStays`, `EveryLaunchEnds` | 2 launches, 2 contents, all three ways to stage, 2 experiments, 1 collection, fair |
| `ckpt` | `TypeOK`, `NeverRewinds`, `ColdOnlyWithNothing`, `ResumeSourceStays`, `NewestStays` | 2 experiments, 2 steps, 3 layouts, with or without a checkpoint to start from, 1 sweep |
| `dispatch` | `MeshKept`, `RoundWithinBar`, `RoundFillsBar`, `PoolHoldsWhatItIsSent`, `BackOnlyIfNowhereElse`, `NoHerd` | a job locked to its mesh, a GPU job (pinned or not) and a small one; 6 pairs of cell and generation, 2 pools, both drainers |
| `reroute` | `TypeOK`, `BrakeHolds`, `NeverCancelsTheLiving`, `ThrashSparesProgress` | 2 jobs, one never seated, submitted without limit, one move an hour, a restart threshold of 3 (the default), 1 crash |
| `reroute_live` | `StuckIsMoved` | 1 job, any probe failing, 2 crashes, fair |

Two more runs are violated on purpose; they are in section 4.

**Why the bounds suffice.** *Registry*: two processes show each pairwise race, and
entries are independent, so one experiment shows every history of an entry.
`ReadAttempts` 2 is one retry and the last. *Queue*: one job gives two rows of one
run, which is what `Runs` is about: to launch a second writer beside the first is a step
it does not have, so a run that implements it satisfies `OneWriter`. Three experiments
allow an original, a rebuild or a move of it, and a restart. `RerouteLimit` 1 shows a move and the
brake. One kill of either daemon at any step is allowed; two kills in one build
are not explored. Builds of `queue_safe` end as launched: with timeouts besides, the run
passes but takes four minutes; its theorems allow them. *Launch*: the races are between two launches of one content or
one launch and a collection; `MaxTries` 2 is one retry and the last. With one
group the loop over groups is taken once and left. What three launches and more
add is left to the theorems of section 5. *Checkpoints*: two experiments
are an original and its restart, two steps an older and a newer checkpoint; the
second experiment's own restart is decided too, with its auto-resumes spent.
*Dispatch*: the two TPU jobs do not fit one cell together, the three do not fit
the bar, the preferred pool's floor holds one of them; the market changes for the
worse once (a cell full, oversold or dear, a generation that cannot be fetched, or a
quota table that lapses) and a job is moved once. *Reroute*: with a limit of one move an hour the second job meets the
brake, and the crash hides one move; the restart threshold is the code's. Starts are not counted past one more
than the threshold, all the code compares them with; `Unseen` is empty, since
`ThrashSparesProgress` says nothing of the jobs in it.

**Faults allowed, and those left out.** A fault that a run leaves out is in the
module and can be switched on; each breaks a property and is described in
section 4.

| Module | Faults in the passing runs | Left out |
|---|---|---|
| `JobQueue` | lost bindings, kills, cancels in `queue_safe`; half-failed builds, orphans, blind and late answers in `queue_faults` | `zombie`, `nolaunch`, `orphan` in `queue_safe` (two writers) |
| `Launch` | lost writes the checks see (`drop`), rotten directories, kills, dying launchers, wedged builds, refused groups and requests | `hole` (writes lost in files no check reads), `edit` (the tree edited between hash and copy): `PublishedIsWhole` |
| `Checkpoints` | failed listings, logs that cannot be sliced, siblings, code bugs, retention | `nocell` (`ColdOnlyWithNothing`), `probe` (`NewestStays`) |
| `Dispatch` | fetches that fail, as a whole or for a generation | `probe` (`RoundWithinBar`) |
| `Reroute` | XManager, Borg, output, restarts, checkpoints, cancel, crashes | `placement` in `reroute` (`NeverCancelsTheLiving`); `reroute_live` has it |

**Fairness.** `RegistryStore` has none: its waits are bounded (RS:108-122) and no
liveness is stated of it. `JobQueue`: `WF(BuilderStep)` and
`WF(LoopStep)`: both daemons poll for ever and are restarted by their supervisors
(`tpu_reroute_loop_v17.sh` and its kin), and a build ends because the watchdog kills
it at thirty minutes. That is optimistic in one case: the watchdog kills the shell
alone, and a grandchild that outlives it may keep the pipe open that the builder reads
to its end. `Launch`: `WF(Queue(l))`: each launch is a process of its own;
no fairness among the outcomes it may meet, so `EveryLaunchEnds` rests on the
limits of its loops and waits. A launch whose own build hangs stays so (only the
dispatcher's watchdog ends it); that it does not stop the other is the point.
`Reroute`: `WF(Begin)`, `WF(Close)` and `WF(Record(j))`, the polling loop; `SF` on
each look of it with no probe failing, since a probe that is asked again and again
answers in the end; `SF(Reconcile(j))`, since a reconcile precedes every sweep
(RC:3983-4010) though it is enabled only between two; `WF(Age)` and `WF(Tick)`,
time. Nothing is assumed of Borg: a job may never be seated. Crashes are bounded:
"eventually the daemon stays up long enough".

**Deadlock** is checked in the registry and queue runs. In the others the bounded
system stops: all launches ended, no experiment id left, every job done.

**Type invariants** are kept where the types carry something (one per module, none
in `Dispatch`); every other property takes several steps or relates several parts.
Every property of a passing run has a *mutant* in `PROJECT.json`: a plausible slip
in one definition (a faulty variant that stands just before it), under which TLC
finds the property violated.

## 4. Where the code disagrees with its own text

Two runs are expected to be violated; each checks a statement made by a comment of
the code, and TLC's trace is a schedule of the modelled code.

1. `queue_two_writers` (`OneWriter`). `_failed` (RC:3325) puts the row of a failed
   build back without closing the submission the early binding opened. The next
   build of the row is then judged by reconcile by that dead experiment: the row
   is marked FAILED, a restart row is appended, and the build goes on to place its
   own experiment: two of one run. The comment at RC:2155 describes this harm, and
   its guard skips only submissions that were closed.
2. `ckpt_finetune` (`NeverRewinds`). `_apply_resume_pointer` (RL:1923) keeps a pointer
   whose step is greater, also when it names another run. A fine-tune of a
   pretraining at step 100000 that reached step 500 is queued with a message that
   says it resumes at 500 and with a pointer that still names the pretraining. The
   comment at RL:1514 warns of exactly this comparison.

**Known, without a run.** Seen while reading or with a fault switched on; each is
a place where the code and its text part, or where a hazard is open.

*Queue and loop.*
* Killed between the cancel of a move and the mark that the loop itself did it
  (RC:2475), the loop takes the cancel for a user's and retires the job; RC:2026
  says that such a row must be resumed.
* The placement probe answers None for an exception as for an experiment without
  one (RC:1105-1124). A RUNNING job whose row lost its cell is then cancelled as
  running in name only, against "a placement we cannot read is never guessed".
* A SUBMITTED row without its cell that XManager calls PENDING counts as "output
  unreadable" on every pass and is never moved, against "a job is never given up
  on" (`needs_reroute`). `StuckIsMoved` therefore speaks of rows with their cell or
  called RUNNING.
* Restarts without progress are the attempts whose log is newer than the newest
  checkpoint (RC:1653). The attempt that saved goes on logging and is counted, so that a
  job that has saved is moved after `Threshold - 1` starts since, not `Threshold`; and a
  start on a new slice after a preemption counts like one in place. With the default of
  three a job that saves after every start is spared, which is what RC:1495 and
  RL:2700-2706 promise; with a threshold of two it would not be.
* That promise is broken for runs that save as `checkpoints/step_<N>/`.
  `_newest_checkpoint_mtime` (RC:1540-1543) takes only bare integers and `step_<N>.pt`
  for checkpoints, while `ckpt_gc.py` (4) says that the JAX runs write `step_<N>/`. For
  them no save resets the count, every attempt but the first counts (RC:1652), and the
  job is cancelled as thrashing at its third restart though it saves each time.
  `ThrashSparesProgress` leaves the jobs of `Unseen` out, for the code does not spare
  them.
* A job that trains is measured as not restarted at all only while its last log has 8 KB
  and moved within ten minutes (RC:1646); one that trains but logs little is judged by
  its attempts.
* The history of moves is best effort: a file that cannot be read counts as empty.
* A registry cancel that runs before the launcher registered marks nothing.
* `load_queue` answers an empty queue for a file it cannot parse.
* Two writers of one run, with no crash. A builder is about to record the launch of
  x; a user stops x; a reconcile finds it dead and restarts the run in a new row; the
  record then makes the old row SUBMITTED again, with the dead x. A later pass judges
  it and cannot read why it died: it holds it, which it does whatever the sibling
  check says (RC:2285-2299). `tpu requeue` sends it back, and both rows are built.
  It takes a requeue and evidence that cannot be read.
* With what else breaks the safety of the queue when switched on in `queue_safe`:
  `OneWriter` fails with `nolaunch`, `zombie` or `orphan`; `NothingEscapes` with these
  or `nodir`; `LiveIsCurrent` with `zombie`. A build that fails after it made its
  experiment, or whose child outlives its builder, leaves an experiment that the row
  has lost or believes over. The theorems of `WriterProofs` show that the list is
  complete for the actions modelled.

*Dispatch.*
* A budget probe that fails admits its job at a cost of nothing (RC:3642), against
  the comments of `budget_query`. The wrapper asks again at the build.
* A RUNNING row not yet in the quota table (written every 15 minutes at most) is
  counted nowhere. `run_tick` ignores a caller's pin. The builder plans again and
  may pick another shape without asking the pool's gate again; it takes nothing
  off between two builds.
* `group_can_hold` holds two prices of one chip against each other: the cell's for the
  job it judges, the generation's for what is there. Where a cell is cheaper than its
  generation, a round may send a pool more than its balance holds by the measure the
  next job is refused by (`PoolHoldsWhatItIsSent` needs `CellsNotCheaper`, section 5).

*Checkpoints.*
* `_latest_complete_checkpoint` does not look in `checkpoints/step_<N>/`, so a run
  of that layout is always found empty. A row without a cell is read as empty, not
  as unreadable, and restarts cold.
* When a listing and then a probe fail, `ckpt_gc.py` takes the newest complete
  checkpoint and the peaks for incomplete. A peak promoted between its listing and
  its removal is deleted (`ckpt_gc.py` 182), against "safe to run against a cell
  with live jobs" (36). It may delete a checkpoint, not the newest, that a queued
  row's `load_from` names.

*Stage and launch.*
* A copy torn in a file that no check reads is published (`ca_stage.py` 256), and so
  is a tree edited between its hash and its copy (318), against invariant I2 (36).
* `ca_gc.py` takes a published stage from under a launch that reuses it. Its age gates,
  put there because "a build may be mid-stage" (24), protect what a launch made and not
  what it found: a reuse opens a few files, which makes the directory no younger, and
  no file names it until the launch registers. The collector reads the registry again once,
  before the first removal (225-235), though it says that each removal is "re-checked
  ... immediately before" (26): a launch may register the stage after that reading and
  before the removal, which then takes the stage of a registered experiment. In the
  model: a launch publishes and is killed or refused, another reuses what it published,
  and the collection runs across its `Record`. Hence `RegisteredDirsStay` speaks of
  entries whose own launch made the directory, and `StageInUseStays` of other launches
  and of directories not published by one that ended.
* A removal that is under way, or that failed halfway, leaves a published directory whose
  marker, BUILD, entry source and `config.sh` may all be there: `verify_dir` accepts it
  (`ca_stage.py` 127-158) and a launch reuses it. `PublishedIsWhole` therefore says that
  all of it *arrived*. What is built from it is a `Remnant`, or fails to build; as a
  package it is kept under its content-addressed label for five days and used again,
  also after the stage has been published afresh. `RunsItsSource` allows a remnant of
  the launch's own content, and of no other.
* `ca_gc.py` also looks for rows among the *values* of the queue file's top-level
  object and finds none, so that a queued row protects no stage.
* The corpse cleanup of the wrapper (1751) removes the entry of a launcher that died
  after it registered, though its experiment is alive; the retry launches another.
  It is called harmless because the launcher registers last; for that very reason
  (`RegisteredHasWork`, a theorem) every entry it drops is one of a living
  experiment. A launch that resumes the experiment has its stage from that entry
  alone: once the wrapper has dropped it and ended, the collector takes the directory
  from under the build, or, when the resume registers the experiment once more between
  the collector's look and its removal, takes the stage of a registered experiment. Two
  launches can do it. Hence `StageInUseStays` speaks of launches that resume nothing.
* `stage_content_hash.py` skips a directory that a symlink reached before.

*Registry.*
* `O_CREAT` makes the registry before `fn` runs (RS:237): a 0-byte file may stay,
  which RS:253 excludes.
* `patch_fields` compares field by field (RS:287): refused the status, a late pass
  still writes its error text into a cancelled entry.
* `repair` reads `.lastgood` before it takes the lock (RS:454); a write completed in
  between is lost if another writer then leaves the file torn.

## 5. What is proved

### The registry store

`RegistryStoreProofs`, for every set of processes and experiments and any number of
aborts, from the assumption `ConstantsOK`:

| Theorem | Statement |
|---|---|
| `TypeCorrect` | `Spec => []TypeOK` |
| `Invariance` | `Spec => []Inv` |
| `NoLostUpdate` | `Spec => []WriterIsCurrent` |
| `Implementation` | without `repair`: `Spec => ImplementsBoard` |
| `CancelIsFinal` | without `repair`: `Spec => CancelStays` |
| `NeverLost` | without `repair`: `Spec => []NeverInNeither` |
| `OneAbortIsRecoverable` | `Spec => [](faults <= 1 => Recoverable)` |

`WriterIsCurrent` says that a process about to write holds the lock and computed its
edit from what the last completed write left. It is not inductive alone. `Inv` adds:

* `LockIsHeld`: the holder of the lock is exactly the process at a holding step, so
  no other process can write between the parse and the write;
* `FileIsCommitted`: a file that parses holds what the last completed write put
  there, and a missing or empty file means that nothing was ever written, so that
  what `LockRead` parses *is* `committed`;
* `OperationChosen`: a process inside `mutate` runs one of the operations allowed;
* `VerdictsCarried`: the status pass carries verdicts about its own snapshot;
* `EditsCarried`: what a process is about to write is its edit of what it parsed,
  and an archived entry already covers what the write removes. With
  `WriterIsCurrent` this makes `WriteTail` a step of `Board`.

`Implementation` maps `WriteTail` and `ArchiveCopy` to steps of `Board` and everything
else to stutters; `CancelIsFinal` and `NeverLost` follow from what a step of `Board`
may do. They assume `"repair" \notin Kinds`: `repair` may write back an older registry
(section 4), so with it they are false. `repair` is a manual command.

`OneAbortIsRecoverable` has repairs in it, and any number of processes. `Recoverable`
is about a single abort, and so is the theorem: a second one may tear the file that a
repair is mending from a copy that the first left behind. Its invariant is `Backup`:

* `BackupFollows`: `.lastgood` is whole or missing, never torn (it is replaced by a
  rename); a registry that is missing or blank never had a copy; and who is about to
  refresh the copy has left the registry whole and holds what was committed;
* `NoFaultYet`: before the first abort the registry is torn only while a writer is
  writing it, nobody restores a copy, and the copy is stale only between a write and
  its refresh;
* `TornIsCovered`: after it, a registry left torn has a current copy. The first abort
  leaves either a torn registry, and the copy, not yet refreshed, is that of the last
  completed write; or, between write and refresh, a stale copy with a whole registry.
  No step of those that are left turns the second into the first and stops there:
  only another abort would.

### The job queue

`JobQueueProofs`, for any jobs, experiments, limits and crashes, from `RowConstantsOK`
and `QueueConstantsOK`, whatever users, builds and probes do:

| Theorem | Statement |
|---|---|
| `TypeCorrect` | `Spec => []TypeOK` |
| `QueueInvariant` | `Spec => []QueueInv` |
| `SingleBuildSlot` | `Spec => []OneBuild` |
| `NoXidLost` | `Spec => XidsKept` |
| `ClearedForGood` | `Spec => ClearedStays` |

`QueueInv` adds to `TypeOK` and `OneBuild` what the builder's place tells of its job
(`BuilderTells`) and what the loop's snapshot tells of the file (`Holds`): a row not
dirty is in the file as it was read; a row the pass touched is an edit of that one,
and an edit keeps its experiments and its run and claims no build; the id of a row to
be appended is unused. So the merge writes only edits and new rows, as every other
writer does (`RowStep`), from which `NoXidLost` and `ClearedForGood` follow. The build
slot is single because only `Claim` makes a row BUILDING, and it reclaims all others.

`WriterProofs` proves, from the same assumptions and from `Safe`:

| Theorem | Statement |
|---|---|
| `WriterInvariant` | `Safe`: `Spec => []WriterInv` |
| `SingleWriter` | `Safe`: `Spec => []OneWriter` |
| `LiveOnlyInPlay` | `Safe`: `Spec => []LiveIsCurrent` |
| `NoneEscapes` | `Safe`: `Spec => []NothingEscapes` |
| `RunsImplemented` | `Safe`: `Spec => ImplementsRuns` |

`Safe` excludes the cases of section 4 in which the code fails: a build that ends
without its launch line once it has made its experiment (`nolaunch`, `zombie`), a
child that outlives its builder (`orphan`), a package directory that is missing when
a job is planned (`nodir`), and a requeue together with evidence that cannot be read.
All else is allowed: kills of either daemon at any step, lost bindings, late cancels
and cancels reported as failed, timeouts, failed and deferred builds, users who stop,
mark and clear, blind reads of XManager. The run `queue_safe` satisfies `Safe`.

An experiment is *hot* while it is alive, and before that while the builder has still
to give it work. `WriterInv` adds to `QueueInv`:

* `QueueGood`: of the experiments a row has recorded only the newest is hot, and only
  while its submission is live;
* `Lost`: of those made for a row, at most one is not recorded, and the row still asks
  for it: it is being built, or it waits with an attempt counted, and then the builder
  looks for the experiment before it makes another;
* `BuilderKnows`: when the builder is about to make an experiment, nothing has escaped
  its row; what it has made is what the row is bound to, if to anything;
* `Sole`: of the rows of one run one at most is *active*: it has a hot experiment, or
  may get one because it is launchable, was appended by the pass, or is being moved;
* `Judged`, `InWork`, `Seen`, `CopyGood`: what the snapshot tells. A row under judgement
  or found finished is not launchable in the file, and has nothing hot but what is
  being judged, whoever wrote it since.

`Sole` is what a restart could break, being decided on a snapshot: no sibling in the
snapshot is in play, the row judged has nothing hot, and neither can change behind the
back of the pass, since no other writer makes a finished row launchable. `Sole` gives
`OneWriter` with `Lost` and `QueueGood`, as a live experiment makes its row active.

`RunsImplemented` maps a run to open when an unfinished row stands for it, its writer to
the live experiment of that run, and what was spent to the experiments launched. It says
more than `OneWriter`: a launch finds its run open, an experiment is launched once and
never comes alive again, and no row is the last to finish under a live experiment. Each
step changes either one experiment and no row, or rows
only (`StepChanges`, with one lemma for the router's cancel); so it is a `Launch`, an
`End` or a `Turn`, or leaves all three mapped variables as they are. `WriterInv`, before
and after the step, makes the writer of a run the only live experiment it has
(`WritersNow`, `WritersThen`), so that the map names it whatever `CHOOSE` picks; and
its run open, since it is hot for an unfinished row. After a launch this says that the
run had no writer before: the invariant holds of the next state too, where the new
experiment is the only live one of its run.

### The launch

`LaunchProofs`, for any set of launches and contents, any number of tries, groups,
experiments and collections, from `LaunchConstantsOK` and `AbsentIsNoDirectory`:

| Theorem | Statement |
|---|---|
| `TypeCorrect` | `Spec => []TypeOK` |
| `WorkBeforeEntry` | `Spec => []RegisteredHasWork` |
| `StageStays` | `Spec => StageInUseStays` |
| `PublishedWhole` | no `hole`, no `edit`: `Spec => []PublishedIsWhole` |
| `RegisteredStay` | `Spec => RegisteredDirsStay` |
| `RunsWhatItStaged` | no `hole`, no `edit`: `Spec => []RunsItsSource` |

Those without a hypothesis hold whatever fails. `hole` and `edit` are the copies the
checks cannot see through (section 4). That a stage may be taken from under a build or an
entry is in the statements themselves: they say whose stages are safe, and that what is
left of a stage half taken is still of its own content.

The actions are taken one by one only once, to show that each leaves every variable
its type, is a step of one launch along its way (`Walks`: it prepares, stages once,
then builds from what it staged), and keeps what its place tells (`Tells`: the log
line is there only with a work unit, a launch works on the experiment it resumes and
no other). What follows uses *footprints*: the few ways in which a directory, an
entry, a package or a plan may change (`DirSteps`, `RegistrySteps`, `PackageSteps`,
`PlanSteps`), each with its author. On these rest:

* `Stages`: a build that resumes nothing is in a published directory or in one of its
  own; a private directory was made by the launch whose name it has; what the collector
  has planned to take and not yet taken was made by a launch that ended, and ended
  launches stay so. A directory of the plan keeps its maker until it is gone
  (`PlannedStays`): its name is taken as long as it is there, so that no launch can
  publish under it, and its own launch is over;
* `Whole`: the hash a launch carries is that of its tree, what is renamed is that
  content in full, and a published directory is never written again, only torn where
  the checks see it, or taken;
* `Shared`: all launches of one experiment build from one directory, the one its
  entry names, with what it was to run; and no one will write that directory again;
* `Kept`: no entry names a directory of the plan that its own launch made. Who makes an
  entry is alive, so what it made is in no plan then; and while the entry is there, no
  plan gets it;
* `Sound`: a directory in use, as long as it is there, and the package under its label
  are of the content hashed, or of what is left of it. Labels that are not
  content-addressed have no package.

### The checkpoints

`CheckpointsProofs`, for any number of experiments, steps, sweeps and restarts, from
`CheckpointsConstantsOK`:

| Theorem | Statement |
|---|---|
| `TypeCorrect` | `Spec => []TypeOK` |
| `SourceStays` | `Spec => ResumeSourceStays` |
| `NoBlindColdRestart` | no `nocell`: `Spec => ColdOnlyWithNothing` |
| `NoRewind` | no fine-tune: `Spec => []NeverRewinds` |
| `NewestIsKept` | no `probe`: `Spec => NewestStays` |

Each hypothesis excludes a case in which the code is known to break the statement: a
row without its cell is read as one without checkpoints, a pointer is compared with
that of another run (the run `ckpt_finetune`), a probe that fails makes a complete
checkpoint look incomplete (section 4). All other failures are allowed. The inductive
invariant is `Lineage`:

* `OwnDirectory`: each experiment writes in a directory of its own, it started from an
  earlier one, and nothing refers to one that does not exist yet. So no saver and no
  sweep of a later experiment touches what it started from;
* `OriginAlone`: the directory the user named has one checkpoint, and a sweep dooms
  none of a directory with one; in the layout sweeps are for, the router knows no
  other checkpoint, since its listing does not look there;
* `LogTells`: an experiment that completed a checkpoint has logged a training step, so
  that evidence of nothing is not taken from a log that was cut;
* `BelowLimit`: a save under way is of a step within the bound.

`NoRewind` adds `WarmIsNewest` (a reroute carries nothing older than is known).
`NewestIsKept` adds `AtNewest` (a live job is at the newest checkpoint of its directory,
and what it may have begun is the next) and `NewestSpared` (what a sweep doomed is
neither the newest nor will become it, though the job saves and prunes between the
listings and the removals).

### The reroute sweep

`RerouteProofs`, for any set of jobs, any limits, any failing probes and any number of
crashes, from `RerouteConstantsOK`:

| Theorem | Statement |
|---|---|
| `TypeCorrect` | `Spec => []TypeOK` |
| `BrakeIsKept` | `Spec => []BrakeHolds` |
| `ProgressSpared` | `Spec => ThrashSparesProgress` |
| `LivingSpared` | `"placement" \notin Failing`: `Spec => NeverCancelsTheLiving` |

Each rests on what the sweep has in hand while it works on a job:

* `InHand`: the job in hand is live and off the list, and stays live until the move
  is noted, since only the reconcile, between two sweeps, could take it back;
* `Counted`: the saved history, and the one of a pass, count every move of this half
  hour and of the last but those lost and the one not yet noted; with room under
  the limit from the look to the cancel. A crash turns the one not yet noted into
  one lost, a tick shifts all three counts alike; `BrakeHolds` follows;
* `CountIsRight`, of jobs whose checkpoints are seen: the probe counts at most one
  attempt more than there were starts since the save, the one that saved; of a job
  that saved nothing no more than its starts, the first of which it takes off again;
* `Thrashing`: so a job to be moved as thrashing had started `Threshold - 1` times since
  it saved, or had `Threshold` restarts and never saved, when it was judged;
* `SeatedShows`: XManager never calls PENDING a job that boots, and a job that trains
  has written of late. A job on its slice thus shows it to some probe;
* `CellKnown`: a job judged as RUNNING has its cell, read back from the experiment if
  the row lost it. It needs the placement probe, whence the assumption;
* `Stranded`: by the last two, a job to be moved for another reason had no slice when
  it was judged, whichever of the other probes failed.

The action properties follow because only the cancel of the job in hand ends an
experiment (`OnlyCancelKills`).

### The dispatcher

`DispatchProofs`, for any queue, market, prices, pools, floors, balances and bar, and
any run of moods, moves and failing fetches, from `PlacementConstantsOK` and
`DispatchConstantsOK`:

| Theorem | Statement |
|---|---|
| `Invariance` | `Spec => []IInv` |
| `MeshesAreKept` | `Spec => []MeshKept` |
| `NoWayBack` | `Spec => BackOnlyIfNowhereElse` |
| `PassesDoNotHerd` | `Spec => NoHerd` |
| `BarKept` | `Priced`: `Spec => []Within` |
| `RoundsAreWithinBar` | `Priced`, `Answered`: `Spec => RoundWithinBar` |
| `RoundsFillBar` | `Priced`, `Answered`, `PinsKnown`: `Spec => RoundFillsBar` |
| `PoolsHoldWhatTheyAreSent` | `Priced`, `CellsNotCheaper`: `Spec => PoolHoldsWhatItIsSent` |

`IInv` is `TypeOK`, `Seated` (a job has a placement, in a pair of the market, exactly
while it is submitted or runs), `LockKept` and `MeshKept`. `MeshKept` is not inductive
alone: what a locked job is placed by is the mesh in its memory, written at its first
placement and read by `CandidateShapes` after every move. `LockKept` says that this
mesh, once there, is the one the job's power names. `BackOnlyIfNowhereElse` and
`NoHerd` are then about one step: `PlanOneIs` says what a plan is, and only `Build`
(`Pass`) submits what a round has asked for (what a pass plans). In every shape the job
accepts, no warm cell of the fetch is better than all the cooling ones, their penalties
counted; a warm cell may be there, if a cooling one is better in spite of its penalty,
or if its generation was not fetched.

`Within`, that what the jobs of the fallback pool cost is within the bar, is inductive
beside `IInv`, and holds even where budget probes fail: the builder asks the budget
again before it submits. The rounds' own properties need probes that answer.

The hypotheses are about the instance, and the run `dispatch` satisfies all four:

* `Priced`: each generation in the market is quoted. Where one is not there is no cost
  to hold against the bar.
* `Answered`: no budget probe fails (section 4 says what happens when one does).
* `PinsKnown`: a pin names a pool of the router, or none. A job pinned elsewhere is
  charged to the headroom, but what it costs is not in `Spend`.
* `CellsNotCheaper`: where a job may go, a cell that quotes a price is not cheaper than
  its generation. `group_can_hold` costs the job it judges at the price of its cell and
  what is already there at that of the generation (RL:2821-2897). With a cheaper cell
  each job of a round would be let in, and the last leave the pool with more above its
  floors, at the generation's price, than the balance pays for.

The order of the queue, the pools (`Picks`), the fill (`PlanDispatch`) and the plans of
a pass (`SelectAndPlan`) are folds. `Walk` turns each
fold into a sequence of what it has accumulated, about which a lemma can say what
holds at every place: what a pool was found able to hold when a job was sent to it is
what waits there and what was sent before it (`PicksHold`); what is admitted fits in
the headroom, and what is deferred does not fit in what is left (`FilledGreedily`). The
sums of the properties are sums of functions over finite sets (`Sum` of `FoldLemmas`).
Induction is by the least exception: the set of places, or of subsets, for which a
statement holds has them all, or there is a least one it lacks.

## 6. What is only model-checked, and what is left out

Model-checked only: all liveness (`BuildSettles`, `DeadIsSeen`,
`DeferredRetested`, `EveryLaunchEnds`, `StuckIsMoved`; fairness and ENABLED are out
of the prover's reach). Every safety and action property of the passing runs is a
theorem, for every value of the constants, under the hypotheses section 5 names. What
`CandidateShapes` and `CellScore` compute from the tables of `Placement` is as the code has it, and
reasoned about only as far as a property depends on it: that the score is the right
one to go by is not stated.

Left out of the modelled components: the registry's journal, its rotation and its
stash; the queue's dry runs and legacy `--worker` loop; the `srcfs` brake; pods and
slices above 64 chips and CPU-only jobs in the router; the choice of tier and
router, budget checks and limit orders in the wrapper; how executors and arguments
are composed for XManager; the sizes `ckpt_gc.py` measures; the provenance file of a
stage; and all wording.

Not modelled: the components with status `not_modelled` in `PROJECT.json`. The status
daemon's round publishes caches that only people read; the reports, the preflight
router's floating-point ranking and argument parsing keep no state; the supervisors
take a lock and restart loops, which is why the daemons are fair.

## 7. Plan

Done: the registry store, the job queue, the launch with its stage and collector, the
checkpoints, the dispatcher with its routing and the reroute sweep, each with its
proofs; of the abstract specifications, `Board` and `Runs`.

What would come next, in this order:

1. `ClearOrder`: the order in which `tpu clear` drops queue rows and archives
   entries, with a crash in between, and the loop running; with it a brake on the
   attempts of a row whose builder is reclaimed without limit (RL:3048).
2. `DaemonRound`: the daemon's singleton lock, its parallel checks under timeouts
   and the publication of its caches.
3. The stage of `Launch` as a write-once map from contents to directories, which
   `Launch` would refine as long as no copy is torn where the checks do not look.
