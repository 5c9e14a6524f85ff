------------------------------- MODULE Launch -------------------------------
(***************************************************************************)
(* `tpu queue` (tpu_wrapper.sh), the stage it builds from (ca_stage.py),   *)
(* the launcher it runs (xm_launcher.py) and the collector of old stages   *)
(* (ca_gc.py).                                                             *)
(*                                                                         *)
(* A launch stages its source tree under a per-user lock, builds and       *)
(* launches it under a per-workspace lock, and registers the experiment.   *)
(* Both locks are waited for with a limit, after which the launch goes on  *)
(* without.  A content-addressed stage is named by the hash of the tree    *)
(* and published by renaming a private directory; a directory published    *)
(* before is reused if it verifies.                                        *)
(***************************************************************************)
EXTENDS Naturals, FiniteSets

CONSTANTS Launches, Codes,      \* launches; contents a source tree may have
          NoLaunch, NoCode, Absent,
          Modes,                \* how launches stage
          Faults,               \* what may go wrong
          MaxTries,             \* max_tries and _stage_max
          Groups,               \* bound: groups one launch asks for
          MaxRounds,            \* bound: collections
          MaxXid                \* bound: experiments

ASSUME LaunchConstantsOK ==
  /\ NoLaunch \notin Launches /\ NoCode \notin Codes
  /\ Modes \subseteq {"ca", "fresh", "resume"} /\ Modes # {}
  /\ Faults \subseteq {"drop", "hole", "edit", "rot", "kill", "die", "wedge", "group", "reject"}
  /\ MaxTries \in Nat \ {0} /\ Groups \in Nat \ {0} /\ MaxRounds \in Nat
  /\ MaxXid \in Nat

VARIABLES
  dirs,       \* the staging parent: name -> directory
  job,        \* each launch
  xm,         \* XManager
  registry,   \* the XID registry
  packages,   \* the launcher's cache of built packages, by label
  gc,         \* the collector
  rounds

vars == <<dirs, job, xm, registry, packages, gc, rounds>>

NoXid == 0
Xids == 1..MaxXid
Final(c)    == <<"final", c>>       \* eqr_run_ca_<sha12>
Temp(l)     == <<"temp", l>>        \* ...tmp.<pid>.<rand>
Fallback(l) == <<"fallback", l>>    \* ..._fb_<ts>_<pid><rand>
Run(l)      == <<"run", l>>         \* eqr_run_<ts>_<hash>
Private(l)  == {Temp(l), Fallback(l), Run(l)}
Names == {Final(c) : c \in Codes} \cup UNION {Private(l) : l \in Launches}
NoName == <<"none", NoCode>>

\* A directory: the content copied into it, whether all of it arrived, whether the
\* files the checks read are there (BUILD, its entry source, config.sh), the TARGET_LABEL
\* in config.sh, the marker .stage_ready, who made it, and whether the collector has
\* taken some of it.
Directory == [code : Codes \cup {NoCode}, whole : BOOLEAN, checks : BOOLEAN,
              label : Names \cup {NoName}, marker : Codes \cup {NoCode},
              by : Launches, torn : BOOLEAN]
ASSUME AbsentIsNoDirectory == Absent \notin Directory
Empty(l) == [code |-> NoCode, whole |-> FALSE, checks |-> FALSE, label |-> NoName,
             marker |-> NoCode, by |-> l, torn |-> FALSE]

\* What a package may hold: a content, what the collector left of one, or neither.
Remnant(c) == <<"remnant", c>>
Contents == Codes \cup {NoCode} \cup {Remnant(c) : c \in Codes \cup {NoCode}}

Staging   == {"look", "temp", "rename", "fallback"}      \* after the hash
Launching == {"create", "prepare", "package", "add", "record", "print"}
Building  == Launching \cup {"buildlock", "group", "extract", "wedged"}
Ended     == {"done", "refused", "killed"}
PCs == Staging \cup Building \cup Ended \cup {"start", "stagelock", "hash", "fresh", "resume"}

Job == [pc : PCs,
        mode : Modes \cup {"none"},          \* how it stages
        source : Codes \cup {NoCode},        \* the content of its source tree
        locks : SUBSET {"stage", "build"},
        sha : Codes \cup {NoCode},           \* the hash of the tree, or of what was staged
        dir : Names \cup {NoName},           \* TPU_STAGEDIR
        tries : 0..MaxTries,
        groups : 0..Groups,                  \* groups still to launch
        resumes : Xids \cup {NoXid},         \* --resume_xid
        xid : Xids \cup {NoXid},             \* the experiment of this attempt
        built : Contents,
        said : BOOLEAN,                      \* the log has the line of a launched experiment
        retried : BOOLEAN]

\* XManager: who created an experiment, the content it was to run, and the
\* contents its work units do run.
Experiment == [by : Launches \cup {NoLaunch}, want : Codes \cup {NoCode},
               units : SUBSET Contents]
Nothing == [by |-> NoLaunch, want |-> NoCode, units |-> {}]

\* A registry entry: who wrote it (the wrapper's has status, tier and alloc), its stagedir,
\* and, for the properties, the launch of which it has been there since.
Entry == [by : {"none", "launcher", "wrapper"}, dir : Names \cup {NoName},
          of : Launches \cup {NoLaunch}]
NoEntry == [by |-> "none", dir |-> NoName, of |-> NoLaunch]

Idle == [pc |-> "idle", plan |-> {}]

TypeOK ==
  /\ dirs \in [Names -> Directory \cup {Absent}]
  /\ job \in [Launches -> Job]
  /\ xm \in [Xids -> Experiment]
  /\ registry \in [Xids -> Entry]
  /\ packages \in [Names -> Contents]
  /\ gc \in [pc : {"idle", "planned", "removing"}, plan : SUBSET Names]
  /\ rounds \in 0..MaxRounds

Shell(pc, mode, code, groups) ==
  [pc |-> pc, mode |-> mode, source |-> code, locks |-> {}, sha |-> NoCode,
   dir |-> NoName, tries |-> 0, groups |-> groups, resumes |-> NoXid, xid |-> NoXid, built |-> NoCode,
   said |-> FALSE, retried |-> FALSE]

Init ==
  /\ dirs = [n \in Names |-> Absent]
  /\ job \in [Launches -> {Shell("start", m, c, g) :
                           m \in Modes, c \in Codes, g \in 1..Groups}]
  /\ xm = [x \in Xids |-> Nothing]
  /\ registry = [x \in Xids |-> NoEntry]
  /\ packages = [n \in Names |-> NoCode]
  /\ gc = Idle
  /\ rounds = 0
-----------------------------------------------------------------------------
(* Helpers.                                                                *)

At(l, pc) == job[l].pc = pc
Goto(l, pc) == job' = [job EXCEPT ![l].pc = pc]
Holds(l, lock) == lock \in job[l].locks
Exists(n) == dirs[n] # Absent

\* verify_dir: the marker, and the files the build reads, with the label rewritten.
Verify(n, c) == Exists(n) /\ dirs[n].marker = c /\ dirs[n].checks /\ dirs[n].label = n

\* A return from `tpu queue`: every path out gives back the locks it holds.
Return(l, pc) == job' = [job EXCEPT ![l] = Shell(pc, "none", NoCode, 0)]

\* Staging is done: the stage lock is given back before the build.
Staged(l, n, c) ==
  job' = [job EXCEPT ![l].pc = "buildlock", ![l].dir = n, ![l].sha = c, ![l].tries = 0,
                     ![l].mode = "none",
                     ![l].source = NoCode, ![l].locks = @ \ {"stage"}]

\* What rsync, the label rewrite and the marker leave in a directory of launch l, to
\* be used under name rel.  Writes may be lost in files the checks read ("drop") or
\* only in others ("hole").
Copies(l, rel, marker) ==
  LET d == [Empty(l) EXCEPT !.code = job[l].source, !.whole = TRUE, !.checks = TRUE,
                            !.label = rel, !.marker = marker]
  IN {d} \cup {[d EXCEPT !.whole = FALSE, !.checks = FALSE] : f \in {"drop"} \cap Faults}
         \cup {[d EXCEPT !.whole = FALSE] : f \in {"hole"} \cap Faults}
-----------------------------------------------------------------------------
(* Staging.                                                                *)

\* _tpu_stage_src_guard, then the claim of a directory name; or the flags named an
\* experiment to resume.
Start(l) ==
  /\ At(l, "start")
  /\ \/ job[l].mode # "resume" /\ Return(l, "refused") /\ UNCHANGED dirs
     \/ /\ job[l].mode = "fresh"
        /\ dirs' = [dirs EXCEPT ![Run(l)] = Empty(l)]
        /\ Goto(l, "stagelock")
     \/ job[l].mode = "ca" /\ Goto(l, "stagelock") /\ UNCHANGED dirs
     \/ /\ job[l].mode = "resume"
        /\ \E x \in Xids : /\ xm[x].by # NoLaunch
                           /\ job' = [job EXCEPT ![l].pc = "stagelock", ![l].resumes = x]
        /\ UNCHANGED dirs
  /\ UNCHANGED <<xm, registry, packages, gc, rounds>>

\* flock -w: taken when free; without it when the wait ran out.
TakeLockOrWait(l, lock, next) ==
  /\ \A m \in Launches : ~Holds(m, lock)
  /\ job' = [job EXCEPT ![l].pc = next, ![l].locks = @ \cup {lock}]
TakeLock(l, lock, next) ==
  \/ TakeLockOrWait(l, lock, next)
  \/ /\ \E m \in Launches : Holds(m, lock)
     /\ Goto(l, next)

StagePC(l) == CASE job[l].mode = "ca" -> "hash"
                [] job[l].mode = "fresh" -> "fresh"
                [] job[l].mode = "resume" -> "resume"
StageLock(l) ==
  /\ At(l, "stagelock")
  /\ TakeLock(l, "stage", StagePC(l))
  /\ UNCHANGED <<dirs, xm, registry, packages, gc, rounds>>

\* A faulty variant: the tree was hashed before the wait for the lock.
HashEarly(l) ==
  /\ At(l, "hash")
  /\ \E c \in Codes : job' = [job EXCEPT ![l].pc = "look", ![l].sha = c]
  /\ UNCHANGED <<dirs, xm, registry, packages, gc, rounds>>

Hash(l) ==
  /\ At(l, "hash")
  /\ job' = [job EXCEPT ![l].pc = "look", ![l].sha = job[l].source]
  /\ UNCHANGED <<dirs, xm, registry, packages, gc, rounds>>

\* A directory of that name is there: reuse it if it verifies, leave it alone if not.
Reuse(l) ==
  LET c == job[l].sha IN
  IF Verify(Final(c), c) THEN Staged(l, Final(c), c)
  ELSE job' = [job EXCEPT ![l].pc = "fallback", ![l].tries = 0]

Look(l) ==
  /\ At(l, "look")
  /\ IF Exists(Final(job[l].sha)) THEN Reuse(l) ELSE Goto(l, "temp")
  /\ UNCHANGED <<dirs, xm, registry, packages, gc, rounds>>

\* A faulty variant: there is always one more.
AgainForever(l, pc) == job' = [job EXCEPT ![l].tries = @ + 1, ![l].pc = pc]

\* One more try at staging, from pc, or none left.
Again(l, pc) ==
  IF job[l].tries + 1 < MaxTries
  THEN job' = [job EXCEPT ![l].tries = @ + 1, ![l].pc = pc] ELSE Return(l, "refused")

\* _stage_into a private directory.  Its copy times out, and the launch is refused; or
\* the checks see that the copy is not complete, and it is removed and tried again; or
\* they do not.
StageInto(l, n, marker, used) ==
  \/ Return(l, "refused") /\ dirs' = dirs
  \/ \E d \in Copies(l, IF used THEN n ELSE Final(marker), marker) :
       IF d.checks
       THEN /\ dirs' = [dirs EXCEPT ![n] = d]
            /\ IF used THEN Staged(l, n, marker) ELSE Goto(l, "rename")
       ELSE dirs' = dirs /\ Again(l, job[l].pc)

StageTemp(l) ==
  /\ At(l, "temp")
  /\ StageInto(l, Temp(l), job[l].sha, FALSE)
  /\ UNCHANGED <<xm, registry, packages, gc, rounds>>

\* A faulty variant: the directory is moved over whatever has the name.
PublishOver(l) ==
  /\ At(l, "rename")
  /\ dirs' = [dirs EXCEPT ![Temp(l)] = Absent, ![Final(job[l].sha)] = dirs[Temp(l)]]
  /\ Staged(l, Final(job[l].sha), job[l].sha)
  /\ UNCHANGED <<xm, registry, packages, gc, rounds>>

\* The publish.  Renaming onto a directory fails, and so may any rename; the private
\* directory is then removed, and the name looked at again.
Publish(l) ==
  /\ At(l, "rename")
  /\ LET c == job[l].sha
         gone == [dirs EXCEPT ![Temp(l)] = Absent]
     IN \/ /\ ~Exists(Final(c))
           /\ dirs' = [gone EXCEPT ![Final(c)] = dirs[Temp(l)]]
           /\ Staged(l, Final(c), c)
        \/ /\ Exists(Final(c))
           /\ dirs' = gone
           /\ Reuse(l)
        \/ /\ ~Exists(Final(c))
           /\ dirs' = gone
           /\ Again(l, "temp")
  /\ UNCHANGED <<xm, registry, packages, gc, rounds>>

\* _publish_fallback: a private directory used in place.
StageFallback(l) ==
  /\ At(l, "fallback")
  /\ StageInto(l, Fallback(l), job[l].sha, TRUE)
  /\ UNCHANGED <<xm, registry, packages, gc, rounds>>

\* The stage that is not content-addressed: the guard again, rm -rf, rsync, the checks;
\* what a failed one leaves is not removed.
StageFresh(l) ==
  /\ At(l, "fresh")
  /\ \/ Return(l, "refused") /\ dirs' \in {dirs, [dirs EXCEPT ![Run(l)] = Empty(l)]}
     \/ \E d \in Copies(l, Run(l), NoCode) :
          /\ dirs' = [dirs EXCEPT ![Run(l)] = d]
          /\ IF d.checks THEN Staged(l, Run(l), job[l].source) ELSE Again(l, "fresh")
  /\ UNCHANGED <<xm, registry, packages, gc, rounds>>

\* A resume runs the stage the registry recorded, or not at all.
StageResume(l) ==
  /\ At(l, "resume")
  /\ LET n == registry[job[l].resumes].dir
     IN IF n # NoName /\ Exists(n) THEN Staged(l, n, xm[job[l].resumes].want)
        ELSE Return(l, "refused")
  /\ UNCHANGED <<dirs, xm, registry, packages, gc, rounds>>
-----------------------------------------------------------------------------
(* Building and launching.                                                 *)

BuildLock(l) ==
  /\ At(l, "buildlock")
  /\ TakeLock(l, "build", "group")
  /\ UNCHANGED <<dirs, xm, registry, packages, gc, rounds>>

\* The next group: an unknown one ends the launch, after the last the lock is given back.
Group(l) ==
  /\ At(l, "group")
  /\ IF job[l].groups = 0 THEN Return(l, "done")
     ELSE \/ job' = [job EXCEPT ![l].pc = "create", ![l].groups = @ - 1, ![l].retried = FALSE]
          \/ "group" \in Faults /\ Return(l, "refused")
  /\ UNCHANGED <<dirs, xm, registry, packages, gc, rounds>>

\* The launcher stops before XManager prints its line.
LauncherStops(l) == job' = [job EXCEPT ![l].pc = "extract"]
Unused(x) == xm[x] = Nothing /\ \A y \in Xids : y < x => xm[y] # Nothing

\* No bucket is proven to be where the cell is.  The retry is refused like the first
\* attempt, so the two are one step.
BucketRefused == "reject" \in Faults

\* The entry of launch l for experiment x, new or written over one that is there.
Written(l, x, by) == [by |-> by, dir |-> job[l].dir,
                      of |-> IF registry[x] = NoEntry THEN l ELSE registry[x].of]

\* A faulty variant: the entry is registered before there is a work unit.
CreateRegistered(l) ==
  /\ At(l, "create")
  /\ \E x \in Xids : /\ job[l].resumes = NoXid /\ Unused(x)
                     /\ xm' = [xm EXCEPT ![x].by = l, ![x].want = job[l].sha]
                     /\ job' = [job EXCEPT ![l].pc = "prepare", ![l].xid = x]
                     /\ registry' = [registry EXCEPT ![x] = Written(l, x, "launcher")]
  /\ UNCHANGED <<dirs, packages, gc, rounds>>

\* The launcher makes an experiment, or finds the one to resume.
Create(l) ==
  /\ At(l, "create")
  /\ \/ /\ job[l].resumes # NoXid
        /\ job' = [job EXCEPT ![l].pc = "prepare", ![l].xid = job[l].resumes]
        /\ UNCHANGED xm
     \/ \E x \in Xids : /\ job[l].resumes = NoXid /\ Unused(x)
                        /\ xm' = [xm EXCEPT ![x].by = l, ![x].want = job[l].sha]
                        /\ job' = [job EXCEPT ![l].pc = "prepare", ![l].xid = x]
     \/ /\ job[l].resumes = NoXid
        /\ BucketRefused \/ \A x \in Xids : ~Unused(x)                \* bound
        /\ job' = [job EXCEPT ![l].pc = "extract", ![l].xid = NoXid, ![l].retried = TRUE]
        /\ UNCHANGED xm
  /\ UNCHANGED <<dirs, registry, packages, gc, rounds>>

\* config.sh of the stage must be there, the slices and the tier must be accepted, and a
\* resumed experiment must have its bucket in the registry and a configuration that fits
\* its checkpoint.  All of it comes after the experiment was made.
ConfigFound(l) == Exists(job[l].dir) /\ dirs[job[l].dir].checks
BucketFound(l) == job[l].resumes # NoXid => registry[job[l].resumes] # NoEntry
RequestRefused == "reject" \in Faults
Prepare(l) ==
  /\ At(l, "prepare")
  /\ \/ ConfigFound(l) /\ BucketFound(l) /\ Goto(l, "package")
     \/ (~ConfigFound(l) \/ ~BucketFound(l) \/ RequestRefused) /\ LauncherStops(l)
  /\ UNCHANGED <<dirs, xm, registry, packages, gc, rounds>>

\* A package built of that label is used again if the label is content-addressed; if
\* there is none, or it is stale, or XManager refuses it, the label is built, which
\* fails without its BUILD and may fail without another file.
Cached(n) == packages[n] # NoCode
ContentAddressed(n) == n[1] \in {"final", "fallback"}
Build(n) == IF ~Exists(n) \/ ~dirs[n].checks THEN {}
            ELSE {IF ~dirs[n].whole THEN NoCode
                  ELSE IF dirs[n].torn THEN Remnant(dirs[n].code) ELSE dirs[n].code}
Packaged(l, c) == job' = [job EXCEPT ![l].pc = "add", ![l].built = c]

\* A faulty variant: any package of the cache will do.
PackageAny(l) ==
  /\ At(l, "package")
  /\ LET n == job[l].dir IN
     \/ \E o \in Names : Cached(o) /\ Packaged(l, packages[o]) /\ UNCHANGED packages
     \/ \E c \in Build(n) : Packaged(l, c) /\ packages' = [packages EXCEPT ![n] = c]
     \/ Build(n) \cap Codes = {} /\ LauncherStops(l) /\ UNCHANGED packages
  /\ UNCHANGED <<dirs, xm, registry, gc, rounds>>

Package(l) ==
  /\ At(l, "package")
  /\ LET n == job[l].dir IN
     \/ Cached(n) /\ Packaged(l, packages[n]) /\ UNCHANGED packages
     \/ \E c \in Build(n) :
          /\ Packaged(l, c)
          /\ packages' = IF ContentAddressed(n) THEN [packages EXCEPT ![n] = c] ELSE packages
     \/ Build(n) \cap Codes = {} /\ LauncherStops(l) /\ UNCHANGED packages
     \/ "wedge" \in Faults /\ Goto(l, "wedged") /\ UNCHANGED packages
  /\ UNCHANGED <<dirs, xm, registry, gc, rounds>>

Add(l) ==
  /\ At(l, "add")
  /\ xm' = [xm EXCEPT ![job[l].xid].units = @ \cup {job[l].built}]
  /\ Goto(l, "record")
  /\ UNCHANGED <<dirs, registry, packages, gc, rounds>>

\* update_mapping only fills what an entry lacks.
Record(l) ==
  /\ At(l, "record")
  /\ LET x == job[l].xid IN
     registry' = IF registry[x] # NoEntry THEN registry
                 ELSE [registry EXCEPT ![x] = Written(l, x, "launcher")]
  /\ Goto(l, "print")
  /\ UNCHANGED <<dirs, xm, packages, gc, rounds>>

\* "Launched experiment" or "Added ... work unit(s)".
PrintLine(l) ==
  /\ At(l, "print")
  /\ job' = [job EXCEPT ![l].pc = "extract", ![l].said = TRUE]
  /\ UNCHANGED <<dirs, xm, registry, packages, gc, rounds>>

\* The wrapper reads the log.  With the line it registers the experiment; without, it
\* drops the entry of a launcher that died and tries once more, then gives up the group.
Extract(l) ==
  LET x == job[l].xid
      Then(pc, retried) == job' = [job EXCEPT ![l].pc = pc, ![l].retried = retried,
                                              ![l].said = FALSE, ![l].xid = NoXid,
                                              ![l].built = NoCode]
  IN /\ At(l, "extract")
     /\ \/ /\ job[l].said
           /\ registry' = [registry EXCEPT ![x] = Written(l, x, "wrapper")]
           /\ Then("group", FALSE)
        \/ /\ ~job[l].said /\ ~job[l].retried
           /\ registry' = IF x # NoXid /\ registry[x].by = "launcher"
                          THEN [registry EXCEPT ![x] = NoEntry] ELSE registry
           /\ Then("create", TRUE)
        \/ /\ ~job[l].said /\ job[l].retried
           /\ UNCHANGED registry
           /\ Then("group", FALSE)
     /\ UNCHANGED <<dirs, xm, packages, gc, rounds>>
-----------------------------------------------------------------------------
(* What else happens.                                                      *)

\* The launcher gets SIGBUS: no line, no traceback.
Die(l) ==
  /\ "die" \in Faults
  /\ job[l].pc \in Launching \ {"create"}
  /\ LauncherStops(l)
  /\ UNCHANGED <<dirs, xm, registry, packages, gc, rounds>>

\* The shell of a launch is killed: its locks are gone, its directories stay.
Kill(l) ==
  /\ "kill" \in Faults
  /\ job[l].pc \notin Ended
  /\ Return(l, "killed")
  /\ UNCHANGED <<dirs, xm, registry, packages, gc, rounds>>

\* Someone edits a source tree: with "edit", even while its launch stages it.
Edit(l) ==
  /\ job[l].pc \in {"stagelock"} \cup (IF "edit" \in Faults THEN Staging ELSE {})
  /\ job[l].mode # "resume"
  /\ \E c \in Codes : job' = [job EXCEPT ![l].source = c]
  /\ UNCHANGED <<dirs, xm, registry, packages, gc, rounds>>

\* Writes to a published directory turn out to be lost.
Rotten(d) == [d EXCEPT !.whole = FALSE, !.checks = FALSE]
Rot(c) ==
  /\ "rot" \in Faults
  /\ Exists(Final(c))
  /\ dirs' = [dirs EXCEPT ![Final(c)] = Rotten(@)]
  /\ UNCHANGED <<job, xm, registry, packages, gc, rounds>>
-----------------------------------------------------------------------------
(* The collector.                                                          *)

\* A faulty variant: the registry is not asked.
NoReferences == {}

\* The directories the registry names.  The queue file is read too, but the collector
\* takes the values of its object for the rows, and so finds none.
Referenced == {registry[x].dir : x \in Xids} \ {NoName}

\* The directories that may be past their age: 12 hours for a private one and 7 days for a
\* published one, each longer than the launch that made it.  A launch that reuses one makes
\* it no younger.
Old == {n \in Names : /\ Exists(n)
                      /\ n[1] \in {"temp", "fallback", "final"}
                      /\ job[dirs[n].by].pc \in Ended}

GcPlan ==
  /\ gc.pc = "idle" /\ rounds < MaxRounds
  /\ \E old \in SUBSET Old : gc' = [pc |-> "planned", plan |-> old \ Referenced]
  /\ gc'.plan # {}
  /\ rounds' = rounds + 1
  /\ UNCHANGED <<dirs, job, xm, registry, packages>>

\* The references are read once more, before the first removal.
GcReprobe ==
  /\ gc.pc = "planned"
  /\ gc' = [pc |-> "removing", plan |-> gc.plan \ Referenced]
  /\ UNCHANGED <<dirs, job, xm, registry, packages, rounds>>

\* rmtree takes the files of a directory one by one, in any order, then the directory.
Taking(n) == gc.pc = "removing" /\ n \in gc.plan
GcTear(n) ==
  /\ Taking(n)
  /\ Exists(n) /\ (~dirs[n].torn \/ dirs[n].checks)
  /\ \E ok \in BOOLEAN : dirs' = [dirs EXCEPT ![n].torn = TRUE, ![n].checks = @ /\ ok]
  /\ UNCHANGED <<job, xm, registry, packages, gc, rounds>>
GcRemove(n) ==
  /\ Taking(n)
  /\ Exists(n) => dirs[n].torn
  /\ dirs' = [dirs EXCEPT ![n] = Absent]
  /\ gc' = [gc EXCEPT !.plan = @ \ {n}]
  /\ UNCHANGED <<job, xm, registry, packages, rounds>>

\* The pass is over, or was stopped.
GcEnd ==
  /\ gc.pc # "idle"
  /\ gc' = Idle
  /\ UNCHANGED <<dirs, job, xm, registry, packages, rounds>>

Collect == GcPlan \/ GcReprobe \/ GcEnd \/ \E n \in Names : GcTear(n) \/ GcRemove(n)
Happens == (\E l \in Launches : Die(l) \/ Kill(l) \/ Edit(l))
           \/ (\E c \in Codes : Rot(c))
-----------------------------------------------------------------------------
Stage(l) == \/ Start(l) \/ StageLock(l) \/ Hash(l) \/ Look(l) \/ StageTemp(l) \/ Publish(l)
            \/ StageFallback(l) \/ StageFresh(l) \/ StageResume(l)
Launch(l) == \/ BuildLock(l) \/ Group(l) \/ Create(l) \/ Prepare(l) \/ Package(l) \/ Add(l)
             \/ Record(l) \/ PrintLine(l) \/ Extract(l)
Queue(l) == Stage(l) \/ Launch(l)
Next == (\E l \in Launches : Queue(l)) \/ Collect \/ Happens
Spec == Init /\ [][Next]_vars

\* Each launch is a process of its own, and goes on.
FairSpec == Spec /\ \A l \in Launches : WF_vars(Queue(l))
-----------------------------------------------------------------------------
(* Properties.                                                             *)

\* A published directory that passes the checks of a reuse is the code it is named by, and
\* all of it arrived.  (ca_stage.py, I2, I4 and I5)  The collector may have taken some of it
\* since, which the checks do not see: see the README.
PublishedIsWhole ==
  \A c \in Codes : Verify(Final(c), c) => dirs[Final(c)].whole /\ dirs[Final(c)].code = c

\* Whatever runs is the code its launch staged, the code of the experiment resumed
\* included, or what the collector left of that same code: never another's, whichever
\* directory, label or package it came by.
RunsItsSource == \A x \in Xids : xm[x].units \subseteq {xm[x].want, Remnant(xm[x].want)}

\* "An entry exists only if a work unit was actually added", though a launcher may die
\* at any point.  (xm_launcher.py, before update_mapping)
RegisteredHasWork == \A x \in Xids : registry[x] # NoEntry => xm[x].units # {}

Same(d, e) == d = e \/ e = Rotten(d)

\* The collector takes nothing of a directory a registered experiment needs to be resumed,
\* if the launch that registered it made the directory: between the two reads of the
\* registry and the last removal no entry can come to name it.  (ca_gc.py: a removal is
\* "re-checked against live references")  A directory that a launch found published, or
\* resumes from after its entry was lost, may be in the plan by the time it is registered:
\* see the README.
RegisteredDirsStay ==
  [][\A x \in Xids : LET n == registry[x].dir IN
       (n # NoName /\ registry'[x] = registry[x] /\ Exists(n) /\ dirs[n].by = registry[x].of)
         => Same(dirs[n], dirs'[n])]_vars

\* Once a launch has staged its tree, no step of another launch changes the directory it
\* builds from, and none of the collector unless an ended launch published it.
\* (ca_stage.py: "a build in flight can never have its files overwritten")  The stage a
\* resume takes over is kept by the registry's entry alone, and the wrapper may drop that
\* one: see RegisteredDirsStay and the README.
StageInUseStays ==
  [][\A l \in Launches : job[l].pc \in Building /\ job[l].resumes = NoXid /\ Exists(job[l].dir)
       => LET n == job[l].dir IN
          Same(dirs[n], dirs'[n]) \/ (Taking(n) /\ job[dirs[n].by].pc \in Ended)]_vars

\* Every launch ends, though others die or wedge with its locks: no wait is forever.  A
\* launch whose own build hangs stays so.
EveryLaunchEnds ==
  \A l \in Launches : job[l].pc \notin {"start"} ~> job[l].pc \in Ended \cup {"wedged"}

=============================================================================
