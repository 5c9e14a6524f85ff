---------------------------- MODULE RegistryStore ----------------------------
(***************************************************************************)
(* google3_tpu_utils/registry_store.py: the one write path of the XID      *)
(* registry, run by every process that touches it (wrapper, xm_launcher,   *)
(* check daemon, `tpu clear`, the reroute loop).                           *)
(*                                                                         *)
(* The registry is a file rewritten IN PLACE under an exclusive flock on   *)
(* the file itself, the archive a file replaced atomically while that lock *)
(* is held, and <registry>.lastgood a copy refreshed after each write. A   *)
(* step of a process is one system call or a run of them no other process  *)
(* can tell apart. Abort is a process killed, or an OSError raised, at any *)
(* step: the lock is released and the files stay as that step left them.   *)
(***************************************************************************)
EXTENDS RegistryEntry, Naturals

CONSTANTS Proc,          \* processes that use the module
          NoProc,
          Xid,           \* experiments
          Kinds,         \* operations the processes run
          ReadAttempts,  \* READ_ATTEMPTS
          MaxFaults      \* bound: processes aborted in a behaviour

ASSUME ConstantsOK ==
  /\ NoProc \notin Proc
  /\ NoEntry \notin Entry \cup Record
  /\ ReadAttempts \in Nat \ {0}
  /\ MaxFaults \in Nat
  /\ Kinds \subseteq {"launcher", "wrapper", "cancel", "corpse", "archive", "clear", "patch",
                     "repair"}

Data == [Xid -> MaybeEntry]
Nothing == [x \in Xid |-> NoEntry]

\* A file that exists is parseable ("ok"), blank ("empty") or neither ("torn").
File == [kind : {"missing", "empty", "torn", "ok"}, data : Data]
Unreadable(f) == f.kind \in {"empty", "torn"}
Parsed(d) == [kind |-> "ok", data |-> d]
Torn == [kind |-> "torn", data |-> Nothing]
Empty == [kind |-> "empty", data |-> Nothing]
Missing == [kind |-> "missing", data |-> Nothing]

Op == [kind : Kinds \ {"repair"}, xid : Xid]

NoOp == [kind |-> "none", xid |-> NoProc]

VARIABLES
  reg,       \* the registry file
  lastgood,  \* <registry>.lastgood
  legacy,    \* the archive: Xid -> Record
  lock,      \* holder of the exclusive flock on the registry
  proc,      \* what each process is doing
  faults,
  committed, \* history: what the last completed write put in the registry
  known      \* history: xids registered and not removed as a corpse

files == <<reg, lastgood, legacy>>
history == <<committed, known>>
vars == <<files, lock, proc, faults, history>>

\* The steps a process takes while it holds the lock.
Holding == {"archive", "head", "tail", "refresh", "rhead", "rtail"}
PC == Holding \cup {"idle", "open", "lock", "judge", "load", "recheck"}

ProcState ==
  [pc      : PC,
   op      : Op \cup {NoOp},
   existed : BOOLEAN,         \* mutate's `existed`
   lenient : BOOLEAN,         \* mutate found the file it opened blank
   tries   : 0..ReadAttempts - 1, \* unreadable attempts so far
   before  : Data,            \* `before`: the registry parsed under the lock
   after   : Data,            \* `data` once fn has run; for a repair, `good`
   snap    : Data,            \* the status pass: `snap` ...
   want    : Data]            \* ... and its edited private copy, `data`

Idle == [pc |-> "idle", op |-> NoOp, existed |-> FALSE, lenient |-> FALSE,
         tries |-> 0, before |-> Nothing, after |-> Nothing,
         snap |-> Nothing, want |-> Nothing]

TypeOK ==
  /\ reg \in File
  /\ lastgood \in File
  /\ legacy \in [Xid -> MaybeRecord]
  /\ lock \in Proc \cup {NoProc}
  /\ proc \in [Proc -> ProcState]
  /\ faults \in 0..MaxFaults
  /\ committed \in Data
  /\ known \in SUBSET Xid

Init ==
  /\ reg = Missing
  /\ lastgood = Missing
  /\ legacy = [x \in Xid |-> NoEntry]
  /\ lock = NoProc
  /\ proc = [p \in Proc |-> Idle]
  /\ faults = 0
  /\ committed = Nothing
  /\ known = {}

At(p, label) == proc[p].pc = label
Goto(p, label) == proc' = [proc EXCEPT ![p].pc = label]
Return(p) == proc' = [proc EXCEPT ![p] = Idle]
Unlocked(p) == lock' = IF lock = p THEN NoProc ELSE lock
-----------------------------------------------------------------------------
(* fn(data): the edit each operation makes to the parsed registry.         *)

Creates(o) == o.kind \in {"launcher", "wrapper", "clear"}
Archives(o) == o.kind \in {"archive", "clear"}

Edit(o, d, snap, want) ==
  CASE o.kind = "launcher" -> [d EXCEPT ![o.xid] = LauncherEdit(@)]
    [] o.kind = "wrapper"  -> [d EXCEPT ![o.xid] = WrapperEdit(@)]
    [] o.kind = "cancel"   -> [d EXCEPT ![o.xid] = CancelEdit(@)]
    [] o.kind = "corpse"   -> [d EXCEPT ![o.xid] = CorpseEdit(@)]
    [] o.kind = "patch"    -> [x \in Xid |-> PatchEdit(d[x], snap[x], want[x])]
    [] OTHER               -> [d EXCEPT ![o.xid] = NoEntry]

\* archive's targets: an xid on the registry, or one with an extra to record.
IsTarget(o, d) == d[o.xid] # NoEntry \/ o.kind = "clear"
-----------------------------------------------------------------------------
(* mutate                                                                  *)

\* `existed = os.path.exists(p)`; without it and without create, a no-op.
Started(p, o, s) ==
  /\ reg.kind # "missing" \/ Creates(o)
  /\ proc' = [proc EXCEPT ![p] = [s EXCEPT !.pc = "open", !.op = o,
                                           !.existed = reg.kind # "missing"]]
  /\ UNCHANGED <<files, lock, faults, history>>

Begin(p, o) == At(p, "idle") /\ o.kind # "patch" /\ Started(p, o, Idle)

\* os.open(p, O_RDWR | O_CREAT), then fstat: is this a blank file we created?
Open(p) ==
  /\ At(p, "open")
  /\ reg' = IF reg.kind = "missing" THEN Empty ELSE reg
  /\ proc' = [proc EXCEPT
       ![p].pc = "lock",
       ![p].lenient = ~proc[p].existed /\ reg.kind \in {"missing", "empty"}]
  /\ UNCHANGED <<lastgood, legacy, lock, faults, history>>

\* The parse under the lock: a blank file is {} only to the call that made it.
Readable(p) == reg.kind = "ok" \/ (proc[p].lenient /\ reg.kind = "empty")

\* A faulty variant: the archive is written only for what `extra` carries.
NextStepNoCopy(s, d, new) ==
  IF Archives(s.op) /\ d[s.op.xid] = NoEntry THEN "archive"
  ELSE IF s.existed /\ new = d THEN "idle" ELSE "head"

\* Where mutate goes once fn has run: an unchanged registry that existed is not
\* written, a registry this call created always is.
NextStep(s, d, new) ==
  IF Archives(s.op) /\ IsTarget(s.op, d) THEN "archive"
  ELSE IF s.existed /\ new = d THEN "idle" ELSE "head"

\* A faulty variant: fn runs without waiting for the lock.
LockReadUnlocked(p) ==
  LET s == proc[p]
      new == Edit(s.op, reg.data, s.snap, s.want)
      to == NextStep(s, reg.data, new)
  IN /\ At(p, "lock")
     /\ Readable(p)
     /\ to # "idle"
     /\ lock' = p
     /\ proc' = [proc EXCEPT ![p] = [Idle EXCEPT !.pc = to, !.op = s.op,
                  !.existed = s.existed, !.before = reg.data, !.after = new]]
     /\ UNCHANGED <<files, faults, history>>

\* LOCK_EX, strict parse, before = copy, fn(data).
LockRead(p) ==
  LET s == proc[p]
      new == Edit(s.op, reg.data, s.snap, s.want)
      to == NextStep(s, reg.data, new)
  IN /\ At(p, "lock")
     /\ lock = NoProc
     /\ Readable(p)
     /\ IF to = "idle"
        THEN Return(p) /\ UNCHANGED lock
        ELSE /\ lock' = p
             /\ proc' = [proc EXCEPT ![p] =
                 [Idle EXCEPT !.pc = to, !.op = s.op, !.existed = s.existed,
                              !.before = reg.data, !.after = new]]
     /\ UNCHANGED <<files, faults, history>>

\* A faulty variant: one attempt too many.
LockFailExtra(p) ==
  /\ At(p, "lock")
  /\ lock = NoProc
  /\ ~Readable(p)
  /\ IF proc[p].tries > ReadAttempts
     THEN Return(p)
     ELSE proc' = [proc EXCEPT ![p].tries = @ + 1]
  /\ UNCHANGED <<files, lock, faults, history>>

\* An unreadable file: release the lock and sleep, and in the end raise. The
\* lenient path parses once and raises at once.
LockFail(p) ==
  /\ At(p, "lock")
  /\ lock = NoProc
  /\ ~Readable(p)
  /\ IF proc[p].lenient \/ proc[p].tries + 1 = ReadAttempts
     THEN Return(p)
     ELSE proc' = [proc EXCEPT ![p].tries = @ + 1]
  /\ UNCHANGED <<files, lock, faults, history>>

\* archive's fn: the archive file is replaced before the registry is touched.
\* `if unchanged and existed: return`: an xid not on the registry ends here.
ArchiveCopy(p) ==
  LET s == proc[p]
      x == s.op.xid
  IN /\ At(p, "archive")
     /\ legacy' = [legacy EXCEPT ![x] = Archived(@, s.before[x], s.op.kind = "clear")]
     /\ IF s.existed /\ s.after = s.before
        THEN Return(p) /\ lock' = NoProc
        ELSE Goto(p, "head") /\ UNCHANGED lock
     /\ UNCHANGED <<reg, lastgood, faults, history>>

\* fh.seek(0); fh.write(payload): the new head over the old tail.
WriteHead(p) ==
  /\ At(p, "head")
  /\ reg' = Torn
  /\ Goto(p, "tail")
  /\ UNCHANGED <<lastgood, legacy, lock, faults, history>>

\* fh.truncate(); flush; fsync: the file now parses as `after`.
WriteTail(p) ==
  LET s == proc[p]
  IN /\ At(p, "tail")
     /\ reg' = Parsed(s.after)
     /\ committed' = s.after
     /\ known' = IF s.op.kind = "corpse" THEN known \ {s.op.xid}
                 ELSE known \cup {x \in Xid : s.after[x] # NoEntry}
     /\ Goto(p, "refresh")
     /\ UNCHANGED <<lastgood, legacy, lock, faults>>

\* A faulty variant: the write is not copied to .lastgood.
RefreshNothing(p) ==
  /\ At(p, "refresh")
  /\ lock' = NoProc
  /\ Return(p)
  /\ UNCHANGED <<files, faults, history>>

\* _atomic_write(p + '.lastgood', payload), then LOCK_UN in the finally.
Refresh(p) ==
  /\ At(p, "refresh")
  /\ lastgood' = Parsed(proc[p].after)
  /\ lock' = NoProc
  /\ Return(p)
  /\ UNCHANGED <<reg, legacy, faults, history>>
-----------------------------------------------------------------------------
(* The daemon's status pass: a strict read under LOCK_SH, verdicts worked   *)
(* out on a private copy with no lock held, and patch_fields.               *)

Snapshot(p) ==
  /\ "patch" \in Kinds
  /\ At(p, "idle")
  /\ lock = NoProc
  /\ reg.kind = "ok"
  /\ proc' = [proc EXCEPT ![p] = [Idle EXCEPT !.pc = "judge", !.snap = reg.data]]
  /\ UNCHANGED <<files, lock, faults, history>>

Opinions(snap) ==
  {d \in [Xid -> UNION {Verdicts(snap[x]) : x \in Xid}] :
     \A x \in Xid : d[x] \in Verdicts(snap[x])}

Judge(p) ==
  /\ At(p, "judge")
  /\ \E d \in Opinions(proc[p].snap), x \in Xid :
       Started(p, [kind |-> "patch", xid |-> x], [proc[p] EXCEPT !.want = d])
-----------------------------------------------------------------------------
(* repair                                                                  *)

\* read(p, attempts=3) raised.
RepairStart(p) ==
  /\ "repair" \in Kinds
  /\ At(p, "idle")
  /\ lock = NoProc
  /\ Unreadable(reg)
  /\ Goto(p, "load")
  /\ UNCHANGED <<files, lock, faults, history>>

\* <registry>.lastgood is read before the lock is taken.
RepairLoad(p) ==
  /\ At(p, "load")
  /\ IF lastgood.kind = "missing"
     THEN Return(p)
     ELSE proc' = [proc EXCEPT ![p].pc = "recheck", ![p].after = lastgood.data]
  /\ UNCHANGED <<files, lock, faults, history>>

\* Under the lock: a registry that became readable meanwhile is not touched.
RepairRecheck(p) ==
  /\ At(p, "recheck")
  /\ lock = NoProc
  /\ IF Unreadable(reg) THEN lock' = p /\ Goto(p, "rhead")
                        ELSE Return(p) /\ UNCHANGED lock
  /\ UNCHANGED <<files, faults, history>>

RepairHead(p) ==
  /\ At(p, "rhead")
  /\ reg' = Torn
  /\ Goto(p, "rtail")
  /\ UNCHANGED <<lastgood, legacy, lock, faults, history>>

RepairTail(p) ==
  /\ At(p, "rtail")
  /\ reg' = Parsed(proc[p].after)
  /\ committed' = proc[p].after
  /\ lock' = NoProc
  /\ Return(p)
  /\ UNCHANGED <<lastgood, legacy, faults, known>>
-----------------------------------------------------------------------------
Abort(p) ==
  /\ ~At(p, "idle")
  /\ faults < MaxFaults
  /\ faults' = faults + 1
  /\ Unlocked(p)
  /\ Return(p)
  /\ UNCHANGED <<files, history>>

\* What a process does once it has started something.
Step(p) ==
  \/ Open(p) \/ LockRead(p) \/ LockFail(p) \/ ArchiveCopy(p)
  \/ WriteHead(p) \/ WriteTail(p) \/ Refresh(p)
  \/ Judge(p)
  \/ RepairLoad(p) \/ RepairRecheck(p) \/ RepairHead(p) \/ RepairTail(p)

Next ==
  \E p \in Proc :
    \/ \E o \in Op : Begin(p, o)
    \/ Snapshot(p)
    \/ RepairStart(p)
    \/ Step(p)
    \/ Abort(p)

Spec == Init /\ [][Next]_vars
-----------------------------------------------------------------------------
(* Properties                                                              *)

\* R1. A process about to write computed its edit from what the last completed
\* write left, and holds the lock: no other writer's change is ever lost.
WriterIsCurrent ==
  \A p \in Proc : proc[p].pc \in {"archive", "head", "tail"} =>
                    lock = p /\ proc[p].before = committed

\* R4. An xid that was ever registered is on the registry or in the archive,
\* whichever step of whichever operation was cut short.
NeverInNeither ==
  \A x \in known : committed[x] # NoEntry \/ (legacy[x] # NoEntry /\ legacy[x].entry # NoEntry)

\* R5. Whenever the registry is left unreadable, by one aborted process,
\* .lastgood holds what the last completed write or repair left (or there has
\* been none).
Recoverable ==
  Unreadable(reg) /\ lock = NoProc =>
    IF lastgood.kind = "ok" THEN lastgood.data = committed ELSE committed = Nothing

\* `tpu cancel` is final: while the entry is on the registry no status pass
\* working from an older snapshot and no late registration replaces CANCELLED.
CancelStays ==
  [][\A x \in Xid :
       committed[x] # NoEntry /\ committed'[x] # NoEntry /\ committed[x].status = "CANCELLED"
         => committed'[x].status = "CANCELLED"]_vars

\* The files, locks and crashes together behave as the abstract board does.
Abstract == INSTANCE Board WITH board <- committed, archive <- legacy
ImplementsBoard == Abstract!Spec

\* The invariant behind these: who holds the lock, what the file holds, and
\* what a process carries from the parse to the write.
LockIsHeld == \A p \in Proc : proc[p].pc \in Holding <=> lock = p
FileIsCommitted ==
  /\ reg.kind = "ok" => reg.data = committed
  /\ reg.kind \in {"missing", "empty"} => committed = Nothing /\ reg.data = Nothing
VerdictsCarried ==
  \A p \in Proc : proc[p].pc \in {"open", "lock"} /\ proc[p].op.kind = "patch" =>
    \A x \in Xid : proc[p].want[x] \in Verdicts(proc[p].snap[x])
OperationChosen ==
  \A p \in Proc :
    /\ proc[p].pc \in {"open", "lock", "archive", "head", "tail", "refresh"}
         => proc[p].op \in Op
    /\ At(p, "judge") => "patch" \in Kinds

\* The change an operation makes to the registry, once its fn has run.
IsEdit(o, old, new) ==
  CASE o.kind = "launcher" -> new = [old EXCEPT ![o.xid] = LauncherEdit(@)]
    [] o.kind = "wrapper"  -> new = [old EXCEPT ![o.xid] = WrapperEdit(@)]
    [] o.kind = "cancel"   -> new = [old EXCEPT ![o.xid] = CancelEdit(@)]
    [] o.kind = "corpse"   -> new = [old EXCEPT ![o.xid] = CorpseEdit(@)]
    [] o.kind = "patch"    -> \A x \in Xid : new[x] \in Abstract!Restate(old[x])
    [] OTHER               -> new = [old EXCEPT ![o.xid] = NoEntry]
EditsCarried ==
  \A p \in Proc : proc[p].pc \in {"archive", "head", "tail"} =>
    /\ IsEdit(proc[p].op, proc[p].before, proc[p].after)
    /\ Archives(proc[p].op) /\ ~At(p, "archive") /\ proc[p].before[proc[p].op.xid] # NoEntry
         => Covers(legacy[proc[p].op.xid], proc[p].before[proc[p].op.xid])

Inv == /\ TypeOK /\ LockIsHeld /\ FileIsCommitted /\ OperationChosen
       /\ VerdictsCarried /\ WriterIsCurrent /\ EditsCarried

=============================================================================
