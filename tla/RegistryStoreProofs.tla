------------------------- MODULE RegistryStoreProofs -------------------------
(***************************************************************************)
(* What RegistryStore guarantees for any processes, experiments, retries   *)
(* and number of aborted processes.                                        *)
(***************************************************************************)
EXTENDS RegistryStore, TLAPS

USE ConstantsOK DEF ConstantsOK
-----------------------------------------------------------------------------
(* Types of the edits.                                                     *)

\* Each writer's edit of one entry yields an entry, or none.
LEMMA EntryEdits ==
  ASSUME NEW e \in MaybeEntry
  PROVE  /\ LauncherEdit(e) \in Entry
         /\ WrapperEdit(e) \in Entry
         /\ CancelEdit(e) \in MaybeEntry
         /\ CorpseEdit(e) \in MaybeEntry
  BY DEF MaybeEntry, Entry, Status, ErrorText, Metadata, OrEmpty, EmptyEntry, LauncherEdit,
         WrapperEdit, CancelEdit, CorpseEdit

\* A compare-and-set patch keeps an entry an entry, and an absent one absent.
LEMMA PatchType ==
  ASSUME NEW e \in MaybeEntry, NEW old \in MaybeEntry, NEW new \in MaybeEntry,
         old # NoEntry => new # NoEntry
  PROVE  /\ PatchEdit(e, old, new) \in MaybeEntry
         /\ PatchEdit(e, old, new) = NoEntry <=> e = NoEntry
<1>1. CASE e = NoEntry \/ old = NoEntry
  BY <1>1 DEF PatchEdit
<1>2. CASE e # NoEntry /\ old # NoEntry
  <2>1. e \in Entry /\ old \in Entry /\ new \in Entry
    BY <1>2 DEF MaybeEntry
  <2> DEFINE s == CasField(e.status, old.status, new.status)
             t == CasField(e.error, old.error, new.error)
  <2>2. s \in Status /\ t \in ErrorText
    BY <2>1 DEF CasField, Entry
  <2>3. PatchEdit(e, old, new) = [e EXCEPT !.status = s, !.error = t]
    BY <1>2 DEF PatchEdit
  <2>4. PatchEdit(e, old, new) \in Entry
    <3> HIDE DEF s, t
    <3> QED BY <2>1, <2>2, <2>3 DEF Entry
  <2>5. QED
    BY <2>4, <1>2 DEF MaybeEntry
<1>3. QED
  BY <1>1, <1>2

\* The status pass concludes an entry from an entry, and nothing from nothing.
LEMMA VerdictType ==
  ASSUME NEW e \in MaybeEntry, NEW v \in Verdicts(e)
  PROVE  v \in MaybeEntry /\ (v = NoEntry <=> e = NoEntry)
<1>1. CASE e = NoEntry
  BY <1>1 DEF Verdicts, MaybeEntry
<1>2. CASE e # NoEntry
  <2>1. PICK l \in LogVerdicts(e) : v \in BoardVerdicts(l)
    BY <1>2 DEF Verdicts
  <2>2. e \in Entry
    BY <1>2 DEF MaybeEntry
  <2>3. l \in Entry
    BY <2>1, <2>2 DEF LogVerdicts, Entry, Status, ErrorText, Metadata
  <2>4. v \in Entry
    BY <2>1, <2>3 DEF BoardVerdicts, Entry, Status, ErrorText, Metadata
  <2>5. QED
    BY <2>4, <1>2 DEF MaybeEntry
<1>3. QED
  BY <1>1, <1>2

\* Archiving an entry yields an archive record.
LEMMA ArchivedType ==
  ASSUME NEW rec \in MaybeRecord, NEW e \in MaybeEntry, NEW extra \in BOOLEAN
  PROVE  /\ Archived(rec, e, extra) \in Record
         /\ e # NoEntry => Archived(rec, e, extra).entry # NoEntry
<1>1. ASSUME NEW old \in MaybeEntry, NEW new \in Entry
      PROVE  Update(old, new) \in Entry
  BY DEF Update, MaybeEntry, Entry, Status, ErrorText, Metadata
<1>2. QED
  BY <1>1 DEF Archived, MaybeRecord, Record, MaybeEntry
-----------------------------------------------------------------------------
(* Type correctness.                                                       *)

\* fn(data) of every operation maps a registry to a registry; a patch needs
\* verdicts that were drawn from the snapshot they are compared with.
LEMMA EditType ==
  ASSUME NEW o \in Op, NEW d \in Data, NEW sn \in Data, NEW w \in Data,
         o.kind = "patch" => \A x \in Xid : w[x] \in Verdicts(sn[x])
  PROVE  Edit(o, d, sn, w) \in Data
<1>1. o.xid \in Xid /\ d[o.xid] \in MaybeEntry
  BY DEF Op, Data
<1>2. /\ LauncherEdit(d[o.xid]) \in MaybeEntry
      /\ WrapperEdit(d[o.xid]) \in MaybeEntry
      /\ CancelEdit(d[o.xid]) \in MaybeEntry
      /\ CorpseEdit(d[o.xid]) \in MaybeEntry
      /\ NoEntry \in MaybeEntry
  BY <1>1, EntryEdits DEF MaybeEntry
<1>3. CASE o.kind = "patch"
  <2>1. ASSUME NEW x \in Xid
        PROVE  PatchEdit(d[x], sn[x], w[x]) \in MaybeEntry
    <3>1. d[x] \in MaybeEntry /\ sn[x] \in MaybeEntry /\ w[x] \in MaybeEntry
      BY DEF Data
    <3>2. sn[x] # NoEntry => w[x] # NoEntry
      BY <1>3, <3>1, VerdictType
    <3>3. QED
      BY <3>1, <3>2, PatchType
  <2>2. Edit(o, d, sn, w) = [x \in Xid |-> PatchEdit(d[x], sn[x], w[x])]
    BY <1>3 DEF Edit
  <2>3. QED
    BY <2>1, <2>2 DEF Data
<1>4. CASE o.kind # "patch"
  BY <1>1, <1>2, <1>4 DEF Edit, Data, Op
<1>5. QED
  BY <1>3, <1>4

\* The resting state of a process is well typed.
LEMMA IdleType == Idle \in ProcState /\ Nothing \in Data
<1>1. Nothing \in Data
  BY DEF Nothing, Data, MaybeEntry
<1>2. QED
  BY <1>1 DEF Idle, ProcState, PC, NoOp

\* Returning to rest, or moving on to another step, keeps the process typed.
LEMMA ProcMoves ==
  ASSUME NEW p \in Proc, proc \in [Proc -> ProcState]
  PROVE  /\ Return(p) => proc' \in [Proc -> ProcState]
         /\ \A label \in PC : Goto(p, label) => proc' \in [Proc -> ProcState]
  BY IdleType DEF Return, Goto, ProcState

\* Every step keeps every variable in its type.
LEMMA TypeStep == TypeOK /\ VerdictsCarried /\ OperationChosen /\ [Next]_vars => TypeOK'
<1> SUFFICES ASSUME TypeOK, VerdictsCarried, OperationChosen, [Next]_vars
             PROVE  TypeOK'
  OBVIOUS
<1>a. /\ Missing \in File /\ Torn \in File /\ Empty \in File
      /\ \A d \in Data : Parsed(d) \in File
  BY IdleType DEF Missing, Torn, Empty, Parsed, File
<1>1. CASE UNCHANGED vars
  BY <1>1 DEF TypeOK, vars, files, history
<1>2. ASSUME NEW p \in Proc,
             \/ \E o \in Op : Begin(p, o)
             \/ Snapshot(p) \/ RepairStart(p) \/ Step(p) \/ Abort(p)
      PROVE  TypeOK'
  <2> USE DEF TypeOK
  <2>0. proc[p] \in ProcState
    OBVIOUS
  <2>s. ASSUME NEW o \in Op, NEW s \in ProcState, Started(p, o, s)
        PROVE  TypeOK'
    <3>1. [s EXCEPT !.pc = "open", !.op = o, !.existed = reg.kind # "missing"] \in ProcState
      BY DEF ProcState, PC
    <3>2. QED
      BY <2>s, <3>1 DEF Started, files, history
  <2>1. CASE \E o \in Op : Begin(p, o)
    BY <2>1, <2>s, IdleType DEF Begin
  <2>2. CASE Snapshot(p)
    <3>1. [Idle EXCEPT !.pc = "judge", !.snap = reg.data] \in ProcState
      BY IdleType DEF ProcState, PC, File
    <3>2. QED
      BY <2>2, <3>1 DEF Snapshot, files, history
  <2>3. CASE RepairStart(p)
    BY <2>3, ProcMoves DEF RepairStart, files, history, PC
  <2>4. CASE Abort(p)
    <3>1. faults' \in 0..MaxFaults
      BY <2>4 DEF Abort
    <3>2. QED
      BY <2>4, <3>1, ProcMoves DEF Abort, Unlocked, files, history
  <2>5. CASE Open(p)
    <3>1. [proc[p] EXCEPT !.pc = "lock",
             !.lenient = ~proc[p].existed /\ reg.kind \in {"missing", "empty"}] \in ProcState
      BY <2>0 DEF ProcState, PC
    <3>2. proc' \in [Proc -> ProcState]
      BY <2>5, <3>1 DEF Open
    <3>3. QED
      BY <2>5, <3>2, <1>a DEF Open, history
  <2>6. CASE LockRead(p)
    <3> DEFINE s == proc[p]
               new == Edit(s.op, reg.data, s.snap, s.want)
               to == NextStep(s, reg.data, new)
    <3>1. s.op \in Op /\ reg.data \in Data /\ s.snap \in Data /\ s.want \in Data
      BY <2>0, <2>6 DEF LockRead, At, OperationChosen, File, ProcState
    <3>2. s.op.kind = "patch" => \A x \in Xid : s.want[x] \in Verdicts(s.snap[x])
      BY <2>6 DEF LockRead, At, VerdictsCarried
    <3>3. new \in Data
      BY <3>1, <3>2, EditType
    <3>4. to \in PC
      BY DEF NextStep, PC, Holding
    <3>5. [Idle EXCEPT !.pc = to, !.op = s.op, !.existed = s.existed,
                       !.before = reg.data, !.after = new] \in ProcState
      <4> HIDE DEF new, to
      <4> QED BY <2>0, <3>1, <3>3, <3>4, IdleType DEF ProcState
    <3>6. proc' \in [Proc -> ProcState] /\ lock' \in Proc \cup {NoProc}
      BY <2>6, <3>5, ProcMoves DEF LockRead
    <3>7. QED
      BY <2>6, <3>6 DEF LockRead, files, history
  <2>7. CASE LockFail(p)
    <3>1. proc[p].tries + 1 # ReadAttempts => [proc[p] EXCEPT !.tries = @ + 1] \in ProcState
      BY <2>0 DEF ProcState
    <3>2. proc' \in [Proc -> ProcState]
      BY <2>7, <3>1, ProcMoves DEF LockFail
    <3>3. QED
      BY <2>7, <3>2 DEF LockFail, files, history
  <2>8. CASE ArchiveCopy(p)
    <3>1. proc[p].op \in Op /\ proc[p].before \in Data
      BY <2>0, <2>8 DEF ArchiveCopy, At, OperationChosen, ProcState
    <3>2. proc[p].op.xid \in Xid
      BY <3>1 DEF Op
    <3>3. legacy' \in [Xid -> MaybeRecord]
      BY <2>8, <3>1, <3>2, ArchivedType DEF ArchiveCopy, Data, MaybeRecord
    <3>4. proc' \in [Proc -> ProcState] /\ lock' \in Proc \cup {NoProc}
      BY <2>8, ProcMoves DEF ArchiveCopy, PC, Holding
    <3>5. QED
      BY <2>8, <3>3, <3>4 DEF ArchiveCopy, files, history
  <2>9. CASE WriteHead(p) \/ RepairHead(p)
    BY <2>9, <1>a, ProcMoves DEF WriteHead, RepairHead, history, PC, Holding
  <2>10. CASE WriteTail(p)
    <3>1. proc[p].after \in Data
      BY <2>0 DEF ProcState
    <3>2. known' \in SUBSET Xid
      BY <2>10 DEF WriteTail
    <3>3. QED
      BY <2>10, <3>1, <3>2, <1>a, ProcMoves DEF WriteTail, PC, Holding
  <2>11. CASE Refresh(p) \/ RepairTail(p)
    <3>1. proc[p].after \in Data
      BY <2>0 DEF ProcState
    <3>2. QED
      BY <2>11, <3>1, <1>a, ProcMoves DEF Refresh, RepairTail, history
  <2>12. CASE Judge(p)
    <3>1. PICK d \in Opinions(proc[p].snap), x \in Xid :
            Started(p, [kind |-> "patch", xid |-> x], [proc[p] EXCEPT !.want = d])
      BY <2>12 DEF Judge
    <3>2. d \in Data
      <4>1. \A y \in Xid : proc[p].snap[y] \in MaybeEntry
        BY <2>0 DEF ProcState, Data
      <4>2. \A y \in Xid : d[y] \in MaybeEntry
        BY <4>1, VerdictType DEF Opinions
      <4>3. QED
        BY <4>2 DEF Data, Opinions
    <3>3. [proc[p] EXCEPT !.want = d] \in ProcState
      BY <2>0, <3>2 DEF ProcState
    <3>4. [kind |-> "patch", xid |-> x] \in Op
      BY <2>12 DEF Op, Judge, OperationChosen
    <3>5. QED
      BY <3>1, <3>3, <3>4, <2>s
  <2>13. CASE RepairLoad(p)
    <3>1. [proc[p] EXCEPT !.pc = "recheck", !.after = lastgood.data] \in ProcState
      BY <2>0 DEF ProcState, PC, File
    <3>2. proc' \in [Proc -> ProcState]
      BY <2>13, <3>1, ProcMoves DEF RepairLoad
    <3>3. QED
      BY <2>13, <3>2 DEF RepairLoad, files, history
  <2>14. CASE RepairRecheck(p)
    BY <2>14, ProcMoves DEF RepairRecheck, files, history, PC, Holding
  <2>15. QED
    BY <1>2, <2>1, <2>2, <2>3, <2>4, <2>5, <2>6, <2>7, <2>8, <2>9, <2>10, <2>11,
       <2>12, <2>13, <2>14 DEF Step
<1>3. QED
  BY <1>1, <1>2 DEF Next
-----------------------------------------------------------------------------
(* What a patch and an archive do to an entry.                             *)

\* An entry restates another when only status and error differ and CANCELLED stays.
LEMMA RestateDef ==
  ASSUME NEW e, NEW f \in Entry, e # NoEntry, f.meta = e.meta,
         e.status = "CANCELLED" => f.status = "CANCELLED"
  PROVE  f \in Abstract!Restate(e)
<1>1. f \in Abstract!Entry
  BY DEF Abstract!Entry, Entry, Abstract!Status, Status, Abstract!ErrorText, ErrorText,
         Abstract!Metadata, Metadata
<1>2. QED
  BY <1>1 DEF Abstract!Restate

\* However stale the status pass's snapshot, its patch restates the live entry:
\* it never turns CANCELLED into something else.
LEMMA PatchRestates ==
  ASSUME NEW e \in MaybeEntry, NEW old \in MaybeEntry, NEW new \in Verdicts(old)
  PROVE  PatchEdit(e, old, new) \in Abstract!Restate(e)
<1>1. CASE e = NoEntry \/ old = NoEntry
  <2>1. PatchEdit(e, old, new) = e
    BY <1>1 DEF PatchEdit
  <2>2. CASE e = NoEntry
    BY <2>1, <2>2 DEF Abstract!Restate
  <2>3. CASE e # NoEntry
    BY <2>1, <2>3, RestateDef DEF MaybeEntry
  <2>4. QED
    BY <2>2, <2>3
<1>2. CASE e # NoEntry /\ old # NoEntry
  <2>1. e \in Entry /\ old \in Entry /\ new \in Entry
    BY <1>2, VerdictType DEF MaybeEntry
  <2>2. old.status = "CANCELLED" => new = old
    BY <1>2 DEF Verdicts, LogVerdicts, BoardVerdicts
  <2> DEFINE st == CasField(e.status, old.status, new.status)
             er == CasField(e.error, old.error, new.error)
             f  == [e EXCEPT !.status = st, !.error = er]
  <2>3. st \in Status /\ er \in ErrorText
    BY <2>1 DEF CasField, Entry
  <2>4. e.status = "CANCELLED" => st = e.status
    BY <2>2 DEF CasField
  <2>5. PatchEdit(e, old, new) = f
    BY <1>2 DEF PatchEdit
  <2>6. f \in Entry /\ f.meta = e.meta /\ f.status = st
    <3> HIDE DEF st, er
    <3> QED BY <2>1, <2>3 DEF Entry
  <2>7. QED
    BY <1>2, <2>4, <2>5, <2>6, RestateDef
<1>3. QED
  BY <1>1, <1>2

\* The record an archive writes holds everything the live entry says.
LEMMA ArchivedCovers ==
  ASSUME NEW rec \in MaybeRecord, NEW e \in Entry, NEW extra \in BOOLEAN
  PROVE  Covers(Archived(rec, e, extra), e)
<1>0. e # NoEntry
  OBVIOUS
<1>1. ASSUME NEW old \in MaybeEntry
      PROVE  Update(Update(old, e), e) = Update(old, e) /\ Update(old, e) \in Entry
  <2>1. Update(old, e) \in Entry
    BY DEF Update, MaybeEntry, Entry, Status, ErrorText, Metadata
  <2> DEFINE u == Update(old, e)
  <2>2. /\ u \in Entry /\ u # NoEntry
        /\ e.status # "absent" => u.status = e.status
        /\ e.error # "absent" => u.error = e.error
        /\ e.meta \subseteq u.meta
    BY <1>0, <2>1 DEF Update, MaybeEntry, Entry
  <2>3. Update(u, e) = u
    <3> HIDE DEF u
    <3>1. u.meta \cup e.meta = u.meta
      BY <2>2
    <3>2. /\ (IF e.status = "absent" THEN u.status ELSE e.status) = u.status
          /\ (IF e.error = "absent" THEN u.error ELSE e.error) = u.error
      BY <2>2
    <3>3. Update(u, e) \in Entry
      BY <2>2 DEF Update, Entry, MaybeEntry, Status, ErrorText, Metadata
    <3>4. /\ Update(u, e).status = u.status
          /\ Update(u, e).error = u.error
          /\ Update(u, e).meta = u.meta
      BY <2>2, <3>1, <3>2 DEF Update
    <3>5. QED
      BY <2>2, <3>3, <3>4 DEF Entry
  <2>4. QED
    BY <2>1, <2>3
<1>2. Archived(rec, e, extra) \in Record
  BY ArchivedType DEF MaybeEntry
<1>3. PICK old \in MaybeEntry : Archived(rec, e, extra).entry = Update(old, e)
  <2>1. CASE rec = NoEntry
    BY <1>0, <2>1 DEF Archived, MaybeEntry
  <2>2. CASE rec # NoEntry
    BY <1>0, <2>2 DEF Archived, MaybeRecord, Record
  <2>3. QED
    BY <2>1, <2>2
<1>4. QED
  BY <1>1, <1>2, <1>3 DEF Covers

\* fn(data) is the operation's edit.
LEMMA EditIsEdit ==
  ASSUME NEW o \in Op, NEW d \in Data, NEW sn \in Data, NEW w \in Data,
         o.kind = "patch" => \A x \in Xid : w[x] \in Verdicts(sn[x])
  PROVE  IsEdit(o, d, Edit(o, d, sn, w))
<1>1. CASE o.kind = "patch"
  <2>1. \A x \in Xid : PatchEdit(d[x], sn[x], w[x]) \in Abstract!Restate(d[x])
    BY <1>1, PatchRestates DEF Data
  <2>2. QED
    BY <1>1, <2>1 DEF Edit, IsEdit
<1>2. CASE o.kind # "patch"
  BY <1>2 DEF Edit, IsEdit
<1>3. QED
  BY <1>1, <1>2
-----------------------------------------------------------------------------
(* The inductive invariant.                                                *)

LEMMA InvInit == Init => Inv
<1> SUFFICES ASSUME Init PROVE Inv
  OBVIOUS
<1>1. TypeOK
  BY IdleType DEF Init, TypeOK, Missing, File, MaybeRecord
<1>2. \A p \in Proc : proc[p].pc = "idle"
  BY DEF Init, Idle
<1>3. LockIsHeld /\ OperationChosen /\ VerdictsCarried /\ WriterIsCurrent /\ EditsCarried
  BY <1>2 DEF LockIsHeld, OperationChosen, VerdictsCarried, WriterIsCurrent, EditsCarried,
              Holding, At, Init
<1>4. FileIsCommitted
  BY DEF FileIsCommitted, Init, Missing
<1>5. QED
  BY <1>1, <1>3, <1>4 DEF Inv

\* A step moves one process and leaves what the others are doing alone.
LEMMA OthersStay ==
  ASSUME TypeOK, NEW p \in Proc,
         \/ \E o \in Op : Begin(p, o)
         \/ Snapshot(p) \/ RepairStart(p) \/ Step(p) \/ Abort(p)
  PROVE  \A q \in Proc \ {p} : proc'[q] = proc[q]
<1>1. (\E o \in Op : Begin(p, o)) \/ Snapshot(p) \/ RepairStart(p) \/ Abort(p)
        => \E s : proc' = [proc EXCEPT ![p] = s]
  BY DEF Begin, Started, Snapshot, RepairStart, Abort, Goto, Return
<1>2. Step(p) => \E s : proc' = [proc EXCEPT ![p] = s]
  BY DEF Step, Open, LockRead, LockFail, ArchiveCopy, WriteHead, WriteTail, Refresh,
     Judge, Started, RepairLoad, RepairRecheck, RepairHead, RepairTail, Goto, Return
<1>3. QED
  BY <1>1, <1>2 DEF TypeOK

\* Where a process's step leaves the others, and what it may carry, is all the
\* invariant needs when the files and the lock stay as they are.
LEMMA QuietMove ==
  ASSUME Inv, TypeOK', NEW p \in Proc,
         \A q \in Proc \ {p} : proc'[q] = proc[q],
         UNCHANGED <<reg, legacy, lock, committed>>,
         lock # p, proc'[p].pc \notin Holding,
         proc'[p].pc \in {"open", "lock"} => proc'[p].op \in Op,
         proc'[p].pc = "judge" => "patch" \in Kinds,
         proc'[p].pc \in {"open", "lock"} /\ proc'[p].op.kind = "patch"
           => \A x \in Xid : proc'[p].want[x] \in Verdicts(proc'[p].snap[x])
  PROVE  Inv'
<1> USE DEF Inv
<1>1. LockIsHeld'
  BY DEF LockIsHeld
<1>2. FileIsCommitted'
  BY DEF FileIsCommitted
<1>3. OperationChosen'
  BY DEF OperationChosen, At, Holding
<1>4. VerdictsCarried'
  BY DEF VerdictsCarried
<1>5. WriterIsCurrent'
  BY DEF WriterIsCurrent, Holding
<1>6. EditsCarried'
  BY DEF EditsCarried, At, Holding
<1>7. QED
  BY <1>1, <1>2, <1>3, <1>4, <1>5, <1>6

\* The same when the process that holds the lock moves, rewriting the files as
\* it goes: nobody else is between its parse and its write.
LEMMA HolderMove ==
  ASSUME Inv, TypeOK', NEW p \in Proc,
         \A q \in Proc \ {p} : proc'[q] = proc[q],
         lock = p, lock' = IF proc'[p].pc \in Holding THEN p ELSE NoProc,
         proc'[p].pc \notin {"open", "lock", "judge"},
         proc'[p].pc \in {"archive", "head", "tail", "refresh"} => proc'[p].op \in Op,
         proc'[p].pc \in {"archive", "head", "tail"} =>
           /\ proc'[p].before = committed'
           /\ IsEdit(proc'[p].op, proc'[p].before, proc'[p].after)
           /\ Archives(proc'[p].op) /\ proc'[p].pc # "archive" /\ proc'[p].before[proc'[p].op.xid] # NoEntry
                => Covers(legacy'[proc'[p].op.xid], proc'[p].before[proc'[p].op.xid]),
         FileIsCommitted'
  PROVE  Inv'
<1> USE DEF Inv
<1>1. \A q \in Proc : q # p => proc[q].pc \notin Holding
  BY DEF LockIsHeld
<1>2. LockIsHeld'
  BY <1>1 DEF LockIsHeld
<1>3. OperationChosen'
  BY DEF OperationChosen, At
<1>4. VerdictsCarried'
  BY DEF VerdictsCarried
<1>5. WriterIsCurrent'
  BY <1>1 DEF WriterIsCurrent, Holding
<1>6. EditsCarried'
  BY <1>1 DEF EditsCarried, At, Holding
<1>7. QED
  BY <1>2, <1>3, <1>4, <1>5, <1>6

\* Every step keeps the invariant.
LEMMA InvStep == Inv /\ [Next]_vars => Inv'
<1> SUFFICES ASSUME Inv, [Next]_vars PROVE Inv'
  OBVIOUS
<1>0. TypeOK'
  BY TypeStep DEF Inv
<1>1. CASE UNCHANGED vars
  BY <1>1, <1>0 DEF Inv, vars, files, history, LockIsHeld, FileIsCommitted, OperationChosen,
     VerdictsCarried, WriterIsCurrent, EditsCarried, At
<1>2. ASSUME NEW p \in Proc,
             \/ \E o \in Op : Begin(p, o)
             \/ Snapshot(p) \/ RepairStart(p) \/ Step(p) \/ Abort(p)
      PROVE  Inv'
  <2>t. TypeOK /\ proc[p] \in ProcState
    BY DEF Inv, TypeOK
  <2>h. lock = p <=> proc[p].pc \in Holding
    BY DEF Inv, LockIsHeld
  <2>i. Idle.pc = "idle"
    BY DEF Idle
  <2>o. \A q \in Proc \ {p} : proc'[q] = proc[q]
    BY <1>2, <2>t, OthersStay
  <2>r. Return(p) => proc'[p].pc = "idle"
    BY <2>i, <2>t DEF Return, TypeOK
  <2>1. CASE \E o \in Op : Begin(p, o)
    <3>1. PICK o \in Op : Begin(p, o)
      BY <2>1
    <3>2. o.kind # "patch" /\ lock # p
      BY <3>1, <2>h DEF Begin, At, Holding
    <3> DEFINE s == [Idle EXCEPT !.pc = "open", !.op = o, !.existed = reg.kind # "missing"]
    <3>3. s.pc = "open" /\ s.op = o
      BY DEF Idle
    <3>4. proc'[p] = s /\ UNCHANGED <<reg, legacy, lock, committed>>
      BY <3>1, <2>t DEF Begin, Started, files, history, TypeOK
    <3>5. QED
      <4> HIDE DEF s
      <4> QED BY <1>0, <2>o, <3>2, <3>3, <3>4, QuietMove DEF Holding
  <2>2. CASE Snapshot(p)
    <3> DEFINE s == [Idle EXCEPT !.pc = "judge", !.snap = reg.data]
    <3>1. s.pc = "judge"
      BY DEF Idle
    <3>2. /\ proc'[p] = s /\ lock # p /\ "patch" \in Kinds
          /\ UNCHANGED <<reg, legacy, lock, committed>>
      BY <2>2, <2>h, <2>t DEF Snapshot, At, Holding, files, history, TypeOK
    <3>3. QED
      <4> HIDE DEF s
      <4> QED BY <1>0, <2>o, <3>1, <3>2, QuietMove DEF Holding
  <2>3. CASE RepairStart(p) \/ RepairLoad(p)
    <3>1. proc'[p].pc \in {"idle", "load", "recheck"}
      <4>1. CASE RepairStart(p)
        BY <4>1, <2>t DEF RepairStart, Goto, ProcState, TypeOK
      <4>2. CASE RepairLoad(p)
        BY <4>2, <2>t, <2>r DEF RepairLoad, ProcState, TypeOK
      <4>3. QED
        BY <2>3, <4>1, <4>2
    <3>2. lock # p /\ UNCHANGED <<reg, legacy, lock, committed>>
      BY <2>3, <2>h DEF RepairStart, RepairLoad, At, Holding, files, history
    <3>3. QED
      BY <1>0, <2>o, <3>1, <3>2, QuietMove DEF Holding
  <2>4. CASE Abort(p)
    <3>1. proc'[p].pc = "idle" /\ UNCHANGED <<reg, legacy, committed>>
      BY <2>4, <2>r DEF Abort, files, history
    <3>2. CASE lock = p
      <4>1. FileIsCommitted' /\ lock' = NoProc
        BY <2>4, <3>2 DEF Abort, Unlocked, files, history, Inv, FileIsCommitted
      <4>2. QED
        BY <1>0, <2>o, <3>1, <3>2, <4>1, HolderMove DEF Holding
    <3>3. CASE lock # p
      BY <1>0, <2>4, <2>o, <3>1, <3>3, QuietMove DEF Abort, Unlocked, Holding
    <3>4. QED
      BY <3>2, <3>3
  <2>5. CASE Open(p)
    <3> DEFINE s == [proc[p] EXCEPT !.pc = "lock",
                       !.lenient = ~proc[p].existed /\ reg.kind \in {"missing", "empty"}]
    <3>1. /\ s.pc = "lock" /\ s.op = proc[p].op /\ s.want = proc[p].want
          /\ s.snap = proc[p].snap
      BY <2>t DEF ProcState
    <3>2. /\ proc'[p] = s /\ lock # p
          /\ proc[p].pc = "open" /\ UNCHANGED <<legacy, lock, committed>>
      BY <2>5, <2>h, <2>t DEF Open, At, Holding, history, TypeOK, ProcState
    <3>3. proc[p].op \in Op
      BY <3>2 DEF Inv, OperationChosen
    <3>4. proc[p].op.kind = "patch" =>
            \A x \in Xid : proc[p].want[x] \in Verdicts(proc[p].snap[x])
      BY <3>2 DEF Inv, VerdictsCarried
    <3>5. FileIsCommitted'
      BY <2>5 DEF Open, Inv, FileIsCommitted, Missing, Empty, history
    <3>6. LockIsHeld' /\ OperationChosen' /\ VerdictsCarried' /\ WriterIsCurrent' /\ EditsCarried'
      <4> HIDE DEF s
      <4>2. QED
        BY <2>o, <3>1, <3>2, <3>3, <3>4 DEF Inv, LockIsHeld, OperationChosen,
           VerdictsCarried, WriterIsCurrent, EditsCarried, At, Holding
    <3>7. QED
      BY <1>0, <3>5, <3>6 DEF Inv
  <2>6. CASE LockRead(p)
    <3> DEFINE r == proc[p]
               new == Edit(r.op, reg.data, r.snap, r.want)
               to == NextStep(r, reg.data, new)
               s == [Idle EXCEPT !.pc = to, !.op = r.op, !.existed = r.existed,
                                 !.before = reg.data, !.after = new]
    <3>1. /\ r.pc = "lock" /\ lock = NoProc /\ lock # p
          /\ UNCHANGED <<reg, legacy, committed>>
      BY <2>6 DEF LockRead, At, files, history
    <3>2. r.op \in Op /\ reg.data \in Data /\ r.snap \in Data /\ r.want \in Data
      BY <2>t, <3>1 DEF Inv, OperationChosen, TypeOK, File, ProcState
    <3>3. IsEdit(r.op, reg.data, new)
      BY <3>1, <3>2, EditIsEdit DEF Inv, VerdictsCarried
    <3>4. reg.data = committed
      BY <2>6 DEF LockRead, Readable, Inv, FileIsCommitted
    <3>5. CASE to = "idle"
      <4>1. proc'[p].pc = "idle" /\ UNCHANGED lock
        BY <2>6, <2>r, <3>5 DEF LockRead
      <4>2. QED
        BY <1>0, <2>o, <3>1, <4>1, QuietMove DEF Holding
    <3>6. CASE to # "idle"
      <4>1. proc' = [proc EXCEPT ![p] = s] /\ lock' = p
        BY <2>6, <3>6 DEF LockRead
      <4>2. /\ s.pc = to /\ s.op = r.op /\ s.before = reg.data /\ s.after = new
        BY DEF Idle
      <4>3. to \in {"archive", "head"}
        BY <3>6 DEF NextStep
      <4>4. to = "head" /\ Archives(r.op) => reg.data[r.op.xid] = NoEntry
        BY DEF NextStep, IsTarget
      <4>5. proc'[p] = s /\ \A q \in Proc : q # p => proc'[q] = proc[q]
        BY <2>t, <2>o, <4>1 DEF TypeOK
      <4>6. LockIsHeld' /\ FileIsCommitted' /\ OperationChosen' /\ VerdictsCarried'
        <5> HIDE DEF s, to
        <5>1. \A q \in Proc : proc[q].pc \notin Holding
          BY <3>1 DEF Inv, LockIsHeld
        <5>2. QED
          BY <3>1, <3>2, <4>1, <4>2, <4>3, <4>5, <5>1 DEF Inv, LockIsHeld, FileIsCommitted,
             OperationChosen, VerdictsCarried, At, Holding
      <4>7. WriterIsCurrent' /\ EditsCarried'
        <5> HIDE DEF s, to, new
        <5>1. \A q \in Proc : proc[q].pc \notin Holding
          BY <3>1 DEF Inv, LockIsHeld
        <5>2. WriterIsCurrent'
          BY <3>1, <3>4, <4>1, <4>2, <4>5, <5>1 DEF WriterIsCurrent, Holding
        <5>3. EditsCarried'
          BY <3>3, <4>2, <4>3, <4>4, <4>5, <5>1 DEF EditsCarried, At, Holding
        <5>4. QED
          BY <5>2, <5>3
      <4>8. QED
        BY <1>0, <4>6, <4>7 DEF Inv
    <3>7. QED
      BY <3>5, <3>6
  <2>7. CASE LockFail(p)
    <3>1. \/ proc'[p].pc = "idle"
          \/ /\ proc'[p].pc = "lock" /\ proc'[p].op = proc[p].op
             /\ proc'[p].want = proc[p].want /\ proc'[p].snap = proc[p].snap
      BY <2>7, <2>t, <2>r DEF LockFail, At, ProcState, TypeOK
    <3>2. /\ proc[p].pc = "lock" /\ lock # p /\ UNCHANGED <<reg, legacy, lock, committed>>
      BY <2>7, <2>h DEF LockFail, At, Holding, files, history
    <3>3. QED
      BY <1>0, <2>o, <3>1, <3>2, QuietMove DEF Holding, Inv, OperationChosen, VerdictsCarried
  <2>8. CASE ArchiveCopy(p)
    <3> DEFINE r == proc[p]
    <3>1. /\ r.pc = "archive" /\ lock = p /\ UNCHANGED <<reg, committed>>
      BY <2>8, <2>h DEF ArchiveCopy, At, Holding, history
    <3>2. r.op \in Op /\ r.before \in Data /\ r.before = committed
          /\ IsEdit(r.op, r.before, r.after)
      BY <2>t, <3>1 DEF Inv, OperationChosen, WriterIsCurrent, EditsCarried, ProcState
    <3>3. FileIsCommitted'
      BY <3>1 DEF Inv, FileIsCommitted
    <3>4. r.before[r.op.xid] # NoEntry => Covers(legacy'[r.op.xid], r.before[r.op.xid])
      BY <2>8, <2>t, <3>2, ArchivedCovers DEF ArchiveCopy, TypeOK, Data, Op, MaybeEntry
    <3>5. \/ proc'[p].pc = "idle" /\ lock' = NoProc
          \/ /\ proc'[p].pc = "head" /\ lock' = lock /\ proc'[p].op = r.op
             /\ proc'[p].before = r.before /\ proc'[p].after = r.after
      BY <2>8, <2>t, <2>r DEF ArchiveCopy, Goto, ProcState, TypeOK
    <3>6. QED
      <4> HIDE DEF r
      <4> QED BY <1>0, <2>o, <3>1, <3>2, <3>3, <3>4, <3>5, HolderMove DEF Holding
  <2>9. CASE WriteHead(p)
    <3>1. /\ proc[p].pc = "head" /\ lock = p /\ lock' = p /\ UNCHANGED <<legacy, committed>>
      BY <2>9, <2>h DEF WriteHead, At, Holding, history
    <3>2. /\ proc'[p].pc = "tail" /\ proc'[p].op = proc[p].op
          /\ proc'[p].before = proc[p].before /\ proc'[p].after = proc[p].after
      BY <2>9, <2>t DEF WriteHead, Goto, ProcState, TypeOK
    <3>3. FileIsCommitted'
      BY <2>9 DEF WriteHead, FileIsCommitted, Torn
    <3>4. QED
      BY <1>0, <2>o, <3>1, <3>2, <3>3, HolderMove DEF Holding, Inv, OperationChosen,
         WriterIsCurrent, EditsCarried, At
  <2>10. CASE WriteTail(p)
    <3>1. /\ proc[p].pc = "tail" /\ lock = p /\ lock' = p /\ UNCHANGED legacy
      BY <2>10, <2>h DEF WriteTail, At, Holding
    <3>2. proc'[p].pc = "refresh" /\ proc'[p].op = proc[p].op
      BY <2>10, <2>t DEF WriteTail, Goto, ProcState, TypeOK
    <3>3. FileIsCommitted'
      BY <2>10 DEF WriteTail, FileIsCommitted, Parsed
    <3>4. QED
      BY <1>0, <2>o, <3>1, <3>2, <3>3, HolderMove DEF Holding, Inv, OperationChosen
  <2>11. CASE Refresh(p) \/ RepairTail(p)
    <3>1. /\ lock = p /\ lock' = NoProc /\ proc'[p].pc = "idle"
      BY <2>11, <2>h, <2>r DEF Refresh, RepairTail, At, Holding
    <3>2. FileIsCommitted'
      BY <2>11 DEF Refresh, RepairTail, Inv, FileIsCommitted, Parsed, history
    <3>3. QED
      BY <1>0, <2>o, <3>1, <3>2, HolderMove DEF Holding
  <2>12. CASE Judge(p)
    <3>1. PICK d \in Opinions(proc[p].snap), x \in Xid :
            Started(p, [kind |-> "patch", xid |-> x], [proc[p] EXCEPT !.want = d])
      BY <2>12 DEF Judge
    <3> DEFINE o == [kind |-> "patch", xid |-> x]
    <3>2. /\ proc'[p].pc = "open" /\ proc'[p].op = o
          /\ proc'[p].want = d /\ proc'[p].snap = proc[p].snap
      BY <2>t, <3>1 DEF Started, ProcState, TypeOK
    <3>3. lock # p /\ UNCHANGED <<reg, legacy, lock, committed>>
      BY <2>12, <2>h, <3>1 DEF Judge, Started, At, Holding, files, history
    <3>4. o \in Op
      BY <2>12 DEF Op, Judge, Inv, OperationChosen
    <3>5. \A y \in Xid : d[y] \in Verdicts(proc[p].snap[y])
      BY DEF Opinions
    <3>6. QED
      <4> HIDE DEF o
      <4> QED BY <1>0, <2>o, <3>2, <3>3, <3>4, <3>5, QuietMove DEF Holding
  <2>13. CASE RepairRecheck(p)
    <3>1. proc[p].pc = "recheck" /\ lock = NoProc /\ UNCHANGED <<reg, legacy, committed>>
      BY <2>13 DEF RepairRecheck, At, files, history
    <3>2. CASE Unreadable(reg)
      <4>1. proc'[p].pc = "rhead" /\ lock' = p
        BY <2>13, <2>t, <3>2 DEF RepairRecheck, Goto, ProcState, TypeOK
      <4>3. \A q \in Proc : proc[q].pc \notin Holding
        BY <3>1 DEF Inv, LockIsHeld
      <4>4. QED
        BY <1>0, <2>o, <3>1, <4>1, <4>3 DEF Inv, LockIsHeld, FileIsCommitted,
           OperationChosen, VerdictsCarried, WriterIsCurrent, EditsCarried, At, Holding
    <3>3. CASE ~Unreadable(reg)
      <4>1. proc'[p].pc = "idle" /\ UNCHANGED lock
        BY <2>13, <2>r, <3>3 DEF RepairRecheck
      <4>2. QED
        BY <1>0, <2>o, <3>1, <4>1, QuietMove DEF Holding
    <3>4. QED
      BY <3>2, <3>3
  <2>14. CASE RepairHead(p)
    <3>1. lock = p /\ lock' = p
      BY <2>14, <2>h DEF RepairHead, At, Holding
    <3>2. proc'[p].pc = "rtail"
      BY <2>14, <2>t DEF RepairHead, Goto, ProcState, TypeOK
    <3>3. FileIsCommitted'
      BY <2>14 DEF RepairHead, FileIsCommitted, Torn
    <3>4. QED
      BY <1>0, <2>o, <3>1, <3>2, <3>3, HolderMove DEF Holding
  <2>15. QED
    BY <1>2, <2>1, <2>2, <2>3, <2>4, <2>5, <2>6, <2>7, <2>8, <2>9, <2>10, <2>11,
       <2>12, <2>13, <2>14 DEF Step
<1>3. QED
  BY <1>1, <1>2 DEF Next

\* Every variable keeps its type: for one, no operation retries more often than
\* READ_ATTEMPTS, and a registry that parses holds entries.
THEOREM TypeCorrect == Spec => []TypeOK
<1>1. Inv => TypeOK
  BY DEF Inv
<1>2. QED
  BY <1>1, InvInit, InvStep, PTL DEF Spec

\* The invariant holds of the module, repairs and aborts included.
THEOREM Invariance == Spec => []Inv
BY InvInit, InvStep, PTL DEF Spec

\* No lost update: whoever is about to write the registry holds its lock and
\* worked out the new contents from what the last completed write left.
THEOREM NoLostUpdate == Spec => []WriterIsCurrent
<1>1. Inv => WriterIsCurrent
  BY DEF Inv
<1>2. QED
  BY <1>1, InvInit, InvStep, PTL DEF Spec
-----------------------------------------------------------------------------
(* The abstract board. A repair restores an older registry, so what follows *)
(* is about the module with nobody running one.                            *)

NoRepair ==
  \A p \in Proc : proc[p].pc \notin {"load", "recheck", "rhead", "rtail"}

\* Without an operator running `repair` no process is ever inside one.
LEMMA NoRepairInit == Init => NoRepair
BY DEF Init, NoRepair, Idle

\* ... and none gets there in a step.
LEMMA NoRepairStep ==
  ASSUME "repair" \notin Kinds, TypeOK, NoRepair, [Next]_vars
  PROVE  NoRepair'
<1>1. CASE UNCHANGED vars
  BY <1>1 DEF NoRepair, vars
<1>2. ASSUME NEW p \in Proc,
             \/ \E o \in Op : Begin(p, o)
             \/ Snapshot(p) \/ RepairStart(p) \/ Step(p) \/ Abort(p)
      PROVE  NoRepair'
  <2>t. proc[p] \in ProcState
    BY DEF TypeOK
  <2>o. \A q \in Proc \ {p} : proc'[q] = proc[q]
    BY <1>2, OthersStay
  <2>i. Idle.pc = "idle"
    BY DEF Idle
  <2>1. proc'[p].pc \notin {"load", "recheck", "rhead", "rtail"}
    <3>a. CASE \E o \in Op : Begin(p, o)
      BY <3>a, <2>i, <2>t DEF TypeOK, Begin, Started, Idle
    <3>b. CASE Snapshot(p)
      BY <3>b, <2>t DEF TypeOK, Snapshot, Idle
    <3>c. CASE RepairStart(p)
      BY <3>c DEF RepairStart
    <3>1. CASE Abort(p)
      BY <3>1, <2>i DEF TypeOK, Abort, Return
    <3>2. CASE Open(p) \/ LockFail(p) \/ ArchiveCopy(p) \/ WriteHead(p) \/ WriteTail(p)
               \/ Refresh(p)
      BY <3>2, <2>i, <2>t DEF TypeOK, Open, LockFail, ArchiveCopy, WriteHead, WriteTail,
         Refresh, Return, Goto, ProcState, NoRepair
    <3>3. CASE LockRead(p)
      <4> DEFINE r == proc[p]
                 new == Edit(r.op, reg.data, r.snap, r.want)
                 to == NextStep(r, reg.data, new)
                 s == [Idle EXCEPT !.pc = to, !.op = r.op, !.existed = r.existed,
                                   !.before = reg.data, !.after = new]
      <4>1. s.pc = to /\ to \in {"archive", "idle", "head"}
        BY DEF NextStep, Idle
      <4>2. Return(p) \/ proc' = [proc EXCEPT ![p] = s]
        BY <3>3 DEF LockRead
      <4>3. QED
        <5> HIDE DEF s, to
        <5> QED BY <2>i, <4>1, <4>2 DEF TypeOK, Return
    <3>4. CASE Judge(p)
      BY <3>4, <2>t DEF TypeOK, Judge, Started, ProcState
    <3>5. CASE RepairLoad(p) \/ RepairRecheck(p) \/ RepairHead(p) \/ RepairTail(p)
      BY <3>5 DEF NoRepair, RepairLoad, RepairRecheck, RepairHead, RepairTail, At
    <3>6. QED
      BY <1>2, <3>a, <3>b, <3>c, <3>1, <3>2, <3>3, <3>4, <3>5 DEF Step
  <2>2. QED
    BY <2>o, <2>1 DEF NoRepair
<1>3. QED
  BY <1>1, <1>2 DEF Next

\* The board's edits are the entry edits.
LEMMA SameEdits ==
  /\ \A e : Abstract!LauncherEdit(e) = LauncherEdit(e)
  /\ \A e : Abstract!WrapperEdit(e) = WrapperEdit(e)
  /\ \A e : Abstract!CancelEdit(e) = CancelEdit(e)
  /\ \A e : Abstract!IsCorpse(e) = IsCorpse(e)
  /\ \A rec, e, extra : Abstract!Archived(rec, e, extra) = Archived(rec, e, extra)
  /\ \A rec, e : Abstract!Covers(rec, e) = Covers(rec, e)
BY DEF Abstract!LauncherEdit, LauncherEdit, Abstract!WrapperEdit, WrapperEdit,
       Abstract!CancelEdit, CancelEdit, Abstract!IsCorpse, IsCorpse, Abstract!Archived,
       Archived, Abstract!Covers, Covers, Abstract!Update, Update, Abstract!OrEmpty, OrEmpty,
       Abstract!EmptyEntry, EmptyEntry

\* A completed write is one step of the board, or changes nothing.
LEMMA WriteRefines ==
  ASSUME Inv, TypeOK', NEW p \in Proc, WriteTail(p)
  PROVE  Abstract!Next \/ UNCHANGED <<committed, legacy>>
<1> DEFINE o == proc[p].op
           x == o.xid
<1>1. /\ proc[p].pc = "tail" /\ UNCHANGED legacy /\ o \in Op /\ x \in Xid
      /\ committed' = proc[p].after /\ committed \in Data /\ committed' \in Data
  BY DEF WriteTail, At, Inv, OperationChosen, Op, TypeOK
<1>2. /\ IsEdit(o, committed, committed')
      /\ Archives(o) /\ committed[x] # NoEntry => Covers(legacy[x], committed[x])
  BY <1>1 DEF Inv, WriterIsCurrent, EditsCarried, At
<1> HIDE DEF o, x
<1>3. CASE o.kind \in {"launcher", "wrapper"}
  <2>1. Abstract!Register(o.xid)
    BY <1>1, <1>2, <1>3, SameEdits DEF IsEdit, Abstract!Register
  <2>2. QED
    BY <1>1, <2>1 DEF Abstract!Next, x
<1>4. CASE o.kind = "cancel"
  <2>1. Abstract!Cancel(o.xid)
    BY <1>1, <1>2, <1>4, SameEdits DEF IsEdit, Abstract!Cancel
  <2>2. QED
    BY <1>1, <2>1 DEF Abstract!Next, x
<1>5. CASE o.kind = "corpse"
  <2>1. committed' = [committed EXCEPT ![o.xid] = CorpseEdit(@)]
    BY <1>2, <1>5 DEF IsEdit
  <2>2. CASE IsCorpse(committed[o.xid])
    <3>1. Abstract!Bury(o.xid)
      BY <1>1, <2>1, <2>2, SameEdits DEF CorpseEdit, Abstract!Bury
    <3>2. QED
      BY <1>1, <3>1 DEF Abstract!Next, x
  <2>3. CASE ~IsCorpse(committed[o.xid])
    BY <1>1, <2>1, <2>3 DEF CorpseEdit, Data
  <2>4. QED
    BY <2>2, <2>3
<1>6. CASE o.kind = "patch"
  <2>1. Abstract!Assess
    BY <1>1, <1>2, <1>6 DEF IsEdit, Abstract!Assess, Data
  <2>2. QED
    BY <2>1 DEF Abstract!Next
<1>7. CASE o.kind \in {"archive", "clear"}
  <2>1. committed' = [committed EXCEPT ![o.xid] = NoEntry]
    BY <1>2, <1>7 DEF IsEdit
  <2>2. CASE committed[o.xid] = NoEntry
    BY <1>1, <2>1, <2>2 DEF Data
  <2>3. CASE committed[o.xid] # NoEntry
    <3>1. Abstract!Remove(o.xid)
      BY <1>1, <1>2, <1>7, <2>1, <2>3, SameEdits DEF Archives, Abstract!Remove, x
    <3>2. QED
      BY <1>1, <3>1 DEF Abstract!Next, x
  <2>4. QED
    BY <2>2, <2>3
<1>8. QED
  BY <1>1, <1>3, <1>4, <1>5, <1>6, <1>7 DEF Op

\* The archive write of a move is the board's copy: the entry it records is the
\* one on the registry.
LEMMA CopyRefines ==
  ASSUME Inv, NEW p \in Proc, ArchiveCopy(p)
  PROVE  Abstract!Next
<1>1. /\ proc[p].pc = "archive" /\ UNCHANGED committed
      /\ proc[p].op.xid \in Xid /\ proc[p].before = committed
  BY DEF ArchiveCopy, At, history, Inv, OperationChosen, WriterIsCurrent, Op
<1>2. Abstract!Copy(proc[p].op.xid)
  BY <1>1, SameEdits DEF ArchiveCopy, Abstract!Copy
<1>3. QED
  BY <1>1, <1>2 DEF Abstract!Next

\* Every step is a step of the board or leaves it alone.
LEMMA StepRefines ==
  ASSUME Inv, NoRepair, [Next]_vars
  PROVE  [Abstract!Next]_<<committed, legacy>>
<1>0. TypeOK'
  BY TypeStep DEF Inv
<1>1. CASE UNCHANGED vars
  BY <1>1 DEF vars, files, history
<1>2. ASSUME NEW p \in Proc,
             \/ \E o \in Op : Begin(p, o)
             \/ Snapshot(p) \/ RepairStart(p) \/ Step(p) \/ Abort(p)
      PROVE  [Abstract!Next]_<<committed, legacy>>
  <2>1. CASE WriteTail(p)
    BY <1>0, <2>1, WriteRefines
  <2>2. CASE ArchiveCopy(p)
    BY <2>2, CopyRefines
  <2>3. CASE RepairTail(p)
    BY <2>3 DEF RepairTail, At, NoRepair
  <2>4. CASE (\E o \in Op : Begin(p, o)) \/ Snapshot(p) \/ RepairStart(p) \/ Abort(p)
    BY <2>4 DEF Begin, Started, Snapshot, RepairStart, Abort, files, history
  <2>5. CASE Judge(p)
    BY <2>5 DEF Judge, Started, files, history
  <2>6. CASE Open(p) \/ LockRead(p) \/ LockFail(p) \/ WriteHead(p) \/ Refresh(p)
             \/ RepairLoad(p) \/ RepairRecheck(p) \/ RepairHead(p)
    BY <2>6 DEF Open, LockRead, LockFail, WriteHead, Refresh, RepairLoad, RepairRecheck,
       RepairHead, files, history
  <2>7. QED
    BY <1>2, <2>1, <2>2, <2>3, <2>4, <2>5, <2>6 DEF Step
<1>3. QED
  BY <1>1, <1>2 DEF Next

\* Refinement: files, flocks, torn writes and aborts together behave as a board
\* and an archive whose edits are indivisible; in particular an entry leaves the
\* board only when the archive holds all of it, or when it is a corpse.
THEOREM Implementation == "repair" \notin Kinds => (Spec => ImplementsBoard)
<1> SUFFICES ASSUME "repair" \notin Kinds PROVE Spec => ImplementsBoard
  OBVIOUS
<1>1. Init => Abstract!Init
  BY DEF Init, Abstract!Init, Nothing
<1>2. Init => Inv /\ NoRepair
  BY InvInit, NoRepairInit
<1>3. Inv /\ NoRepair /\ [Next]_vars => Inv' /\ NoRepair'
  BY InvStep, NoRepairStep DEF Inv
<1>4. Inv /\ NoRepair /\ [Next]_vars => [Abstract!Next]_<<committed, legacy>>
  BY StepRefines
<1>5. QED
  BY <1>1, <1>2, <1>3, <1>4, PTL DEF Spec, ImplementsBoard, Abstract!Spec

\* On the board itself, CANCELLED is final while the entry is there.
LEMMA BoardKeepsCancelled ==
  ASSUME committed \in Data, [Abstract!Next]_<<committed, legacy>>,
         NEW x \in Xid, committed[x] # NoEntry, committed'[x] # NoEntry,
         committed[x].status = "CANCELLED"
  PROVE  committed'[x].status = "CANCELLED"
<1>1. committed[x] \in Entry
  BY DEF Data, MaybeEntry
<1>2. CASE Abstract!Assess
  <2>1. committed'[x] \in Abstract!Restate(committed[x])
    BY <1>2 DEF Abstract!Assess
  <2>2. QED
    BY <2>1 DEF Abstract!Restate
<1>3. ASSUME NEW y \in Xid, Abstract!Register(y)
      PROVE  committed'[x].status = "CANCELLED"
  <2>1. /\ LauncherEdit(committed[x]).status = "CANCELLED"
        /\ WrapperEdit(committed[x]).status = "CANCELLED"
    BY <1>1 DEF LauncherEdit, WrapperEdit, OrEmpty, Entry
  <2>2. QED
    BY <1>3, <2>1, SameEdits DEF Abstract!Register, Data
<1>4. ASSUME NEW y \in Xid, Abstract!Cancel(y)
      PROVE  committed'[x].status = "CANCELLED"
  <2>1. CancelEdit(committed[x]).status = "CANCELLED"
    BY <1>1 DEF CancelEdit, Entry
  <2>2. QED
    BY <1>4, <2>1, SameEdits DEF Abstract!Cancel, Data
<1>5. ASSUME NEW y \in Xid, Abstract!Copy(y) \/ Abstract!Remove(y) \/ Abstract!Bury(y)
      PROVE  committed'[x].status = "CANCELLED"
  BY <1>5 DEF Abstract!Copy, Abstract!Remove, Abstract!Bury, Data
<1>6. QED
  BY <1>2, <1>3, <1>4, <1>5 DEF Abstract!Next

\* `tpu cancel` is final: no status pass with an older snapshot and no late
\* registration turns a CANCELLED entry into anything else.
THEOREM CancelIsFinal == "repair" \notin Kinds => (Spec => CancelStays)
<1> SUFFICES ASSUME "repair" \notin Kinds PROVE Spec => CancelStays
  OBVIOUS
<1>1. Init => Inv /\ NoRepair
  BY InvInit, NoRepairInit
<1>2. Inv /\ NoRepair /\ [Next]_vars => Inv' /\ NoRepair'
  BY InvStep, NoRepairStep DEF Inv
<1> DEFINE Stays == \A x \in Xid :
       committed[x] # NoEntry /\ committed'[x] # NoEntry /\ committed[x].status = "CANCELLED"
         => committed'[x].status = "CANCELLED"
<1>3. Inv /\ NoRepair /\ [Next]_vars => [Stays]_vars
  <2> SUFFICES ASSUME Inv, NoRepair, [Next]_vars PROVE Stays
    OBVIOUS
  <2>1. [Abstract!Next]_<<committed, legacy>>
    BY StepRefines
  <2>2. committed \in Data
    BY DEF Inv, TypeOK
  <2>3. QED
    BY <2>1, <2>2, BoardKeepsCancelled
<1> HIDE DEF Stays
<1>4. Spec => [][Stays]_vars
  BY <1>1, <1>2, <1>3, PTL DEF Spec
<1>5. QED
  BY <1>4 DEF CancelStays, Stays

\* Archiving keeps what the archive already records.
LEMMA ArchiveKeeps ==
  ASSUME NEW rec \in Record, rec.entry # NoEntry, NEW e \in MaybeEntry, NEW extra \in BOOLEAN
  PROVE  Archived(rec, e, extra) # NoEntry /\ Archived(rec, e, extra).entry # NoEntry
<1>1. Archived(rec, e, extra) \in Record /\ rec # NoEntry
  BY ArchivedType DEF MaybeRecord
<1>2. CASE e = NoEntry
  BY <1>1, <1>2 DEF Archived
<1>3. CASE e # NoEntry
  BY <1>1, <1>3, ArchivedType DEF MaybeRecord
<1>4. QED
  BY <1>1, <1>2, <1>3

\* An entry that any writer changes is still an entry.
LEMMA EditKeeps ==
  ASSUME NEW o \in Op, NEW d \in Data, NEW n \in Data, IsEdit(o, d, n),
         NEW x \in Xid, d[x] # NoEntry,
         n[x] = NoEntry
  PROVE  x = o.xid /\ o.kind \in {"corpse", "archive", "clear"}
<1>1. d[x] \in Entry
  BY DEF Data, MaybeEntry
<1>2. o.kind # "patch"
  <2>1. SUFFICES ASSUME o.kind = "patch" PROVE n[x] # NoEntry
    OBVIOUS
  <2>2. n[x] \in Abstract!Restate(d[x])
    BY <2>1 DEF IsEdit
  <2>3. n[x] \in Abstract!Entry
    BY <2>2 DEF Abstract!Restate
  <2>4. QED
    BY <2>3 DEF Abstract!Entry, Entry, Abstract!Status, Status, Abstract!ErrorText,
       ErrorText, Abstract!Metadata, Metadata
<1>3. LauncherEdit(d[x]) # NoEntry /\ WrapperEdit(d[x]) # NoEntry
  BY EntryEdits DEF Data
<1>4. CancelEdit(d[x]) # NoEntry
  BY <1>1 DEF CancelEdit, Entry, Status, ErrorText, Metadata
<1>5. QED
  BY <1>2, <1>3, <1>4 DEF IsEdit, Data, Op

\* Every step keeps each known experiment on the registry or in the archive.
LEMMA NeitherStep ==
  ASSUME Inv, NoRepair, NeverInNeither, [Next]_vars
  PROVE  NeverInNeither'
<1>0. TypeOK /\ TypeOK'
  BY TypeStep DEF Inv
<1>1. CASE UNCHANGED <<committed, legacy, known>>
  BY <1>1 DEF NeverInNeither
<1>2. ASSUME NEW p \in Proc, ArchiveCopy(p) PROVE NeverInNeither'
  <2> DEFINE y == proc[p].op.xid
             e == proc[p].before[y]
             extra == proc[p].op.kind = "clear"
  <2>1. y \in Xid /\ e \in MaybeEntry /\ extra \in BOOLEAN
    BY <1>0, <1>2 DEF ArchiveCopy, At, Inv, OperationChosen, Op, TypeOK, ProcState, Data
  <2>2. /\ UNCHANGED <<committed, known>>
        /\ legacy' = [legacy EXCEPT ![y] = Archived(@, e, extra)]
    BY <1>2 DEF ArchiveCopy, history
  <2> HIDE DEF y, e, extra
  <2>3. SUFFICES ASSUME NEW x \in known, committed[x] = NoEntry
                 PROVE  legacy'[x] # NoEntry /\ legacy'[x].entry # NoEntry
    BY <2>2 DEF NeverInNeither
  <2>4. x \in Xid /\ legacy[x] \in Record /\ legacy[x].entry # NoEntry
    BY <1>0, <2>3 DEF NeverInNeither, TypeOK, MaybeRecord
  <2>5. Archived(legacy[x], e, extra) # NoEntry /\ Archived(legacy[x], e, extra).entry # NoEntry
    BY <2>1, <2>4, ArchiveKeeps
  <2>6. QED
    BY <1>0, <2>1, <2>2, <2>4, <2>5 DEF TypeOK, MaybeRecord
<1>3. ASSUME NEW p \in Proc, WriteTail(p) PROVE NeverInNeither'
  <2> DEFINE o == proc[p].op
             n == proc[p].after
  <2>1. /\ o \in Op /\ committed' = n /\ n \in Data /\ committed \in Data
        /\ UNCHANGED legacy /\ IsEdit(o, committed, n)
        /\ Archives(o) /\ committed[o.xid] # NoEntry
             => Covers(legacy[o.xid], committed[o.xid])
    BY <1>0, <1>3 DEF WriteTail, At, Inv, OperationChosen, WriterIsCurrent, EditsCarried,
       TypeOK, ProcState
  <2>2. known' = IF o.kind = "corpse" THEN known \ {o.xid}
                 ELSE known \cup {x \in Xid : n[x] # NoEntry}
    BY <1>3 DEF WriteTail
  <2> HIDE DEF o, n
  <2>3. SUFFICES ASSUME NEW x \in known', n[x] = NoEntry
                 PROVE  legacy[x] # NoEntry /\ legacy[x].entry # NoEntry
    BY <2>1 DEF NeverInNeither
  <2>4. x \in known /\ x \in Xid /\ (o.kind = "corpse" => x # o.xid)
    BY <1>0, <2>2, <2>3 DEF TypeOK
  <2>5. CASE committed[x] = NoEntry
    BY <2>4, <2>5 DEF NeverInNeither
  <2>6. CASE committed[x] # NoEntry
    <3>1. x = o.xid /\ Archives(o)
      BY <2>1, <2>3, <2>4, <2>6, EditKeeps DEF Archives
    <3>2. QED
      BY <2>1, <2>6, <3>1 DEF Covers
  <2>7. QED
    BY <2>5, <2>6
<1>4. ASSUME NEW p \in Proc,
             \/ \E o \in Op : Begin(p, o)
             \/ Snapshot(p) \/ RepairStart(p) \/ Step(p) \/ Abort(p),
             ~ArchiveCopy(p), ~WriteTail(p)
      PROVE  UNCHANGED <<committed, legacy, known>>
  <2>1. CASE RepairTail(p)
    BY <2>1 DEF RepairTail, At, NoRepair
  <2>2. CASE (\E o \in Op : Begin(p, o)) \/ Snapshot(p) \/ RepairStart(p) \/ Abort(p)
    BY <2>2 DEF Begin, Started, Snapshot, RepairStart, Abort, files, history
  <2>3. CASE Judge(p)
    BY <2>3 DEF Judge, Started, files, history
  <2>4. CASE Open(p) \/ LockRead(p) \/ LockFail(p) \/ WriteHead(p) \/ Refresh(p)
             \/ RepairLoad(p) \/ RepairRecheck(p) \/ RepairHead(p)
    BY <2>4 DEF Open, LockRead, LockFail, WriteHead, Refresh, RepairLoad, RepairRecheck,
       RepairHead, files, history
  <2>5. QED
    BY <1>4, <2>1, <2>2, <2>3, <2>4 DEF Step
<1>5. CASE UNCHANGED vars
  BY <1>1, <1>5 DEF vars, files, history
<1>6. QED
  BY <1>1, <1>2, <1>3, <1>4, <1>5 DEF Next

\* An experiment that was ever registered is on the registry or in the archive
\* at every moment, whichever step of archive, clear or cancel is cut short.
THEOREM NeverLost == "repair" \notin Kinds => (Spec => []NeverInNeither)
<1> SUFFICES ASSUME "repair" \notin Kinds PROVE Spec => []NeverInNeither
  OBVIOUS
<1>1. Init => Inv /\ NoRepair /\ NeverInNeither
  BY InvInit, NoRepairInit DEF Init, NeverInNeither
<1>2. Inv /\ NoRepair /\ NeverInNeither /\ [Next]_vars => Inv' /\ NoRepair' /\ NeverInNeither'
  BY InvStep, NoRepairStep, NeitherStep DEF Inv
<1>3. QED
  BY <1>1, <1>2, PTL DEF Spec
-----------------------------------------------------------------------------
(* The copy a repair restores. It is stale only between a write and its    *)
(* refresh, by the process that holds the lock; the first aborted process  *)
(* can leave it stale, or the registry torn, and never both.               *)

\* .lastgood says what the last completed write put in the registry.
CopyIsCurrent == IF lastgood.kind = "ok" THEN lastgood.data = committed ELSE committed = Nothing

\* What the registry file must be for a process to be where it is.
BackupFollows ==
  /\ lastgood.kind \in {"missing", "ok"}
  /\ reg.kind \in {"missing", "empty"} => lastgood.kind = "missing"
  /\ \A p \in Proc :
       /\ At(p, "refresh") => reg.kind = "ok" /\ proc[p].after = committed
       /\ At(p, "recheck") => lastgood.kind # "missing"
       /\ proc[p].pc \in {"archive", "head"} => reg.kind # "torn"

\* Before the first abort only a writer tears the registry, nobody restores a
\* copy, and the copy is current unless a writer is about to refresh it.
NoFaultYet ==
  faults = 0 =>
    /\ \A p \in Proc : proc[p].pc \notin {"rhead", "rtail"}
    /\ reg.kind = "torn" => \E p \in Proc : At(p, "tail")
    /\ (\A p \in Proc : ~At(p, "refresh")) => CopyIsCurrent

\* After it, a registry left torn has a current copy until somebody mends it.
TornIsCovered == faults <= 1 /\ reg.kind = "torn" /\ lock = NoProc => CopyIsCurrent

Backup == BackupFollows /\ NoFaultYet /\ TornIsCovered

\* Nothing is written and nothing torn at the start.
LEMMA BackupInit == Init => Backup
<1> SUFFICES ASSUME Init PROVE Backup
  OBVIOUS
<1>1. \A p \in Proc : proc[p].pc = "idle"
  BY DEF Init, Idle
<1>2. QED
  BY <1>1 DEF Init, Missing, Backup, BackupFollows, NoFaultYet, TornIsCovered, CopyIsCurrent, At

\* A step outside the lock that leaves the copy and the last write alone, and
\* changes the registry only by creating it blank.
LEMMA BackupQuiet ==
  ASSUME Backup, NEW p \in Proc,
         \A q \in Proc \ {p} : proc'[q] = proc[q],
         UNCHANGED <<lastgood, lock, committed, faults>>,
         reg' = reg \/ (reg.kind = "missing" /\ reg' = Empty),
         proc[p].pc \notin Holding, proc'[p].pc \notin Holding,
         proc'[p].pc = "recheck" => lastgood.kind # "missing"
  PROVE  Backup'
<1>1. (reg'.kind = "torn" <=> reg.kind = "torn") /\ (reg'.kind = "ok" <=> reg.kind = "ok")
  BY DEF Empty
<1>2. BackupFollows'
  BY <1>1 DEF Backup, BackupFollows, At, Holding, Empty
<1>3. \A q \in Proc : /\ At(q, "tail") <=> At(q, "tail")'
                      /\ At(q, "refresh") <=> At(q, "refresh")'
                      /\ proc[q].pc \in {"rhead", "rtail"} <=> proc'[q].pc \in {"rhead", "rtail"}
  BY DEF At, Holding
<1>4. CopyIsCurrent' <=> CopyIsCurrent
  BY DEF CopyIsCurrent
<1>5. NoFaultYet'
  BY <1>1, <1>3, <1>4 DEF Backup, NoFaultYet
<1>6. TornIsCovered'
  BY <1>1, <1>4 DEF Backup, TornIsCovered
<1>7. QED
  BY <1>2, <1>5, <1>6 DEF Backup

\* A step of the process that holds the lock, or takes it: nobody else is at any
\* step of a write, so what that step leaves is all there is to show.
LEMMA BackupHeld ==
  ASSUME Backup, NEW p \in Proc,
         \A q \in Proc \ {p} : proc'[q] = proc[q],
         \A q \in Proc \ {p} : proc[q].pc \notin Holding,
         lastgood.kind # "missing" => lastgood'.kind # "missing",
         lastgood'.kind \in {"missing", "ok"},
         reg'.kind \in {"missing", "empty"} => lastgood'.kind = "missing",
         proc'[p].pc = "refresh" => reg'.kind = "ok" /\ proc'[p].after = committed',
         proc'[p].pc # "recheck",
         proc'[p].pc \in {"archive", "head"} => reg'.kind # "torn",
         faults' = 0 =>
           /\ proc'[p].pc \notin {"rhead", "rtail"}
           /\ reg'.kind = "torn" => proc'[p].pc = "tail"
           /\ proc'[p].pc # "refresh" => CopyIsCurrent',
         TornIsCovered'
  PROVE  Backup'
<1>1. BackupFollows'
  BY DEF Backup, BackupFollows, At, Holding
<1>2. NoFaultYet'
  BY DEF NoFaultYet, At, Holding
<1>3. QED
  BY <1>1, <1>2 DEF Backup

\* The process that aborts leaves the registry torn, or the copy stale, or neither.
LEMMA BackupAbort ==
  ASSUME Inv, Backup, NEW p \in Proc, Abort(p)
  PROVE  Backup'
<1>1. /\ faults \in Nat /\ faults' = faults + 1
      /\ UNCHANGED <<reg, lastgood, committed>>
  BY DEF Abort, files, history, Inv, TypeOK
<1>2. proc'[p].pc = "idle" /\ \A q \in Proc \ {p} : proc'[q] = proc[q]
  BY DEF Abort, Return, Idle, Inv, TypeOK
<1>3. CopyIsCurrent' <=> CopyIsCurrent
  BY <1>1 DEF CopyIsCurrent
<1>4. BackupFollows'
  BY <1>1, <1>2 DEF Backup, BackupFollows, At
<1>5. NoFaultYet'
  BY <1>1 DEF NoFaultYet
<1>6. TornIsCovered'
  <2>1. SUFFICES ASSUME faults = 0, reg.kind = "torn" PROVE CopyIsCurrent
    BY <1>1, <1>3 DEF TornIsCovered
  <2>2. PICK q \in Proc : At(q, "tail")
    BY <2>1 DEF Backup, NoFaultYet
  <2>3. \A r \in Proc : ~At(r, "refresh")
    BY <2>1 DEF Backup, BackupFollows
  <2>4. QED
    BY <2>1, <2>3 DEF Backup, NoFaultYet
<1>7. QED
  BY <1>4, <1>5, <1>6 DEF Backup

\* Every step keeps it, repairs and aborts included.
LEMMA BackupStep == Inv /\ Backup /\ [Next]_vars => Backup'
<1> SUFFICES ASSUME Inv, Backup, [Next]_vars PROVE Backup'
  OBVIOUS
<1>1. CASE UNCHANGED vars
  BY <1>1 DEF vars, files, history, Backup, BackupFollows, NoFaultYet, TornIsCovered,
     CopyIsCurrent, At
<1>2. ASSUME NEW p \in Proc,
             \/ \E o \in Op : Begin(p, o)
             \/ Snapshot(p) \/ RepairStart(p) \/ Step(p) \/ Abort(p)
      PROVE  Backup'
  <2>t. TypeOK /\ proc[p] \in ProcState /\ faults \in Nat
    BY DEF Inv, TypeOK
  <2>o. \A q \in Proc \ {p} : proc'[q] = proc[q]
    BY <1>2, <2>t, OthersStay
  <2>h. \A q \in Proc : lock = q <=> proc[q].pc \in Holding
    BY DEF Inv, LockIsHeld
  <2>f. lock \in {p, NoProc} => \A q \in Proc \ {p} : proc[q].pc \notin Holding
    BY <2>h
  <2>i. Idle.pc = "idle"
    BY DEF Idle
  <2>r. Return(p) => proc'[p].pc = "idle"
    BY <2>i, <2>t DEF Return, TypeOK
  <2>s. \A o \in Op : \A s \in ProcState : Started(p, o, s) => proc'[p].pc = "open"
    BY <2>t DEF Started, ProcState, TypeOK
  <2>k. lastgood.kind \in {"missing", "ok"}
    BY DEF Backup, BackupFollows
  <2>1. CASE \E o \in Op : Begin(p, o)
    <3>1. PICK o \in Op : Begin(p, o)
      BY <2>1
    <3>2. proc'[p].pc = "open" /\ proc[p].pc = "idle"
      BY <3>1, <2>s, IdleType DEF Begin, At
    <3>3. UNCHANGED <<reg, lastgood, lock, committed, faults>>
      BY <3>1 DEF Begin, Started, files, history
    <3>4. QED
      BY <2>o, <3>2, <3>3, BackupQuiet DEF Holding
  <2>2. CASE Snapshot(p)
    <3>1. proc'[p].pc = "judge" /\ proc[p].pc = "idle"
      BY <2>2, <2>t DEF Snapshot, At, Idle, TypeOK
    <3>2. UNCHANGED <<reg, lastgood, lock, committed, faults>>
      BY <2>2 DEF Snapshot, files, history
    <3>3. QED
      BY <2>o, <3>1, <3>2, BackupQuiet DEF Holding
  <2>3. CASE RepairStart(p) \/ LockFail(p)
    <3>1. /\ proc[p].pc \in {"idle", "lock"} /\ proc'[p].pc \in {"idle", "load", "lock"}
          /\ UNCHANGED <<reg, lastgood, lock, committed, faults>>
      BY <2>3, <2>t, <2>r DEF RepairStart, LockFail, Goto, At, files, history, TypeOK, ProcState
    <3>2. QED
      BY <2>o, <3>1, BackupQuiet DEF Holding
  <2>4. CASE Abort(p)
    BY <2>4, BackupAbort
  <2>5. CASE Open(p)
    <3>1. proc[p].pc = "open" /\ proc'[p].pc = "lock"
      BY <2>5, <2>t DEF Open, At, TypeOK, ProcState
    <3>2. /\ UNCHANGED <<lastgood, lock, committed, faults>>
          /\ reg' = reg \/ (reg.kind = "missing" /\ reg' = Empty)
      BY <2>5 DEF Open, history
    <3>3. QED
      BY <2>o, <3>1, <3>2, BackupQuiet DEF Holding
  <2>6. CASE LockRead(p)
    <3> DEFINE r == proc[p]
               new == Edit(r.op, reg.data, r.snap, r.want)
               to == NextStep(r, reg.data, new)
               s == [Idle EXCEPT !.pc = to, !.op = r.op, !.existed = r.existed,
                                 !.before = reg.data, !.after = new]
    <3>1. /\ r.pc = "lock" /\ lock = NoProc /\ reg.kind # "torn"
          /\ UNCHANGED <<reg, lastgood, committed, faults>>
      BY <2>6 DEF LockRead, At, files, history, Readable
    <3>2. CASE to = "idle"
      <4>1. proc'[p].pc = "idle" /\ UNCHANGED lock
        BY <2>6, <2>r, <3>2 DEF LockRead
      <4>2. QED
        BY <2>o, <3>1, <4>1, BackupQuiet DEF Holding
    <3>3. CASE to # "idle"
      <4>1. proc' = [proc EXCEPT ![p] = s] /\ lock' = p
        BY <2>6, <3>3 DEF LockRead
      <4>2. s.pc = to /\ to \in {"archive", "head"}
        BY <3>3 DEF NextStep, Idle
      <4>3. proc'[p].pc \in {"archive", "head"}
        <5> HIDE DEF s, to
        <5> QED BY <2>t, <4>1, <4>2 DEF TypeOK
      <4>4. faults = 0 => CopyIsCurrent
        BY <2>h, <3>1 DEF Backup, NoFaultYet, At, Holding
      <4>5. TornIsCovered'
        BY <3>1 DEF TornIsCovered
      <4>6. CopyIsCurrent' <=> CopyIsCurrent
        BY <3>1 DEF CopyIsCurrent
      <4>7. reg.kind \in {"missing", "empty"} => lastgood.kind = "missing"
        BY DEF Backup, BackupFollows
      <4>8. QED
        BY <2>o, <2>f, <2>k, <3>1, <4>3, <4>4, <4>5, <4>6, <4>7, BackupHeld
    <3>4. QED
      BY <3>2, <3>3
  <2>7. CASE ArchiveCopy(p)
    <3>1. /\ proc[p].pc = "archive" /\ UNCHANGED <<reg, lastgood, committed, faults>>
      BY <2>7 DEF ArchiveCopy, At, history
    <3>2. lock = p /\ reg.kind # "torn"
      BY <2>h, <3>1 DEF Backup, BackupFollows, Holding
    <3>3. proc'[p].pc \in {"idle", "head"}
      BY <2>7, <2>t, <2>r DEF ArchiveCopy, Goto, ProcState, TypeOK
    <3>4. faults = 0 => CopyIsCurrent
      BY <2>f, <3>1, <3>2 DEF Backup, NoFaultYet, At, Holding
    <3>5. TornIsCovered'
      BY <3>1, <3>2 DEF TornIsCovered
    <3>6. CopyIsCurrent' <=> CopyIsCurrent
      BY <3>1 DEF CopyIsCurrent
    <3>7. reg.kind \in {"missing", "empty"} => lastgood.kind = "missing"
      BY DEF Backup, BackupFollows
    <3>8. QED
      BY <2>o, <2>f, <2>k, <3>1, <3>2, <3>3, <3>4, <3>5, <3>6, <3>7, BackupHeld
  <2>8. CASE WriteHead(p)
    <3>1. /\ proc[p].pc = "head" /\ proc'[p].pc = "tail" /\ reg' = Torn
          /\ UNCHANGED <<lastgood, committed, faults, lock>>
      BY <2>8, <2>t DEF WriteHead, Goto, At, history, ProcState, TypeOK
    <3>2. lock = p
      BY <2>h, <3>1 DEF Holding
    <3>3. faults = 0 => CopyIsCurrent
      BY <2>f, <3>1, <3>2 DEF Backup, NoFaultYet, At, Holding
    <3>4. TornIsCovered' /\ reg'.kind = "torn"
      BY <3>1, <3>2 DEF TornIsCovered, Torn
    <3>5. CopyIsCurrent' <=> CopyIsCurrent
      BY <3>1 DEF CopyIsCurrent
    <3>6. QED
      BY <2>o, <2>f, <2>k, <3>1, <3>2, <3>3, <3>4, <3>5, BackupHeld
  <2>9. CASE WriteTail(p)
    <3>1. /\ proc[p].pc = "tail" /\ proc'[p].pc = "refresh" /\ proc'[p].after = proc[p].after
          /\ reg' = Parsed(proc[p].after) /\ committed' = proc[p].after
          /\ UNCHANGED <<lastgood, faults, lock>>
      BY <2>9, <2>t DEF WriteTail, Goto, At, ProcState, TypeOK
    <3>2. lock = p
      BY <2>h, <3>1 DEF Holding
    <3>3. TornIsCovered' /\ reg'.kind = "ok"
      BY <3>1 DEF TornIsCovered, Parsed
    <3>4. QED
      BY <2>o, <2>f, <2>k, <3>1, <3>2, <3>3, BackupHeld
  <2>10. CASE Refresh(p)
    <3>1. /\ proc[p].pc = "refresh" /\ proc'[p].pc = "idle"
          /\ lastgood' = Parsed(proc[p].after) /\ UNCHANGED <<reg, committed, faults>>
      BY <2>10, <2>r DEF Refresh, At, history
    <3>2. lock = p /\ reg.kind = "ok" /\ proc[p].after = committed
      BY <2>h, <3>1 DEF Backup, BackupFollows, At, Holding
    <3>3. CopyIsCurrent' /\ TornIsCovered' /\ lastgood'.kind = "ok"
      BY <3>1, <3>2 DEF CopyIsCurrent, TornIsCovered, Parsed
    <3>4. QED
      BY <2>o, <2>f, <3>1, <3>2, <3>3, BackupHeld
  <2>11. CASE Judge(p)
    <3>1. PICK d \in Opinions(proc[p].snap), x \in Xid :
            Started(p, [kind |-> "patch", xid |-> x], [proc[p] EXCEPT !.want = d])
      BY <2>11 DEF Judge
    <3>2. proc[p].pc = "judge" /\ UNCHANGED <<reg, lastgood, lock, committed, faults>>
      BY <2>11, <3>1 DEF Judge, Started, At, files, history
    <3>3. proc'[p].pc = "open"
      BY <2>t, <3>1 DEF Started, ProcState, TypeOK
    <3>4. QED
      BY <2>o, <3>2, <3>3, BackupQuiet DEF Holding
  <2>12. CASE RepairLoad(p)
    <3>1. proc[p].pc = "load" /\ UNCHANGED <<reg, lastgood, lock, committed, faults>>
      BY <2>12 DEF RepairLoad, At, files, history
    <3>2. \/ proc'[p].pc = "idle"
          \/ proc'[p].pc = "recheck" /\ lastgood.kind # "missing"
      BY <2>12, <2>t, <2>r DEF RepairLoad, ProcState, TypeOK
    <3>3. QED
      BY <2>o, <3>1, <3>2, BackupQuiet DEF Holding
  <2>13. CASE RepairRecheck(p)
    <3>1. /\ proc[p].pc = "recheck" /\ lock = NoProc
          /\ UNCHANGED <<reg, lastgood, committed, faults>>
      BY <2>13 DEF RepairRecheck, At, files, history
    <3>2. reg.kind \notin {"missing", "empty"}
      BY <3>1 DEF Backup, BackupFollows, At
    <3>3. CASE Unreadable(reg)
      <4>1. proc'[p].pc = "rhead" /\ lock' = p /\ reg.kind = "torn"
        BY <2>13, <2>t, <3>2, <3>3 DEF RepairRecheck, Goto, ProcState, TypeOK, Unreadable
      <4>2. faults # 0
        BY <2>h, <3>1, <4>1 DEF Backup, NoFaultYet, At, Holding
      <4>3. TornIsCovered'
        BY <4>1 DEF TornIsCovered
      <4>4. QED
        BY <2>o, <2>f, <2>k, <3>1, <4>1, <4>2, <4>3, BackupHeld
    <3>4. CASE ~Unreadable(reg)
      <4>1. proc'[p].pc = "idle" /\ UNCHANGED lock
        BY <2>13, <2>r, <3>4 DEF RepairRecheck
      <4>2. QED
        BY <2>o, <3>1, <4>1, BackupQuiet DEF Holding
    <3>5. QED
      BY <3>3, <3>4
  <2>14. CASE RepairHead(p) \/ RepairTail(p)
    <3>1. /\ proc[p].pc \in {"rhead", "rtail"} /\ proc'[p].pc \in {"rtail", "idle"}
          /\ reg'.kind \in {"torn", "ok"} /\ UNCHANGED <<lastgood, faults>>
          /\ reg'.kind = "torn" => lock' = lock
      BY <2>14, <2>t, <2>r DEF RepairHead, RepairTail, Goto, At, Torn, Parsed, ProcState, TypeOK
    <3>2. lock = p /\ faults # 0
      BY <2>h, <3>1 DEF Backup, NoFaultYet, Holding
    <3>3. TornIsCovered'
      BY <3>1, <3>2 DEF TornIsCovered
    <3>4. QED
      BY <2>o, <2>f, <2>k, <3>1, <3>2, <3>3, BackupHeld
  <2>15. QED
    BY <1>2, <2>1, <2>2, <2>3, <2>4, <2>5, <2>6, <2>7, <2>8, <2>9, <2>10, <2>11,
       <2>12, <2>13, <2>14 DEF Step
<1>3. QED
  BY <1>1, <1>2 DEF Next

\* As long as at most one process has been aborted, a registry that is unreadable
\* with nobody at work on it has in .lastgood what the last completed write or
\* repair left: whichever step the abort hit, whoever else was running.
THEOREM OneAbortIsRecoverable == Spec => [](faults <= 1 => Recoverable)
<1>1. Inv /\ Backup => (faults <= 1 => Recoverable)
  <2> SUFFICES ASSUME Inv, Backup, faults <= 1, Unreadable(reg), lock = NoProc
               PROVE  CopyIsCurrent
    BY DEF Recoverable, CopyIsCurrent
  <2>1. CASE reg.kind = "torn"
    BY <2>1 DEF Backup, TornIsCovered
  <2>2. CASE reg.kind = "empty"
    BY <2>2 DEF Backup, BackupFollows, Inv, FileIsCommitted, CopyIsCurrent
  <2>3. QED
    BY <2>1, <2>2 DEF Unreadable
<1>2. Init => Inv /\ Backup
  BY InvInit, BackupInit
<1>3. Inv /\ Backup /\ [Next]_vars => Inv' /\ Backup'
  BY InvStep, BackupStep
<1>4. QED
  BY <1>1, <1>2, <1>3, PTL DEF Spec
=============================================================================
