-------------------------------- MODULE Board --------------------------------
(***************************************************************************)
(* What registry_store promises its callers, with no files, locks or       *)
(* processes: a status board and an archive of experiments, each edited by *)
(* one indivisible step at a time. RegistryStore implements it.            *)
(***************************************************************************)
EXTENDS RegistryEntry

CONSTANT Xid
VARIABLES board,    \* Xid -> MaybeEntry
          archive   \* Xid -> MaybeRecord

Init == /\ board = [x \in Xid |-> NoEntry]
        /\ archive = [x \in Xid |-> NoEntry]

\* The launcher and the wrapper add their own fields, whichever comes first.
Register(x) ==
  /\ board' = [board EXCEPT ![x] = LauncherEdit(@)] \/ board' = [board EXCEPT ![x] = WrapperEdit(@)]
  /\ UNCHANGED archive

Cancel(x) == board' = [board EXCEPT ![x] = CancelEdit(@)] /\ UNCHANGED archive

\* A heuristic may restate how a run is doing, never that it was cancelled, and
\* it neither creates nor removes an entry nor touches its metadata.
Restate(e) ==
  IF e = NoEntry THEN {e}
  ELSE {f \in Entry : /\ f.meta = e.meta
                      /\ e.status = "CANCELLED" => f.status = "CANCELLED"}
Assess == /\ \A x \in Xid : board'[x] \in Restate(board[x])
          /\ board' = [x \in Xid |-> board'[x]]
          /\ UNCHANGED archive

\* An entry moves in two steps: it is copied, and it is removed only once the
\* archive holds everything it says.
Copy(x) == /\ \E extra \in BOOLEAN :
                archive' = [archive EXCEPT ![x] = Archived(@, board[x], extra)]
           /\ UNCHANGED board
Remove(x) == /\ board[x] # NoEntry
             /\ Covers(archive[x], board[x])
             /\ board' = [board EXCEPT ![x] = NoEntry]
             /\ UNCHANGED archive

\* A registration whose launcher died may be dropped without a record.
Bury(x) == /\ IsCorpse(board[x])
           /\ board' = [board EXCEPT ![x] = NoEntry]
           /\ UNCHANGED archive

Next == Assess \/ \E x \in Xid : Register(x) \/ Cancel(x) \/ Copy(x) \/ Remove(x) \/ Bury(x)

Spec == Init /\ [][Next]_<<board, archive>>
=============================================================================
