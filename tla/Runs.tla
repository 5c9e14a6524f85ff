-------------------------------- MODULE Runs ---------------------------------
(***************************************************************************)
(* What the job queue promises about the runs it drives, with no rows,     *)
(* passes, builders or crashes: a run is written by one experiment at a    *)
(* time, which gets to write once and only for a run that some job still   *)
(* stands for; and no job is the last to leave its run while an experiment *)
(* writes for it. JobQueue implements it, as long as every build launches  *)
(* what it made.                                                           *)
(***************************************************************************)
CONSTANTS Run, Xid,
          Nobody   \* no experiment

VARIABLES open,    \* the runs some unfinished job stands for
          writer,  \* Run -> the experiment that writes for it, or Nobody
          spent    \* experiments that have had their turn, or have it

Init == /\ open = {}
        /\ writer = [r \in Run |-> Nobody]
        /\ spent = {}

\* Jobs come, wait, are held, finish, or give way to others of their run.
Turn == /\ open' \in SUBSET Run
        /\ \A r \in Run : writer[r] # Nobody => r \in open'
        /\ UNCHANGED <<writer, spent>>

Launch(r, x) == /\ r \in open
                /\ writer[r] = Nobody
                /\ x \notin spent
                /\ writer' = [writer EXCEPT ![r] = x]
                /\ spent' = spent \cup {x}
                /\ UNCHANGED open

\* It completes, dies, or is stopped by its user or the router.
End(r) == /\ writer[r] # Nobody
          /\ writer' = [writer EXCEPT ![r] = Nobody]
          /\ UNCHANGED <<open, spent>>

Next == Turn \/ \E r \in Run : End(r) \/ \E x \in Xid : Launch(r, x)

Spec == Init /\ [][Next]_<<open, writer, spent>>
=============================================================================
