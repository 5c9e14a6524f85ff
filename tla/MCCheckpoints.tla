---------------------------- MODULE MCCheckpoints ----------------------------
(* Checkpoints on small instances.                                         *)
EXTENDS Checkpoints
=============================================================================
