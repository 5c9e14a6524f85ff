------------------------------- MODULE MCReroute -------------------------------
(* Reroute on two jobs, one of which Borg never seats. *)
EXTENDS Reroute
=============================================================================
