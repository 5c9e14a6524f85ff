------------------------------- MODULE MCLaunch -------------------------------
(* Launch on two launches of two sources.                                  *)
EXTENDS Launch
=============================================================================
