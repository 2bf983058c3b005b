------------------------------- MODULE MCFramer -------------------------------
(***************************************************************************)
(* Framer for TLC: its bounds are given in the configurations.             *)
(***************************************************************************)
EXTENDS Framer
=============================================================================
