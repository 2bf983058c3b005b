------------------------------ MODULE MCSession ------------------------------
(***************************************************************************)
(* Session for TLC: its bounds are given in the configuration.             *)
(***************************************************************************)
EXTENDS Session
=============================================================================
