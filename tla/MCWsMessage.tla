----------------------------- MODULE MCWsMessage -----------------------------
(***************************************************************************)
(* WsMessage for TLC: its bounds are given in the configurations.          *)
(***************************************************************************)
EXTENDS WsMessage
=============================================================================
