------------------------------ MODULE MCGateway ------------------------------
(***************************************************************************)
(* Gateway for TLC.  Connections are interchangeable: every action and     *)
(* every invariant treats them alike.                                      *)
(***************************************************************************)
EXTENDS Gateway, TLC

Symmetry == Permutations(Conns)

=============================================================================
