---------------------------- MODULE MCSettlement ----------------------------
(* A small instance of Settlement for TLC.                                 *)
EXTENDS Settlement
=============================================================================
