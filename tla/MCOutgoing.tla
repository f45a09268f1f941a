----------------------------- MODULE MCOutgoing -----------------------------
(* A small instance of Outgoing for TLC.                                   *)
EXTENDS Outgoing
=============================================================================
