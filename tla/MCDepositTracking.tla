------------------------- MODULE MCDepositTracking --------------------------
(* Small instances of DepositTracking for TLC.                             *)
EXTENDS DepositTracking
=============================================================================
