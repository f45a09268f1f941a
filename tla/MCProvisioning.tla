--------------------------- MODULE MCProvisioning ---------------------------
(* A small instance of Provisioning for TLC.                               *)
EXTENDS Provisioning

\* Users 1 and 2 share a mailbox, so one of them signs up.
MCMailbox == [u \in Users |-> "mailbox"]

\* Everybody asks for user 1, one client for another network than the others.
MCAsksFor == [c \in Clients |-> [user |-> 1, network |-> IF c = "c3" THEN "ETH" ELSE "BSC"]]
=============================================================================
