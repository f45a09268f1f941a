--------------------------- MODULE MCBalanceLocks ---------------------------
(* Transfers between three users: ab and ba are opposite, ab, bc and ca go *)
(* round.                                                                  *)
EXTENDS BalanceLocks

CONSTANTS ab, ba, bc, ca

MCFrom == [t \in Transfers |-> CASE t = ab -> 1 [] t \in {ba, bc} -> 2 [] t = ca -> 3]
MCTo == [t \in Transfers |-> CASE t \in {ba, ca} -> 1 [] t = ab -> 2 [] t = bc -> 3]
=============================================================================
