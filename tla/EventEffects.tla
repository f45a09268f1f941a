---------------------------- MODULE EventEffects ----------------------------
(***************************************************************************)
(* What the event bus promises a consumer: the effect of an event happens   *)
(* at most once, only after its producer has committed it, and an event is  *)
(* never forgotten: it takes effect or is given up by name.                 *)
(***************************************************************************)
EXTENDS Naturals

CONSTANT Events

VARIABLES
    committed,  \* events whose producer's transaction has committed
    effects,    \* how often the effect of an event has happened
    reported    \* events given up: among the dead letters, or trimmed

vars == <<committed, effects, reported>>

Init ==
    /\ committed = {}
    /\ effects = [e \in Events |-> 0]
    /\ reported = {}

Commit(e) ==
    /\ e \notin committed
    /\ committed' = committed \cup {e}
    /\ UNCHANGED <<effects, reported>>

Apply(e) ==
    /\ e \in committed /\ effects[e] = 0
    /\ effects' = [effects EXCEPT ![e] = 1]
    /\ UNCHANGED <<committed, reported>>

Report(S) ==
    /\ S # {} /\ S \subseteq committed \ reported
    /\ reported' = reported \cup S
    /\ UNCHANGED <<committed, effects>>

Next ==
    \/ \E e \in Events : Commit(e) \/ Apply(e)
    \/ \E S \in SUBSET Events : Report(S)

\* While neither has happened, one of them must.
Settle(e) ==
    /\ effects[e] = 0 /\ e \notin reported
    /\ Apply(e) \/ \E S \in SUBSET Events : e \in S /\ Report(S)

Spec == Init /\ [][Next]_vars /\ \A e \in Events : WF_vars(Settle(e))
=============================================================================
