------------------------------ MODULE Delivery ------------------------------
(***************************************************************************)
(* The way of an event from a producer's transaction to a consumer's: the   *)
(* outbox row, OutboxRelay, a Redis stream with its consumer group and      *)
(* Pending Entries List, ConsumerRuntime, the dispatcher's transaction and  *)
(* the dead letters. Consumers crash, Redis and PostgreSQL calls fail, a    *)
(* slow consumer loses its messages to another one.                         *)
(***************************************************************************)
EXTENDS Integers, FiniteSets
LOCAL INSTANCE FiniteSetsExt

CONSTANTS
    Events,       \* event ids
    Poison,       \* events whose handler always raises
    Consumers,    \* consumer names of the group
    MaxDelivery,  \* consumer_max_delivery
    BatchSize,    \* messages one XREADGROUP or XPENDING returns
    MaxLen,       \* MAXLEN of the stream
    MaxMessages,  \* bound: messages ever added to the stream
    MaxFaults     \* bound: crashes and failed calls

ASSUME EventsAssumption == Poison \subseteq Events
ASSUME BoundsAssumption ==
    /\ MaxDelivery \in Nat \ {0} /\ BatchSize \in Nat \ {0} /\ MaxLen \in Nat \ {0}
    /\ MaxMessages \in Nat /\ MaxFaults \in Nat

Messages == 1 .. MaxMessages
Outbox == {"none", "queued", "published"}
Phases == {"handle", "ack", "reject", "record", "ack_dead"}
Nothing == [msg |-> 0, count |-> 0, phase |-> "idle"]
Working == [msg : Messages, count : Nat, phase : Phases]

VARIABLES
    outbox,     \* outbox.published_at
    copy,       \* copy[m]: the event message m carries, in 1 .. last
    last,       \* newest message of the stream
    first,      \* messages up to this one are trimmed away
    cursor,     \* last message the group has delivered
    times,      \* times_delivered of a pending entry, 0 when there is none
    hand,       \* what a consumer has read and not handled: <<message, count>>
    now,        \* the delivery a consumer handles, and how far it got
    processed,  \* processed_events
    effects,    \* history: commits of the event's handler
    fails,      \* history: how often the handler has raised for a message
    dlq,        \* the dead-letter stream
    dead,       \* dead_letters
    cut,        \* history: events with a message trimmed before its XACK
    faults      \* faults so far

vars == <<outbox, copy, last, first, cursor, times, hand, now, processed, effects,
          fails, dlq, dead, cut, faults>>
stream == <<copy, last, first, cut>>
group == <<cursor, times>>
tables == <<processed, effects, fails, dlq, dead>>

Init ==
    /\ outbox = [e \in Events |-> "none"]
    /\ copy = <<>>
    /\ last = 0 /\ first = 0 /\ cursor = 0
    /\ times = [m \in Messages |-> 0]
    /\ hand = [c \in Consumers |-> {}]
    /\ now = [c \in Consumers |-> Nothing]
    /\ processed = {}
    /\ effects = [e \in Events |-> 0]
    /\ fails = [m \in Messages |-> 0]
    /\ dlq = {} /\ dead = {} /\ cut = {}
    /\ faults = 0

Fault == faults < MaxFaults /\ faults' = faults + 1

-----------------------------------------------------------------------------
(* libs/common outbox.py                                                   *)

\* The producer's transaction commits with the row enqueue_event adds.
EnqueueEvent(e) ==
    /\ outbox[e] = "none"
    /\ outbox' = [outbox EXCEPT ![e] = "queued"]
    /\ UNCHANGED <<stream, group, hand, now, tables, faults>>

\* Messages nobody has acknowledged: unread, or in the Pending Entries List.
Unfinished(m) == m > cursor \/ times[m] > 0

\* XADD ... MAXLEN ~: the trimming may lag behind but never cuts deeper. It asks
\* nobody whether the messages have been read.
Publish(e) ==
    /\ last < MaxMessages
    /\ last' = last + 1
    /\ copy' = [m \in 1 .. last + 1 |-> IF m = last + 1 THEN e ELSE copy[m]]
    /\ first' \in first .. Max({first, last + 1 - MaxLen})
    /\ cut' = cut \cup {copy'[m] : m \in {n \in first + 1 .. first' : Unfinished(n)}}

\* run_once: publish the row, then mark it.
RelayPublish(e) ==
    /\ outbox[e] = "queued"
    /\ Publish(e)
    /\ outbox' = [outbox EXCEPT ![e] = "published"]
    /\ UNCHANGED <<group, hand, now, tables, faults>>

\* run_once publishes the row but its transaction does not commit.
RelayLosesMark(e) ==
    /\ outbox[e] = "queued"
    /\ Fault
    /\ Publish(e)
    /\ UNCHANGED <<outbox, group, hand, now, tables>>

-----------------------------------------------------------------------------
(* libs/common bus.py                                                      *)

Pending == {m \in Messages : times[m] > 0}
Idle(c) == now[c] = Nothing /\ hand[c] = {}

\* The messages read_new gets.
Fresh == LET from == Max({cursor, first}) IN from + 1 .. Min({last, from + BatchSize})

\* claim_stale reports the count XPENDING saw, before XCLAIM raises it; an entry
\* whose message is trimmed away is acknowledged and dropped.
Claimed(S) == {<<m, times[m]>> : m \in {n \in S : n > first}}

\* Mutant: XCLAIM with JUSTID, which leaves the delivery count as it is.
RunOnceJustId(c, S) ==
    /\ Idle(c)
    /\ S \cup Fresh # {}
    /\ hand' = [hand EXCEPT ![c] = Claimed(S) \cup {<<m, 1>> : m \in Fresh}]
    /\ times' = [m \in Messages |->
                   IF m \in Fresh THEN 1
                   ELSE IF m \in S /\ m <= first THEN 0
                   ELSE times[m]]
    /\ cursor' = Max({cursor} \cup Fresh)
    /\ UNCHANGED <<outbox, stream, now, tables, faults>>

\* run_once up to the handling: claim_stale, read_new. S are the entries found
\* idle for claim_idle_ms: of a consumer that crashed, gave up or is slow.
RunOnce(c, S) ==
    /\ Idle(c)
    /\ S \cup Fresh # {}
    /\ hand' = [hand EXCEPT ![c] = Claimed(S) \cup {<<m, 1>> : m \in Fresh}]
    /\ times' = [m \in Messages |->
                   IF m \in Fresh THEN 1
                   ELSE IF m \in S THEN (IF m > first THEN times[m] + 1 ELSE 0)
                   ELSE times[m]]
    /\ cursor' = Max({cursor} \cup Fresh)
    /\ UNCHANGED <<outbox, stream, now, tables, faults>>

RunOnceSome(c) == \E S \in SUBSET Pending : Cardinality(S) <= BatchSize /\ RunOnce(c, S)

Handling(e) == \E c \in Consumers : now[c].phase = "handle" /\ copy[now[c].msg] = e

\* Mutant: the dispatcher looks the event up instead of inserting its row first.
NextPhaseUnlocked(m, n) ==
    CASE n > MaxDelivery -> "reject"
      [] n <= MaxDelivery /\ copy[m] \in processed -> "ack"
      [] n <= MaxDelivery /\ copy[m] \notin processed -> "handle"

\* What _handle does with a delivery. The INSERT into processed_events waits
\* for a transaction that has inserted the same id.
NextPhase(m, n) ==
    CASE n > MaxDelivery -> "reject"
      [] n <= MaxDelivery /\ copy[m] \in processed -> "ack"
      [] n <= MaxDelivery /\ copy[m] \notin processed ->
            IF Handling(copy[m]) THEN "wait" ELSE "handle"

\* _handle begins with the next delivery of the batch.
Begin(c, m, n) ==
    /\ now[c] = Nothing /\ <<m, n>> \in hand[c]
    /\ NextPhase(m, n) # "wait"
    /\ hand' = [hand EXCEPT ![c] = @ \ {<<m, n>>}]
    /\ now' = [now EXCEPT ![c] = [msg |-> m, count |-> n, phase |-> NextPhase(m, n)]]
    /\ UNCHANGED <<outbox, stream, group, tables, faults>>

GoTo(c, p) == [now EXCEPT ![c].phase = p]
Done(c) == [now EXCEPT ![c] = Nothing]

\* dispatch commits: the processed_events row and the effects together.
DispatchCommits(c) ==
    LET e == copy[now[c].msg] IN
    /\ now[c].phase = "handle" /\ e \notin Poison
    /\ processed' = processed \cup {e}
    /\ effects' = [effects EXCEPT ![e] = @ + 1]
    /\ now' = GoTo(c, "ack")
    /\ UNCHANGED <<outbox, stream, group, hand, fails, dlq, dead, faults>>

\* The except branch of _handle.
RejectOrLeave(c) == IF now[c].count >= MaxDelivery THEN GoTo(c, "reject") ELSE Done(c)

\* dispatch raises and its transaction rolls back.
DispatchRaises(c) ==
    /\ now[c].phase = "handle"
    /\ IF copy[now[c].msg] \in Poison THEN UNCHANGED faults ELSE Fault
    /\ fails' = [fails EXCEPT ![now[c].msg] = @ + 1]
    /\ now' = RejectOrLeave(c)
    /\ UNCHANGED <<outbox, stream, group, hand, processed, effects, dlq, dead>>

\* XACK, after a dispatch and after a dead letter.
Ack(c) ==
    /\ now[c].phase \in {"ack", "ack_dead"}
    /\ times' = [times EXCEPT ![now[c].msg] = 0]
    /\ now' = Done(c)
    /\ UNCHANGED <<outbox, stream, cursor, hand, tables, faults>>

\* XACK after a dispatch raises, inside the same try: a failed delivery.
AckRaises(c) ==
    /\ now[c].phase = "ack"
    /\ Fault
    /\ now' = RejectOrLeave(c)
    /\ UNCHANGED <<outbox, stream, group, hand, tables>>

\* Mutant: _reject goes straight to the table.
DeadLetterTableOnly(c) ==
    /\ now[c].phase = "reject"
    /\ now' = GoTo(c, "record")
    /\ UNCHANGED <<outbox, stream, group, hand, tables, faults>>

\* Mutant: _reject acknowledges first.
DeadLetterAcksFirst(c) ==
    /\ now[c].phase = "reject"
    /\ dlq' = dlq \cup {copy[now[c].msg]}
    /\ times' = [times EXCEPT ![now[c].msg] = 0]
    /\ now' = GoTo(c, "record")
    /\ UNCHANGED <<outbox, stream, cursor, hand, processed, effects, fails, dead, faults>>

\* _reject: the dead-letter stream, then the table, then XACK.
DeadLetter(c) ==
    /\ now[c].phase = "reject"
    /\ dlq' = dlq \cup {copy[now[c].msg]}
    /\ now' = GoTo(c, "record")
    /\ UNCHANGED <<outbox, stream, group, hand, processed, effects, fails, dead, faults>>

\* Mutant: no on_dead_letter callback is given.
RecordDeadLetterSkipped(c) ==
    /\ now[c].phase = "record"
    /\ now' = GoTo(c, "ack_dead")
    /\ UNCHANGED <<outbox, stream, group, hand, tables, faults>>

RecordDeadLetter(c) ==
    /\ now[c].phase = "record"
    /\ dead' = dead \cup {copy[now[c].msg]}
    /\ now' = GoTo(c, "ack_dead")
    /\ UNCHANGED <<outbox, stream, group, hand, processed, effects, fails, dlq, faults>>

\* The process dies, or _reject raises out of run_once: what the consumer holds
\* in memory is gone, an open transaction rolls back.
Crash(c) ==
    /\ ~Idle(c)
    /\ Fault
    /\ hand' = [hand EXCEPT ![c] = {}]
    /\ now' = Done(c)
    /\ UNCHANGED <<outbox, stream, group, tables>>

Next ==
    \/ \E e \in Events : EnqueueEvent(e) \/ RelayPublish(e) \/ RelayLosesMark(e)
    \/ \E c \in Consumers :
          \/ RunOnceSome(c)
          \/ \E d \in hand[c] : Begin(c, d[1], d[2])
          \/ DispatchCommits(c) \/ DispatchRaises(c)
          \/ Ack(c) \/ AckRaises(c)
          \/ DeadLetter(c) \/ RecordDeadLetter(c)
          \/ Crash(c)

\* The relay's loop polls; a running consumer goes on; what nobody acknowledges
\* becomes idle, and some consumer's run_once finds it.
Fairness ==
    /\ \A e \in Events : WF_vars(RelayPublish(e))
    /\ \A c \in Consumers :
          /\ WF_vars(RunOnceSome(c))
          /\ WF_vars(\E d \in hand[c] : Begin(c, d[1], d[2]))
          /\ WF_vars(DispatchCommits(c) \/ DispatchRaises(c))
          /\ WF_vars(Ack(c)) /\ WF_vars(DeadLetter(c)) /\ WF_vars(RecordDeadLetter(c))
    /\ \A m \in Messages :
          SF_vars(\E c \in Consumers, S \in SUBSET Pending :
                     m \in S /\ Cardinality(S) <= BatchSize /\ RunOnce(c, S))

Spec == Init /\ [][Next]_vars /\ Fairness

-----------------------------------------------------------------------------
(* Properties.                                                             *)

\* The stream, the group and the consumers' memory fit together.
TypeOK ==
    /\ outbox \in [Events -> Outbox]
    /\ last \in 0 .. MaxMessages /\ first \in 0 .. last /\ cursor \in 0 .. last
    /\ copy \in [1 .. last -> Events]
    /\ times \in [Messages -> Nat] /\ \A m \in Messages : times[m] > 0 => m <= cursor
    /\ hand \in [Consumers -> SUBSET ((1 .. last) \X Nat)]
    /\ now \in [Consumers -> Working \cup {Nothing}]
    /\ \A c \in Consumers : now[c].msg <= last
    /\ processed \subseteq Events
    /\ effects \in [Events -> Nat]
    /\ fails \in [Messages -> Nat]
    /\ dead \subseteq dlq /\ dlq \subseteq Events /\ cut \subseteq Events
    /\ faults \in 0 .. MaxFaults

\* "On redelivery it is processed exactly once in effect": however many copies
\* of an event several consumers handle at once, its handler commits once.
EffectOnce == \A e \in Events : effects[e] = IF e \in processed THEN 1 ELSE 0

\* An event somebody can still deliver: it waits in the outbox, unread in the
\* stream, or in the Pending Entries List.
OnItsWay(e) ==
    \/ outbox[e] = "queued"
    \/ \E m \in 1 .. last : /\ copy[m] = e /\ m > first
                            /\ Unfinished(m)

\* "Nothing is silently dropped": a committed event is on its way until it has
\* taken effect or is in the dead_letters table. The exception is the stream's
\* bound: an event whose message was trimmed before its XACK is gone, and no
\* crash, reclaim or failed call ever loses another.
NothingDropped ==
    \A e \in Events : outbox[e] # "none" => OnItsWay(e) \/ e \in processed \cup dead \cup cut

\* "A message that fails CONSUMER_MAX_DELIVERY times is moved to a dead-letter
\* stream": it does not fail once more. It does: claim_stale reports the count
\* XPENDING saw before XCLAIM raised it.
FailsWithinLimit == \A m \in Messages : fails[m] <= MaxDelivery

\* "Nothing spins forever": whichever consumers reclaim a poisoned message from
\* each other and crash, the late count costs one try more than
\* CONSUMER_MAX_DELIVERY and never a second one.
TriesAreBounded == \A m \in Messages : fails[m] <= MaxDelivery + 1

\* The bus keeps the promise of EventEffects, its liveness included: "nothing
\* spins forever". Trimmed events count as reported, though nobody is told.
Promise == INSTANCE EventEffects WITH
    committed <- {e \in Events : outbox[e] # "none"},
    effects <- effects,
    reported <- dead \cup cut
KeepsPromise == Promise!Spec
=============================================================================
