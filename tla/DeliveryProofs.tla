--------------------------- MODULE DeliveryProofs ---------------------------
(***************************************************************************)
(* Invariants of Delivery, and the steps of its refinement of EventEffects, *)
(* proved for every set of events and consumers, every delivery limit,      *)
(* batch size and stream length, and any number of messages and faults.     *)
(***************************************************************************)
EXTENDS Delivery, FiniteSetTheorems, TLAPS
LOCAL INSTANCE FiniteSetsExt

-----------------------------------------------------------------------------
(* Strengthenings. None is a goal of its own.                              *)

\* What a consumer's position in _handle says about the tables.
PhasesOK ==
    \A c \in Consumers :
        LET e == copy[now[c].msg]
            p == now[c].phase
        IN /\ p = "handle" => now[c].count <= MaxDelivery /\ e \notin processed
           /\ p = "ack" => e \in processed
           /\ p = "record" => e \in dlq
           /\ p = "ack_dead" => e \in dead

\* The INSERT into processed_events lets one consumer in at a time.
HandledAlone ==
    \A c, d \in Consumers :
        /\ now[c].phase = "handle" /\ now[d].phase = "handle"
        /\ copy[now[c].msg] = copy[now[d].msg]
        => c = d

\* A message carries an event its producer has committed, and only such events
\* are ever among the dead or the trimmed.
OnlyCommitted ==
    /\ \A m \in 1 .. last : outbox[copy[m]] # "none"
    /\ \A e \in dlq \cup cut : outbox[e] # "none"

\* A batch has one delivery of a message, and it is not the one being handled.
BatchesOK ==
    \A c \in Consumers :
        /\ \A d1, d2 \in hand[c] : d1[1] = d2[1] => d1 = d2
        /\ \A d \in hand[c] : d[1] # now[c].msg
        /\ now[c] = Nothing \/ now[c].msg \in 1 .. last

\* Consumers that may still raise for message m.
Trying(m) ==
    {c \in Consumers :
        \/ \E n \in 0 .. MaxDelivery : <<m, n>> \in hand[c]
        \/ now[c].phase = "handle" /\ now[c].msg = m}

\* Deliveries of m the group may still make with a count up to MaxDelivery: one
\* more than MaxDelivery before the first, none after its XACK.
Left(m) ==
    IF m > cursor THEN MaxDelivery + 1
    ELSE IF times[m] = 0 \/ times[m] > MaxDelivery THEN 0
    ELSE MaxDelivery + 1 - times[m]

\* Every attempt that raised was one of MaxDelivery + 1 deliveries.
TriesCounted ==
    \A m \in Messages :
        /\ IsFiniteSet(Trying(m))
        /\ fails[m] + Cardinality(Trying(m)) + Left(m) <= MaxDelivery + 1

IInv ==
    /\ TypeOK /\ PhasesOK /\ HandledAlone /\ OnlyCommitted /\ BatchesOK
    /\ EffectOnce /\ NothingDropped /\ TriesCounted

-----------------------------------------------------------------------------
(* Facts about the state.                                                  *)

\* The delivery a busy consumer handles.
LEMMA BusyConsumer ==
    ASSUME TypeOK, NEW c \in Consumers
    PROVE  /\ now[c] = Nothing <=> now[c].phase = "idle"
           /\ now[c] # Nothing =>
                 /\ now[c] \in Working /\ now[c].phase \in Phases /\ now[c].count \in Nat
                 /\ now[c].msg \in 1 .. last /\ now[c].msg \in Messages
                 /\ copy[now[c].msg] \in Events
<1>1. /\ now[c] \in Working \cup {Nothing} /\ now[c].msg <= last
      /\ last \in 0 .. MaxMessages /\ copy \in [1 .. last -> Events]
      /\ MaxMessages \in Nat
  BY BoundsAssumption DEF TypeOK
<1>2. CASE now[c] = Nothing
  BY <1>2 DEF Nothing
<1>3. CASE now[c] \in Working
  <2>1. now[c].phase \in Phases /\ now[c].count \in Nat /\ now[c].msg \in Messages
    BY <1>3 DEF Working
  <2>2. now[c].phase # "idle"
    BY <2>1 DEF Phases
  <2>3. now[c].msg \in 1 .. last
    BY <1>1, <2>1 DEF Messages
  <2> QED  BY <1>1, <1>3, <2>1, <2>2, <2>3 DEF Nothing
<1> QED  BY <1>1, <1>2, <1>3

\* A consumer that handles a delivery goes on to phase p or is done with it.
LEMMA NowAfter ==
    ASSUME TypeOK, NEW c \in Consumers, now[c] # Nothing, NEW p \in Phases,
           now' \in {GoTo(c, p), Done(c)}
    PROVE  /\ now' \in [Consumers -> Working \cup {Nothing}]
           /\ \A d \in Consumers : d # c => now'[d] = now[d]
           /\ \/ now'[c] = Nothing
              \/ now'[c] = [msg |-> now[c].msg, count |-> now[c].count, phase |-> p]
<1>1. now[c] \in Working /\ now \in [Consumers -> Working \cup {Nothing}]
  BY BusyConsumer DEF TypeOK
<1>2. CASE now' = Done(c)
  BY <1>1, <1>2 DEF Done
<1>3. CASE now' = GoTo(c, p)
  <2>1. now' = [now EXCEPT ![c] = [now[c] EXCEPT !.phase = p]]
    BY <1>3 DEF GoTo
  <2>2. [now[c] EXCEPT !.phase = p]
          = [msg |-> now[c].msg, count |-> now[c].count, phase |-> p]
    BY <1>1 DEF Working
  <2>3. [msg |-> now[c].msg, count |-> now[c].count, phase |-> p] \in Working
    BY <1>1 DEF Working
  <2> QED  BY <1>1, <2>1, <2>2, <2>3
<1> QED  BY <1>2, <1>3

\* Such a consumer leaves "handle", if it was there, and takes up nothing new.
LEMMA MoveOn ==
    ASSUME IInv, NEW c \in Consumers, now[c] # Nothing, NEW p \in Phases \ {"handle"},
           now' \in {GoTo(c, p), Done(c)}, UNCHANGED <<copy, last, hand>>
    PROVE  /\ now' \in [Consumers -> Working \cup {Nothing}]
           /\ \A d \in Consumers : now'[d].msg <= last'
           /\ HandledAlone' /\ BatchesOK'
           /\ \A m \in Messages : Trying(m)' \subseteq Trying(m) \ (IF now[c].msg = m THEN {c} ELSE {})
<1>1. TypeOK /\ HandledAlone /\ BatchesOK
  BY DEF IInv
<1>2. /\ now' \in [Consumers -> Working \cup {Nothing}]
      /\ \A d \in Consumers : d # c => now'[d] = now[d]
      /\ \/ now'[c] = Nothing
         \/ now'[c] = [msg |-> now[c].msg, count |-> now[c].count, phase |-> p]
  BY <1>1, NowAfter
<1>3. now'[c].phase # "handle" /\ (now'[c].msg = now[c].msg \/ now'[c].msg = 0)
  BY <1>2 DEF Nothing
<1>4. now[c].msg \in 1 .. last /\ last \in Nat
  BY <1>1, BusyConsumer, BoundsAssumption DEF TypeOK
<1>5. \A d \in Consumers : now'[d].msg <= last'
  <2>1. \A d \in Consumers : now[d].msg <= last
    BY <1>1 DEF TypeOK
  <2>2. now'[c].msg <= last
    BY <1>3, <1>4
  <2> QED  BY <1>2, <2>1, <2>2
<1>6. HandledAlone'
  BY <1>1, <1>2, <1>3 DEF HandledAlone
<1>7. BatchesOK'
  <2>1. \A d \in hand[c] : d[1] # 0
    BY <1>1 DEF TypeOK
  <2> QED  BY <1>1, <1>2, <1>3, <1>4, <2>1 DEF BatchesOK, Nothing
<1>8. \A m \in Messages : Trying(m)' \subseteq Trying(m) \ (IF now[c].msg = m THEN {c} ELSE {})
  <2> SUFFICES ASSUME NEW m \in Messages, NEW d \in Trying(m)'
               PROVE  d \in Trying(m) /\ (now[c].msg = m => d # c)
    OBVIOUS
  <2>1. d \in Consumers /\ (\/ \E n \in 0 .. MaxDelivery : <<m, n>> \in hand[d]
                            \/ now'[d].phase = "handle" /\ now'[d].msg = m)
    BY DEF Trying
  <2>2. CASE \E n \in 0 .. MaxDelivery : <<m, n>> \in hand[d]
    <3>1. d \in Trying(m)
      BY <2>1, <2>2 DEF Trying
    <3>2. \A x \in hand[d] : x[1] # now[d].msg
      BY <1>1, <2>1 DEF BatchesOK
    <3> QED  BY <2>2, <3>1, <3>2
  <2>3. CASE now'[d].phase = "handle" /\ now'[d].msg = m
    BY <1>2, <1>3, <2>1, <2>3 DEF Trying
  <2> QED  BY <2>1, <2>2, <2>3
<1> QED  BY <1>2, <1>5, <1>6, <1>7, <1>8

\* Left is a number of deliveries.
LEMMA LeftIsNat ==
    ASSUME TypeOK, NEW m \in Messages
    PROVE  Left(m) \in Nat
BY BoundsAssumption DEF TypeOK, Left, Messages

\* When fewer consumers try and no more deliveries are left, the count holds.
LEMMA FewerTries ==
    ASSUME TypeOK, TypeOK', TriesCounted, NEW m \in Messages,
           Trying(m)' \subseteq Trying(m), fails'[m] = fails[m], Left(m)' <= Left(m)
    PROVE  /\ IsFiniteSet(Trying(m)')
           /\ fails'[m] + Cardinality(Trying(m)') + Left(m)' <= MaxDelivery + 1
<1>1. /\ IsFiniteSet(Trying(m))
      /\ fails[m] + Cardinality(Trying(m)) + Left(m) <= MaxDelivery + 1
  BY DEF TriesCounted
<1>2. IsFiniteSet(Trying(m)') /\ Cardinality(Trying(m)') <= Cardinality(Trying(m))
  BY <1>1, FS_Subset
<1>3. Cardinality(Trying(m)) \in Nat /\ Cardinality(Trying(m)') \in Nat
  BY <1>1, <1>2, FS_CardinalityType
<1>4. Left(m) \in Nat /\ Left(m)' \in Nat /\ fails[m] \in Nat
  <2>1. /\ times'[m] \in Nat /\ cursor' \in Nat /\ m \in Nat
        /\ fails[m] \in Nat /\ MaxDelivery \in Nat
    BY BoundsAssumption DEF TypeOK, Messages
  <2>2. Left(m)' \in Nat
    BY <2>1 DEF Left
  <2> QED  BY <2>1, <2>2, LeftIsNat
<1>5. MaxDelivery \in Nat
  BY BoundsAssumption
<1> HIDE DEF TypeOK
<1> QED  BY <1>1, <1>2, <1>3, <1>4, <1>5

\* The same when the group does not move.
LEMMA SameTries ==
    ASSUME TypeOK, TypeOK', TriesCounted, UNCHANGED <<cursor, times, fails>>,
           \A m \in Messages : Trying(m)' \subseteq Trying(m)
    PROVE  TriesCounted'
<1> SUFFICES ASSUME NEW m \in Messages
             PROVE  /\ IsFiniteSet(Trying(m)')
                    /\ fails'[m] + Cardinality(Trying(m)') + Left(m)' <= MaxDelivery + 1
  BY DEF TriesCounted
<1>1. Left(m)' = Left(m) /\ Left(m) \in Nat
  BY LeftIsNat DEF Left
<1>2. Left(m)' <= Left(m)
  BY <1>1
<1> QED  BY <1>2, FewerTries

\* The larger and the smaller of two numbers.
LEMMA MaxOfTwo ==
    ASSUME NEW a \in Int, NEW b \in Int
    PROVE  Max({a, b}) = (IF a >= b THEN a ELSE b) /\ Min({a, b}) = (IF a <= b THEN a ELSE b)
BY DEF Max, Min

\* read_new gets unread messages that are still in the stream, and none older
\* than it leaves.
LEMMA FreshFacts ==
    ASSUME TypeOK
    PROVE  /\ \A m \in Fresh : m \in 1 .. last /\ m > cursor /\ m > first
           /\ \A m \in 1 .. last : m > cursor /\ m > first /\ m \notin Fresh =>
                 \A n \in Fresh : n < m
<1>1. cursor \in Nat /\ first \in Nat /\ last \in Nat /\ BatchSize \in Nat
  BY BoundsAssumption DEF TypeOK
<1> DEFINE from == IF cursor >= first THEN cursor ELSE first
           upto == IF last <= from + BatchSize THEN last ELSE from + BatchSize
<1>2. Max({cursor, first}) = from
  BY <1>1, MaxOfTwo
<1>3. Min({last, from + BatchSize}) = upto
  <2>1. from \in Int
    BY <1>1
  <2> HIDE DEF from
  <2> QED  BY <1>1, <2>1, MaxOfTwo
<1>4. Fresh = from + 1 .. upto
  BY <1>2, <1>3 DEF Fresh
<1> QED  BY <1>1, <1>4

\* Where the group stands afterwards.
LEMMA CursorAfter ==
    ASSUME TypeOK, NEW x, x = Max({cursor} \cup Fresh)
    PROVE  /\ x \in {cursor} \cup Fresh /\ x >= cursor
           /\ \A m \in Fresh : m <= x
<1>1. cursor \in Nat /\ first \in Nat /\ last \in Nat /\ BatchSize \in Nat
  BY BoundsAssumption DEF TypeOK
<1> DEFINE from == IF cursor >= first THEN cursor ELSE first
           upto == IF last <= from + BatchSize THEN last ELSE from + BatchSize
           S == {cursor} \cup Fresh
<1>2. Max({cursor, first}) = from
  BY <1>1, MaxOfTwo
<1>3. Min({last, from + BatchSize}) = upto
  <2>1. from \in Int
    BY <1>1
  <2> HIDE DEF from
  <2> QED  BY <1>1, <2>1, MaxOfTwo
<1>4. Fresh = from + 1 .. upto
  BY <1>2, <1>3 DEF Fresh
<1>5. \E y \in S : \A z \in S : y >= z
  <2>1. CASE from + 1 <= upto
    <3>1. upto \in S /\ \A z \in S : upto >= z
      BY <1>1, <1>4, <2>1
    <3> QED  BY <3>1
  <2>2. CASE ~(from + 1 <= upto)
    <3>1. S = {cursor}
      BY <1>1, <1>4, <2>2
    <3> QED  BY <1>1, <3>1
  <2> QED  BY <2>1, <2>2
<1>6. x \in S /\ \A z \in S : x >= z
  BY <1>5 DEF Max
<1>7. \A z \in S : z \in Nat
  BY <1>1, <1>4
<1> HIDE DEF from, upto
<1> QED  BY <1>6, <1>7

-----------------------------------------------------------------------------
(* One lemma per action.                                                   *)

\* The first state.
LEMMA InitIInv == Init => IInv
<1> SUFFICES ASSUME Init PROVE IInv
  OBVIOUS
<1> USE DEF Init
<1>1. TypeOK
  BY BoundsAssumption DEF TypeOK, Outbox, Working, Nothing, Messages
<1>2. PhasesOK /\ HandledAlone
  BY DEF PhasesOK, HandledAlone, Nothing
<1>3. OnlyCommitted /\ EffectOnce /\ NothingDropped
  BY DEF OnlyCommitted, EffectOnce, NothingDropped
<1>4. BatchesOK
  BY DEF BatchesOK, Nothing
<1>5. TriesCounted
  <2> SUFFICES ASSUME NEW m \in Messages
               PROVE  /\ IsFiniteSet(Trying(m))
                      /\ fails[m] + Cardinality(Trying(m)) + Left(m) <= MaxDelivery + 1
    BY DEF TriesCounted
  <2>1. Trying(m) = {}
    BY DEF Trying, Nothing
  <2>2. Left(m) = MaxDelivery + 1
    BY DEF Left, Messages
  <2> QED  BY <2>1, <2>2, FS_EmptySet, BoundsAssumption
<1> QED  BY <1>1, <1>2, <1>3, <1>4, <1>5 DEF IInv

LEMMA EnqueueEventKeeps ==
    ASSUME IInv, NEW e \in Events, EnqueueEvent(e)
    PROVE  IInv'
<1>1. /\ outbox' = [outbox EXCEPT ![e] = "queued"]
      /\ UNCHANGED <<copy, last, first, cut, cursor, times, hand, now,
                     processed, effects, fails, dlq, dead, faults>>
      /\ TypeOK /\ OnlyCommitted /\ NothingDropped
  BY DEF EnqueueEvent, IInv, stream, group, tables
<1>2. /\ outbox' \in [Events -> Outbox]
      /\ \A d \in Events : outbox'[d] = IF d = e THEN "queued" ELSE outbox[d]
  BY <1>1 DEF TypeOK, Outbox
<1>3. TypeOK'
  BY <1>1, <1>2 DEF TypeOK
<1>4. PhasesOK' /\ HandledAlone' /\ BatchesOK' /\ EffectOnce'
  BY <1>1 DEF IInv, PhasesOK, HandledAlone, BatchesOK, EffectOnce
<1>5. OnlyCommitted'
  BY <1>1, <1>2 DEF OnlyCommitted, TypeOK
<1>6. NothingDropped'
  <2> SUFFICES ASSUME NEW d \in Events, outbox'[d] # "none"
               PROVE  OnItsWay(d)' \/ d \in (processed \cup dead \cup cut)'
    BY DEF NothingDropped
  <2>1. CASE d = e
    BY <1>2, <2>1 DEF OnItsWay
  <2>2. CASE d # e
    <3>1. OnItsWay(d) \/ d \in processed \cup dead \cup cut
      BY <1>1, <1>2, <2>2 DEF NothingDropped
    <3>2. OnItsWay(d) => OnItsWay(d)'
      BY <1>1, <1>2, <2>2 DEF OnItsWay, Unfinished
    <3> QED  BY <1>1, <3>1, <3>2
  <2> QED  BY <2>1, <2>2
<1>7. TriesCounted'
  <2>1. \A m \in Messages : Trying(m)' = Trying(m)
    BY <1>1 DEF Trying
  <2> QED  BY <1>1, <1>3, <2>1, SameTries DEF IInv
<1> QED  BY <1>3, <1>4, <1>5, <1>6, <1>7 DEF IInv

\* XADD, whether or not the relay's transaction commits afterwards.
LEMMA PublishKeeps ==
    ASSUME IInv, NEW e \in Events, outbox[e] = "queued", Publish(e),
           outbox' \in {outbox, [outbox EXCEPT ![e] = "published"]},
           UNCHANGED <<group, hand, now, tables>>, faults' \in 0 .. MaxFaults
    PROVE  IInv'
<1>1. /\ last' = last + 1 /\ last < MaxMessages
      /\ copy' = [m \in 1 .. last + 1 |-> IF m = last + 1 THEN e ELSE copy[m]]
      /\ first' \in first .. Max({first, last + 1 - MaxLen})
      /\ cut' = cut \cup {copy'[m] : m \in {n \in first + 1 .. first' : Unfinished(n)}}
      /\ UNCHANGED <<cursor, times, hand, now, processed, effects, fails, dlq, dead>>
      /\ TypeOK /\ OnlyCommitted /\ NothingDropped
  BY DEF Publish, IInv, group, tables
<1>2. last \in Nat /\ first \in Nat /\ cursor \in Nat /\ first <= last /\ cursor <= last
      /\ MaxLen \in Nat \ {0} /\ MaxMessages \in Nat
  BY <1>1, BoundsAssumption DEF TypeOK
<1>3. first' \in first .. last
  BY <1>1, <1>2, MaxOfTwo
<1>4. /\ copy' \in [1 .. last' -> Events] /\ copy'[last + 1] = e
      /\ \A m \in 1 .. last : copy'[m] = copy[m]
  BY <1>1, <1>2 DEF TypeOK
<1>5. /\ outbox' \in [Events -> Outbox]
      /\ \A d \in Events : /\ outbox'[d] = "none" <=> outbox[d] = "none"
                           /\ d # e => outbox'[d] = outbox[d]
  BY <1>1 DEF TypeOK, Outbox
<1>6. \A d \in cut' : d \in cut \/ \E m \in 1 .. last : d = copy[m]
  <2>1. first + 1 .. first' \subseteq 1 .. last
    BY <1>2, <1>3
  <2> QED  BY <1>1, <1>4, <2>1
<1>7. TypeOK'
  <2>1. cut' \subseteq Events
    <3>1. cut \subseteq Events /\ \A m \in 1 .. last : copy[m] \in Events
      BY <1>1 DEF TypeOK
    <3> QED  BY <1>6, <3>1
  <2>2. last' \in 0 .. MaxMessages /\ first' \in 0 .. last' /\ cursor' \in 0 .. last'
    BY <1>1, <1>2, <1>3
  <2>3. hand' \in [Consumers -> SUBSET ((1 .. last') \X Nat)]
    <3>1. 1 .. last \subseteq 1 .. last'
      BY <1>1, <1>2
    <3> QED  BY <1>1, <3>1 DEF TypeOK
  <2>4. \A c \in Consumers : now'[c].msg <= last'
    <3>1. \A c \in Consumers : now[c].msg <= last /\ now[c].msg \in Int
      BY <1>1, BusyConsumer DEF TypeOK, Nothing
    <3> QED  BY <1>1, <1>2, <3>1
  <2> QED  BY <1>1, <1>4, <1>5, <2>1, <2>2, <2>3, <2>4 DEF TypeOK
<1>8. \A c \in Consumers : now[c].phase # "idle" => /\ now[c].msg \in 1 .. last
                                                    /\ copy'[now[c].msg] = copy[now[c].msg]
  BY <1>1, <1>4, BusyConsumer
<1>9. PhasesOK' /\ HandledAlone'
  BY <1>1, <1>8 DEF IInv, PhasesOK, HandledAlone
<1>10. BatchesOK'
  BY <1>1, <1>2 DEF IInv, BatchesOK
<1>11. OnlyCommitted'
  <2>1. \A m \in 1 .. last' : outbox'[copy'[m]] # "none"
    BY <1>1, <1>2, <1>4, <1>5 DEF OnlyCommitted, TypeOK
  <2>2. \A d \in dlq' \cup cut' : outbox'[d] # "none"
    <3>1. /\ dlq \cup cut' \subseteq Events
          /\ \A m \in 1 .. last : outbox[copy[m]] # "none"
          /\ \A d \in dlq \cup cut : outbox[d] # "none"
      BY <1>1, <1>7 DEF OnlyCommitted, TypeOK
    <3>2. \A d \in dlq \cup cut' : outbox[d] # "none"
      BY <1>6, <3>1
    <3> QED  BY <1>1, <1>5, <3>1, <3>2
  <2> QED  BY <2>1, <2>2 DEF OnlyCommitted
<1>12. EffectOnce'
  BY <1>1 DEF IInv, EffectOnce
<1>13. NothingDropped'
  <2> SUFFICES ASSUME NEW d \in Events, outbox'[d] # "none"
               PROVE  OnItsWay(d)' \/ d \in (processed \cup dead \cup cut)'
    BY DEF NothingDropped
  <2>1. CASE d = e
    <3>1. last + 1 \in 1 .. last' /\ last + 1 > first' /\ last + 1 > cursor'
      BY <1>1, <1>2, <1>3
    <3> QED  BY <1>4, <2>1, <3>1 DEF OnItsWay, Unfinished
  <2>2. CASE d # e
    <3>1. OnItsWay(d) \/ d \in processed \cup dead \cup cut
      BY <1>1, <1>5 DEF NothingDropped
    <3>2. CASE outbox[d] = "queued"
      BY <1>5, <2>2, <3>2 DEF OnItsWay
    <3>3. ASSUME NEW m \in 1 .. last, copy[m] = d, m > first, Unfinished(m)
          PROVE  OnItsWay(d)' \/ d \in cut'
      <4>1. m \in 1 .. last' /\ copy'[m] = d /\ Unfinished(m)'
        BY <1>1, <1>2, <1>4, <3>3 DEF Unfinished
      <4>2. CASE m > first'
        BY <4>1, <4>2 DEF OnItsWay
      <4>3. CASE ~(m > first')
        <5>1. m \in first + 1 .. first'
          BY <1>2, <1>3, <3>3, <4>3
        <5> QED  BY <1>1, <3>3, <4>1, <5>1
      <4> QED  BY <4>2, <4>3
    <3> QED  BY <1>1, <3>1, <3>2, <3>3 DEF OnItsWay
  <2> QED  BY <2>1, <2>2
<1>14. TriesCounted'
  <2>1. \A m \in Messages : Trying(m)' = Trying(m)
    BY <1>1 DEF Trying
  <2> QED  BY <1>1, <1>7, <2>1, SameTries DEF IInv
<1> QED  BY <1>7, <1>9, <1>10, <1>11, <1>12, <1>13, <1>14 DEF IInv

LEMMA RelayPublishKeeps ==
    ASSUME IInv, NEW e \in Events, RelayPublish(e)
    PROVE  IInv'
<1>1. faults' \in 0 .. MaxFaults
  BY DEF RelayPublish, IInv, TypeOK
<1> QED  BY <1>1, PublishKeeps DEF RelayPublish

LEMMA RelayLosesMarkKeeps ==
    ASSUME IInv, NEW e \in Events, RelayLosesMark(e)
    PROVE  IInv'
<1>1. faults' \in 0 .. MaxFaults
  BY BoundsAssumption DEF RelayLosesMark, Fault, IInv, TypeOK
<1> QED  BY <1>1, PublishKeeps DEF RelayLosesMark

\* One consumer more tries, for one delivery of those that were left.
LEMMA OneMoreTry ==
    ASSUME TypeOK, TypeOK', TriesCounted, NEW m \in Messages, NEW c,
           Trying(m)' \subseteq Trying(m) \cup {c}, fails'[m] = fails[m], Left(m)' + 1 <= Left(m)
    PROVE  /\ IsFiniteSet(Trying(m)')
           /\ fails'[m] + Cardinality(Trying(m)') + Left(m)' <= MaxDelivery + 1
<1>1. /\ IsFiniteSet(Trying(m))
      /\ fails[m] + Cardinality(Trying(m)) + Left(m) <= MaxDelivery + 1
  BY DEF TriesCounted
<1>2. Cardinality(Trying(m)) \in Nat
  BY <1>1, FS_CardinalityType
<1>3. /\ IsFiniteSet(Trying(m) \cup {c})
      /\ Cardinality(Trying(m) \cup {c}) <= Cardinality(Trying(m)) + 1
  <2> DEFINE T == Trying(m)
  <2>1. IsFiniteSet(T) /\ Cardinality(T) \in Nat
    BY <1>1, <1>2
  <2> HIDE DEF T
  <2>2. /\ IsFiniteSet(T \cup {c})
        /\ Cardinality(T \cup {c}) = IF c \in T THEN Cardinality(T) ELSE Cardinality(T) + 1
    BY <2>1, FS_AddElement
  <2>3. Cardinality(T \cup {c}) <= Cardinality(T) + 1
    BY <2>1, <2>2
  <2> QED  BY <2>2, <2>3 DEF T
<1>4. IsFiniteSet(Trying(m)') /\ Cardinality(Trying(m)') <= Cardinality(Trying(m) \cup {c})
  BY <1>3, FS_Subset
<1>5. Cardinality(Trying(m)') \in Nat /\ Cardinality(Trying(m) \cup {c}) \in Nat
  BY <1>3, <1>4, FS_CardinalityType
<1>6. /\ times'[m] \in Nat /\ cursor' \in Nat /\ m \in Nat
      /\ fails[m] \in Nat /\ MaxDelivery \in Nat
  BY BoundsAssumption DEF TypeOK, Messages
<1>7. Left(m) \in Nat /\ Left(m)' \in Nat
  BY <1>6, LeftIsNat DEF Left
<1> QED  BY <1>1, <1>2, <1>3, <1>4, <1>5, <1>6, <1>7

LEMMA RunOnceKeeps ==
    ASSUME IInv, NEW c \in Consumers, NEW S \in SUBSET Pending, RunOnce(c, S)
    PROVE  IInv'
<1> DEFINE batch == Claimed(S) \cup {<<m, 1>> : m \in Fresh}
<1>1. /\ now[c] = Nothing /\ hand[c] = {}
      /\ hand' = [hand EXCEPT ![c] = batch]
      /\ times' = [m \in Messages |->
                     IF m \in Fresh THEN 1
                     ELSE IF m \in S THEN (IF m > first THEN times[m] + 1 ELSE 0)
                     ELSE times[m]]
      /\ cursor' = Max({cursor} \cup Fresh)
      /\ UNCHANGED <<outbox, copy, last, first, cut, now, processed, effects, fails,
                     dlq, dead, faults>>
      /\ TypeOK /\ BatchesOK /\ NothingDropped /\ TriesCounted
  BY DEF RunOnce, Idle, IInv, stream, tables
<1>2. /\ last \in Nat /\ first \in Nat /\ cursor \in Nat /\ cursor <= last
      /\ last <= MaxMessages /\ MaxMessages \in Nat /\ MaxDelivery \in Nat \ {0}
      /\ \A m \in Messages : m \in Nat /\ m > 0 /\ times[m] \in Nat
      /\ \A m \in 1 .. last : m \in Messages
  BY <1>1, BoundsAssumption DEF TypeOK, Messages
<1>3. /\ \A m \in Fresh : m \in 1 .. last /\ m > cursor /\ m > first
      /\ \A m \in 1 .. last : m > cursor /\ m > first /\ m \notin Fresh =>
            \A n \in Fresh : n < m
  BY <1>1, FreshFacts
<1>4. /\ cursor' \in {cursor} \cup Fresh /\ cursor' >= cursor
      /\ \A m \in Fresh : m <= cursor'
  BY <1>1, CursorAfter
<1>5. cursor' \in 0 .. last
  BY <1>2, <1>3, <1>4
<1>6. \A m \in S : m \in Messages /\ m \in 1 .. last /\ m <= cursor /\ times[m] > 0 /\ m \notin Fresh
  BY <1>1, <1>2, <1>3 DEF Pending, TypeOK, Messages
<1>7. \A d \in batch : \/ \E m \in S : m > first /\ d = <<m, times[m]>>
                       \/ \E m \in Fresh : d = <<m, 1>>
  BY DEF Claimed
<1> HIDE DEF batch
<1>8. /\ hand' \in [Consumers -> SUBSET ((1 .. last) \X Nat)]
      /\ \A d \in Consumers : hand'[d] = IF d = c THEN batch ELSE hand[d]
  <2>1. batch \in SUBSET ((1 .. last) \X Nat)
    BY <1>2, <1>3, <1>6, <1>7
  <2> QED  BY <1>1, <2>1 DEF TypeOK
<1>9. /\ times' \in [Messages -> Nat]
      /\ \A m \in Messages : times'[m] > 0 => m <= cursor'
  <2>1. \A m \in Messages : times'[m] \in Nat
    BY <1>1, <1>2
  <2>2. ASSUME NEW m \in Messages, times'[m] > 0
        PROVE  m <= cursor'
    <3>1. CASE m \in Fresh
      BY <1>4, <3>1
    <3>2. CASE m \notin Fresh
      <4>1. times[m] > 0
        BY <1>1, <1>6, <2>2, <3>2
      <4>2. m <= cursor
        BY <1>1, <4>1 DEF TypeOK
      <4> QED  BY <1>2, <1>4, <1>5, <4>2
    <3> QED  BY <3>1, <3>2
  <2> QED  BY <1>1, <2>1, <2>2
<1>10. TypeOK'
  BY <1>1, <1>5, <1>8, <1>9 DEF TypeOK
<1>11. PhasesOK' /\ HandledAlone' /\ OnlyCommitted' /\ EffectOnce'
  BY <1>1 DEF IInv, PhasesOK, HandledAlone, OnlyCommitted, EffectOnce
<1>12. BatchesOK'
  <2>1. \A d1, d2 \in batch : d1[1] = d2[1] => d1 = d2
    BY <1>3, <1>6, <1>7
  <2>2. \A d \in batch : d[1] # 0
    BY <1>3, <1>6, <1>7
  <2> QED  BY <1>1, <1>8, <2>1, <2>2 DEF BatchesOK, Nothing
<1>13. NothingDropped'
  <2> SUFFICES ASSUME NEW e \in Events, NEW m \in 1 .. last, copy[m] = e, m > first, Unfinished(m)
               PROVE  Unfinished(m)'
    BY <1>1 DEF NothingDropped, OnItsWay
  <2>1. CASE m \in Fresh
    BY <1>1, <1>2, <2>1 DEF Unfinished
  <2>2. CASE m \in S
    BY <1>1, <1>2, <1>6, <2>2 DEF Unfinished
  <2>3. CASE m \notin Fresh /\ m \notin S
    <3>1. CASE m > cursor
      <4>1. m > cursor'
        BY <1>2, <1>3, <1>4, <2>3, <3>1
      <4> QED  BY <4>1 DEF Unfinished
    <3>2. CASE ~(m > cursor)
      <4>1. times[m] > 0
        BY <3>2 DEF Unfinished
      <4> QED  BY <1>1, <1>2, <2>3, <4>1 DEF Unfinished
    <3> QED  BY <3>1, <3>2
  <2> QED  BY <2>1, <2>2, <2>3
<1>14. TriesCounted'
  <2> SUFFICES ASSUME NEW m \in Messages
               PROVE  /\ IsFiniteSet(Trying(m)')
                      /\ fails'[m] + Cardinality(Trying(m)') + Left(m)' <= MaxDelivery + 1
    BY DEF TriesCounted
  <2>1. Trying(m)' \subseteq Trying(m) \cup {c}
    BY <1>1, <1>8 DEF Trying
  <2>2. m \in Nat /\ times[m] \in Nat /\ times'[m] \in Nat /\ cursor' \in Nat
    BY <1>2, <1>5, <1>9
  <2>3. CASE m \in Fresh
    <3>1. m > cursor /\ ~(m > cursor') /\ times'[m] = 1
      BY <1>1, <1>2, <1>3, <1>4, <2>2, <2>3
    <3>2. Left(m) = MaxDelivery + 1 /\ Left(m)' = MaxDelivery
      BY <1>2, <3>1 DEF Left
    <3> QED  BY <1>1, <1>2, <1>10, <2>1, <3>2, OneMoreTry
  <2>4. CASE m \in S /\ m > first /\ times[m] <= MaxDelivery
    <3>1. times'[m] = times[m] + 1 /\ m <= cursor /\ m <= cursor' /\ times[m] > 0
      BY <1>1, <1>2, <1>4, <1>5, <1>6, <2>4
    <3>2. Left(m)' + 1 <= Left(m)
      BY <1>2, <2>2, <2>4, <3>1 DEF Left
    <3> QED  BY <1>1, <1>10, <2>1, <3>2, OneMoreTry
  <2>5. CASE m \notin Fresh /\ ~(m \in S /\ m > first /\ times[m] <= MaxDelivery)
    <3>1. Trying(m)' \subseteq Trying(m)
      <4>1. \A n \in 0 .. MaxDelivery : <<m, n>> \notin batch
        BY <1>2, <1>7, <2>5
      <4> QED  BY <1>1, <1>8, <4>1 DEF Trying, Nothing
    <3>2. Left(m)' <= Left(m)
      <4>1. CASE m > cursor
        <5>1. times'[m] = 0
          BY <1>1, <1>2, <1>6, <2>2, <2>5, <4>1 DEF TypeOK
        <5> QED  BY <1>2, <2>2, <4>1, <5>1 DEF Left
      <4>2. CASE ~(m > cursor)
        <5>1. ~(m > cursor')
          BY <1>2, <1>4, <2>2, <4>2
        <5>2. times'[m] = times[m] \/ times'[m] = 0 \/ (times[m] > MaxDelivery /\ times'[m] > MaxDelivery)
          BY <1>1, <1>2, <1>6, <2>2, <2>5
        <5> QED  BY <1>2, <2>2, <4>2, <5>1, <5>2 DEF Left
      <4> QED  BY <4>1, <4>2
    <3> QED  BY <1>1, <1>10, <3>1, <3>2, FewerTries
  <2> QED  BY <1>6, <2>3, <2>4, <2>5
<1> QED  BY <1>10, <1>11, <1>12, <1>13, <1>14 DEF IInv

\* What _handle does with a delivery it does not have to wait for.
LEMMA NextPhaseIs ==
    ASSUME NEW m, NEW n \in Nat, NextPhase(m, n) # "wait"
    PROVE  \/ NextPhase(m, n) = "reject"
           \/ NextPhase(m, n) = "ack" /\ copy[m] \in processed
           \/ /\ NextPhase(m, n) = "handle" /\ n <= MaxDelivery
              /\ copy[m] \notin processed /\ ~Handling(copy[m])
<1>1. MaxDelivery \in Nat
  BY BoundsAssumption
<1>2. CASE n > MaxDelivery
  BY <1>1, <1>2 DEF NextPhase
<1>3. CASE n <= MaxDelivery /\ copy[m] \in processed
  BY <1>1, <1>3 DEF NextPhase
<1>4. CASE n <= MaxDelivery /\ copy[m] \notin processed
  BY <1>1, <1>4 DEF NextPhase
<1> QED  BY <1>1, <1>2, <1>3, <1>4

LEMMA BeginKeeps ==
    ASSUME IInv, NEW c \in Consumers, NEW m, NEW n, Begin(c, m, n)
    PROVE  IInv'
<1> DEFINE p == NextPhase(m, n)
<1>1. /\ now[c] = Nothing /\ <<m, n>> \in hand[c] /\ p # "wait"
      /\ hand' = [hand EXCEPT ![c] = @ \ {<<m, n>>}]
      /\ now' = [now EXCEPT ![c] = [msg |-> m, count |-> n, phase |-> p]]
      /\ UNCHANGED <<outbox, copy, last, first, cut, cursor, times,
                     processed, effects, fails, dlq, dead, faults>>
      /\ TypeOK /\ PhasesOK /\ HandledAlone /\ BatchesOK /\ TriesCounted
  BY DEF Begin, IInv, stream, group, tables
<1>2. m \in 1 .. last /\ n \in Nat /\ m \in Messages
  BY <1>1, BoundsAssumption DEF TypeOK, Messages
<1>3. \/ p = "reject"
      \/ p = "ack" /\ copy[m] \in processed
      \/ p = "handle" /\ n <= MaxDelivery /\ copy[m] \notin processed /\ ~Handling(copy[m])
  BY <1>1, <1>2, NextPhaseIs
<1> HIDE DEF p
<1>4. \A d \in Consumers :
         /\ d # c => now'[d] = now[d] /\ hand'[d] = hand[d]
         /\ hand'[d] \subseteq hand[d]
  BY <1>1 DEF TypeOK
<1>5. now'[c] = [msg |-> m, count |-> n, phase |-> p] /\ hand'[c] = hand[c] \ {<<m, n>>}
  BY <1>1 DEF TypeOK
<1>6. now'[c].msg = m /\ now'[c].count = n /\ now'[c].phase = p
  BY <1>5
<1>7. TypeOK'
  <2>1. [msg |-> m, count |-> n, phase |-> p] \in Working
    BY <1>2, <1>3 DEF Working, Phases
  <2>2. now' \in [Consumers -> Working \cup {Nothing}]
    BY <1>1, <2>1 DEF TypeOK
  <2>3. \A d \in Consumers : now'[d].msg <= last
    <3>1. m <= last
      BY <1>1, <1>2 DEF TypeOK
    <3> QED  BY <1>1, <1>4, <1>6, <3>1 DEF TypeOK
  <2>4. hand' \in [Consumers -> SUBSET ((1 .. last) \X Nat)]
    BY <1>1 DEF TypeOK
  <2> QED  BY <1>1, <2>2, <2>3, <2>4 DEF TypeOK
<1>8. PhasesOK'
  BY <1>1, <1>3, <1>4, <1>6 DEF PhasesOK
<1>9. HandledAlone'
  <2>1. p = "handle" => \A d \in Consumers : ~(now[d].phase = "handle" /\ copy[now[d].msg] = copy[m])
    BY <1>3 DEF Handling
  <2> QED  BY <1>1, <1>4, <1>6, <2>1 DEF HandledAlone
<1>10. BatchesOK'
  <2>1. \A x \in hand[c] : x # <<m, n>> => x[1] # m
    BY <1>1 DEF BatchesOK
  <2> QED  BY <1>1, <1>2, <1>4, <1>5, <1>6, <2>1 DEF BatchesOK
<1>11. OnlyCommitted' /\ EffectOnce'
  BY <1>1 DEF IInv, OnlyCommitted, EffectOnce
<1>12. NothingDropped'
  BY <1>1 DEF IInv, NothingDropped, OnItsWay, Unfinished
<1>13. TriesCounted'
  <2>1. ASSUME NEW k \in Messages, NEW d \in Trying(k)'
        PROVE  d \in Trying(k)
    <3>1. d \in Consumers /\ (\/ \E j \in 0 .. MaxDelivery : <<k, j>> \in hand'[d]
                              \/ now'[d].phase = "handle" /\ now'[d].msg = k)
      BY <2>1 DEF Trying
    <3>2. CASE \E j \in 0 .. MaxDelivery : <<k, j>> \in hand'[d]
      BY <1>4, <3>1, <3>2 DEF Trying
    <3>3. CASE now'[d].phase = "handle" /\ now'[d].msg = k /\ d # c
      BY <1>4, <3>1, <3>3 DEF Trying
    <3>4. CASE now'[d].phase = "handle" /\ now'[d].msg = k /\ d = c
      <4>1. n \in 0 .. MaxDelivery /\ k = m
        BY <1>2, <1>3, <1>6, <3>4, BoundsAssumption
      <4> QED  BY <1>1, <3>1, <3>4, <4>1 DEF Trying
    <3> QED  BY <3>1, <3>2, <3>3, <3>4
  <2>2. \A k \in Messages : Trying(k)' \subseteq Trying(k)
    BY <2>1
  <2> QED  BY <1>1, <1>7, <2>2, SameTries
<1> QED  BY <1>7, <1>8, <1>9, <1>10, <1>11, <1>12, <1>13 DEF IInv

LEMMA DispatchCommitsKeeps ==
    ASSUME IInv, NEW c \in Consumers, DispatchCommits(c)
    PROVE  IInv'
<1> DEFINE e == copy[now[c].msg]
<1>1. /\ now[c].phase = "handle" /\ now' = GoTo(c, "ack")
      /\ processed' = processed \cup {e}
      /\ effects' = [effects EXCEPT ![e] = @ + 1]
      /\ UNCHANGED <<outbox, copy, last, first, cut, cursor, times, hand,
                     fails, dlq, dead, faults>>
      /\ TypeOK /\ PhasesOK /\ HandledAlone /\ EffectOnce /\ NothingDropped /\ TriesCounted
  BY DEF DispatchCommits, IInv, stream, group
<1>2. now[c] # Nothing /\ e \in Events
  BY <1>1, BusyConsumer
<1>3. /\ now' \in [Consumers -> Working \cup {Nothing}]
      /\ \A d \in Consumers : now'[d].msg <= last'
      /\ HandledAlone' /\ BatchesOK'
      /\ \A m \in Messages : Trying(m)' \subseteq Trying(m)
  BY <1>1, <1>2, MoveOn DEF Phases
<1>4. /\ \A d \in Consumers : d # c => now'[d] = now[d]
      /\ \/ now'[c] = Nothing
         \/ now'[c] = [msg |-> now[c].msg, count |-> now[c].count, phase |-> "ack"]
  BY <1>1, <1>2, NowAfter DEF Phases
<1>5. TypeOK'
  BY <1>1, <1>2, <1>3 DEF TypeOK
<1>6. PhasesOK'
  <2> SUFFICES ASSUME NEW d \in Consumers
               PROVE  /\ now'[d].phase = "handle" => /\ now'[d].count <= MaxDelivery
                                                     /\ copy[now'[d].msg] \notin processed'
                      /\ now'[d].phase = "ack" => copy[now'[d].msg] \in processed'
                      /\ now'[d].phase = "record" => copy[now'[d].msg] \in dlq
                      /\ now'[d].phase = "ack_dead" => copy[now'[d].msg] \in dead
    BY <1>1 DEF PhasesOK
  <2>1. CASE d = c
    BY <1>1, <1>4, <2>1 DEF Nothing
  <2>2. CASE d # c
    <3>1. now[d].phase = "handle" => copy[now[d].msg] # e
      BY <1>1, <2>2 DEF HandledAlone
    <3> QED  BY <1>1, <1>4, <2>2, <3>1 DEF PhasesOK
  <2> QED  BY <2>1, <2>2
<1>7. OnlyCommitted'
  BY <1>1 DEF IInv, OnlyCommitted
<1>8. EffectOnce'
  <2>1. e \notin processed
    BY <1>1 DEF PhasesOK
  <2>2. effects[e] = 0
    BY <1>1, <1>2, <2>1 DEF EffectOnce
  <2> QED  BY <1>1, <1>2, <2>2 DEF EffectOnce, TypeOK
<1>9. NothingDropped'
  BY <1>1 DEF NothingDropped, OnItsWay, Unfinished
<1>10. TriesCounted'
  BY <1>1, <1>3, <1>5, SameTries
<1> QED  BY <1>3, <1>5, <1>6, <1>7, <1>8, <1>9, <1>10 DEF IInv

LEMMA DispatchRaisesKeeps ==
    ASSUME IInv, NEW c \in Consumers, DispatchRaises(c)
    PROVE  IInv'
<1> DEFINE k == now[c].msg
<1>1. /\ now[c].phase = "handle" /\ now' \in {GoTo(c, "reject"), Done(c)}
      /\ fails' = [fails EXCEPT ![k] = @ + 1]
      /\ UNCHANGED <<outbox, copy, last, first, cut, cursor, times, hand,
                     processed, effects, dlq, dead>>
      /\ TypeOK /\ PhasesOK /\ TriesCounted
  BY DEF DispatchRaises, RejectOrLeave, IInv, stream, group
<1>2. now[c] # Nothing /\ k \in Messages
  BY <1>1, BusyConsumer
<1>3. /\ now' \in [Consumers -> Working \cup {Nothing}]
      /\ \A d \in Consumers : now'[d].msg <= last'
      /\ HandledAlone' /\ BatchesOK'
      /\ \A m \in Messages : Trying(m)' \subseteq Trying(m) \ (IF k = m THEN {c} ELSE {})
  BY <1>1, <1>2, MoveOn DEF Phases
<1>4. /\ \A d \in Consumers : d # c => now'[d] = now[d]
      /\ \/ now'[c] = Nothing
         \/ now'[c] = [msg |-> k, count |-> now[c].count, phase |-> "reject"]
  BY <1>1, <1>2, NowAfter DEF Phases
<1>5. faults' \in 0 .. MaxFaults
  BY <1>1, BoundsAssumption DEF DispatchRaises, Fault, TypeOK
<1>6. TypeOK'
  BY <1>1, <1>2, <1>3, <1>5 DEF TypeOK
<1>7. PhasesOK'
  BY <1>1, <1>4 DEF PhasesOK, Nothing
<1>8. OnlyCommitted' /\ EffectOnce' /\ NothingDropped'
  BY <1>1 DEF IInv, OnlyCommitted, EffectOnce, NothingDropped, OnItsWay, Unfinished
<1>9. TriesCounted'
  <2> SUFFICES ASSUME NEW m \in Messages
               PROVE  /\ IsFiniteSet(Trying(m)')
                      /\ fails'[m] + Cardinality(Trying(m)') + Left(m)' <= MaxDelivery + 1
    BY DEF TriesCounted
  <2>1. Left(m)' = Left(m) /\ Left(m) \in Nat
    BY <1>1, LeftIsNat DEF Left
  <2>2. CASE m # k
    <3>1. fails'[m] = fails[m] /\ Trying(m)' \subseteq Trying(m) /\ Left(m)' <= Left(m)
      BY <1>1, <1>2, <1>3, <2>1, <2>2 DEF TypeOK
    <3> QED  BY <1>1, <1>6, <3>1, FewerTries
  <2>3. CASE m = k
    <3> DEFINE T == Trying(m)
               U == Trying(m)'
    <3>1. /\ IsFiniteSet(T) /\ Cardinality(T) \in Nat /\ c \in T
          /\ fails[m] + Cardinality(T) + Left(m) <= MaxDelivery + 1
      BY <1>1, <2>3, FS_CardinalityType DEF TriesCounted, Trying
    <3>2. U \in SUBSET (T \ {c})
      BY <1>3, <2>3
    <3>3. fails'[m] = fails[m] + 1 /\ fails[m] \in Nat /\ MaxDelivery \in Nat
      BY <1>1, <1>2, <2>3, BoundsAssumption DEF TypeOK
    <3> HIDE DEF T, U
    <3>4. IsFiniteSet(T \ {c}) /\ Cardinality(T \ {c}) = Cardinality(T) - 1
      BY <3>1, FS_RemoveElement
    <3>5. IsFiniteSet(U) /\ Cardinality(U) <= Cardinality(T) - 1
      BY <3>2, <3>4, FS_Subset
    <3>6. Cardinality(U) \in Nat
      BY <3>5, FS_CardinalityType
    <3>7. fails'[m] + Cardinality(U) + Left(m)' <= MaxDelivery + 1
      BY <2>1, <3>1, <3>3, <3>5, <3>6
    <3> QED  BY <3>5, <3>7 DEF U
  <2> QED  BY <2>2, <2>3
<1> QED  BY <1>3, <1>6, <1>7, <1>8, <1>9 DEF IInv

LEMMA AckKeeps ==
    ASSUME IInv, NEW c \in Consumers, Ack(c)
    PROVE  IInv'
<1> DEFINE k == now[c].msg
<1>1. /\ now[c].phase \in {"ack", "ack_dead"} /\ now' = Done(c)
      /\ times' = [times EXCEPT ![k] = 0]
      /\ UNCHANGED <<outbox, copy, last, first, cut, cursor, hand,
                     processed, effects, fails, dlq, dead, faults>>
      /\ TypeOK /\ PhasesOK /\ NothingDropped /\ TriesCounted
  BY DEF Ack, IInv, stream, tables
<1>2. now[c] # Nothing /\ k \in Messages
  BY <1>1, BusyConsumer
<1>3. /\ now' \in [Consumers -> Working \cup {Nothing}]
      /\ \A d \in Consumers : now'[d].msg <= last'
      /\ HandledAlone' /\ BatchesOK'
      /\ \A m \in Messages : Trying(m)' \subseteq Trying(m)
  <2>1. "reject" \in Phases \ {"handle"}
    BY DEF Phases
  <2> QED  BY <1>1, <1>2, <2>1, MoveOn
<1>4. \A d \in Consumers : IF d = c THEN now'[d] = Nothing ELSE now'[d] = now[d]
  BY <1>1 DEF Done, TypeOK
<1>5. \A m \in Messages : times'[m] = IF m = k THEN 0 ELSE times[m]
  BY <1>1 DEF TypeOK
<1>6. TypeOK'
  <2>1. times' \in [Messages -> Nat]
    BY <1>1 DEF TypeOK
  <2>2. \A m \in Messages : times'[m] > 0 => m <= cursor
    BY <1>1, <1>5 DEF TypeOK
  <2> QED  BY <1>1, <1>3, <2>1, <2>2 DEF TypeOK
<1>7. PhasesOK'
  BY <1>1, <1>4 DEF PhasesOK, Nothing
<1>8. OnlyCommitted' /\ EffectOnce'
  BY <1>1 DEF IInv, OnlyCommitted, EffectOnce
<1>9. NothingDropped'
  <2> SUFFICES ASSUME NEW e \in Events, NEW m \in 1 .. last, copy[m] = e, m > first, Unfinished(m)
               PROVE  Unfinished(m)' \/ e \in processed \cup dead
    BY <1>1 DEF NothingDropped, OnItsWay
  <2>1. m \in Messages
    BY <1>1, BoundsAssumption DEF TypeOK, Messages
  <2>2. CASE m = k
    BY <1>1, <2>2 DEF PhasesOK
  <2>3. CASE m # k
    BY <1>1, <1>5, <2>1, <2>3 DEF Unfinished
  <2> QED  BY <2>2, <2>3
<1>10. TriesCounted'
  <2> SUFFICES ASSUME NEW m \in Messages
               PROVE  /\ IsFiniteSet(Trying(m)')
                      /\ fails'[m] + Cardinality(Trying(m)') + Left(m)' <= MaxDelivery + 1
    BY DEF TriesCounted
  <2>1. /\ times[m] \in Nat /\ cursor \in Nat /\ m \in Nat /\ MaxDelivery \in Nat
    BY <1>1, BoundsAssumption DEF TypeOK, Messages
  <2>2. Left(m)' <= Left(m)
    BY <1>1, <1>5, <2>1 DEF Left
  <2> QED  BY <1>1, <1>3, <1>6, <2>2, FewerTries
<1> QED  BY <1>3, <1>6, <1>7, <1>8, <1>9, <1>10 DEF IInv

LEMMA AckRaisesKeeps ==
    ASSUME IInv, NEW c \in Consumers, AckRaises(c)
    PROVE  IInv'
<1>1. /\ now[c].phase = "ack" /\ now' \in {GoTo(c, "reject"), Done(c)}
      /\ UNCHANGED <<outbox, copy, last, first, cut, cursor, times, hand,
                     processed, effects, fails, dlq, dead>>
      /\ TypeOK /\ PhasesOK /\ TriesCounted
  BY DEF AckRaises, RejectOrLeave, IInv, stream, group, tables
<1>2. now[c] # Nothing
  BY <1>1, BusyConsumer
<1>3. /\ now' \in [Consumers -> Working \cup {Nothing}]
      /\ \A d \in Consumers : now'[d].msg <= last'
      /\ HandledAlone' /\ BatchesOK'
      /\ \A m \in Messages : Trying(m)' \subseteq Trying(m)
  BY <1>1, <1>2, MoveOn DEF Phases
<1>4. /\ \A d \in Consumers : d # c => now'[d] = now[d]
      /\ \/ now'[c] = Nothing
         \/ now'[c] = [msg |-> now[c].msg, count |-> now[c].count, phase |-> "reject"]
  BY <1>1, <1>2, NowAfter DEF Phases
<1>5. faults' \in 0 .. MaxFaults
  BY <1>1, BoundsAssumption DEF AckRaises, Fault, TypeOK
<1>6. TypeOK'
  BY <1>1, <1>3, <1>5 DEF TypeOK
<1>7. PhasesOK'
  BY <1>1, <1>4 DEF PhasesOK, Nothing
<1>8. OnlyCommitted' /\ EffectOnce' /\ NothingDropped'
  BY <1>1 DEF IInv, OnlyCommitted, EffectOnce, NothingDropped, OnItsWay, Unfinished
<1>9. TriesCounted'
  BY <1>1, <1>3, <1>6, SameTries
<1> QED  BY <1>3, <1>6, <1>7, <1>8, <1>9 DEF IInv

LEMMA DeadLetterKeeps ==
    ASSUME IInv, NEW c \in Consumers, DeadLetter(c)
    PROVE  IInv'
<1> DEFINE e == copy[now[c].msg]
<1>1. /\ now[c].phase = "reject" /\ now' = GoTo(c, "record")
      /\ dlq' = dlq \cup {e}
      /\ UNCHANGED <<outbox, copy, last, first, cut, cursor, times, hand,
                     processed, effects, fails, dead, faults>>
      /\ TypeOK /\ PhasesOK /\ OnlyCommitted /\ TriesCounted
  BY DEF DeadLetter, IInv, stream, group
<1>2. now[c] # Nothing /\ e \in Events /\ outbox[e] # "none"
  BY <1>1, BusyConsumer DEF OnlyCommitted
<1>3. /\ now' \in [Consumers -> Working \cup {Nothing}]
      /\ \A d \in Consumers : now'[d].msg <= last'
      /\ HandledAlone' /\ BatchesOK'
      /\ \A m \in Messages : Trying(m)' \subseteq Trying(m)
  BY <1>1, <1>2, MoveOn DEF Phases
<1>4. /\ \A d \in Consumers : d # c => now'[d] = now[d]
      /\ \/ now'[c] = Nothing
         \/ now'[c] = [msg |-> now[c].msg, count |-> now[c].count, phase |-> "record"]
  BY <1>1, <1>2, NowAfter DEF Phases
<1>5. TypeOK'
  BY <1>1, <1>2, <1>3 DEF TypeOK
<1>6. PhasesOK'
  BY <1>1, <1>4 DEF PhasesOK, Nothing
<1>7. OnlyCommitted'
  BY <1>1, <1>2 DEF OnlyCommitted
<1>8. EffectOnce' /\ NothingDropped'
  BY <1>1 DEF IInv, EffectOnce, NothingDropped, OnItsWay, Unfinished
<1>9. TriesCounted'
  BY <1>1, <1>3, <1>5, SameTries
<1> QED  BY <1>3, <1>5, <1>6, <1>7, <1>8, <1>9 DEF IInv

LEMMA RecordDeadLetterKeeps ==
    ASSUME IInv, NEW c \in Consumers, RecordDeadLetter(c)
    PROVE  IInv'
<1> DEFINE e == copy[now[c].msg]
<1>1. /\ now[c].phase = "record" /\ now' = GoTo(c, "ack_dead")
      /\ dead' = dead \cup {e}
      /\ UNCHANGED <<outbox, copy, last, first, cut, cursor, times, hand,
                     processed, effects, fails, dlq, faults>>
      /\ TypeOK /\ PhasesOK /\ TriesCounted
  BY DEF RecordDeadLetter, IInv, stream, group
<1>2. now[c] # Nothing /\ e \in dlq
  BY <1>1, BusyConsumer DEF PhasesOK
<1>3. /\ now' \in [Consumers -> Working \cup {Nothing}]
      /\ \A d \in Consumers : now'[d].msg <= last'
      /\ HandledAlone' /\ BatchesOK'
      /\ \A m \in Messages : Trying(m)' \subseteq Trying(m)
  BY <1>1, <1>2, MoveOn DEF Phases
<1>4. /\ \A d \in Consumers : d # c => now'[d] = now[d]
      /\ \/ now'[c] = Nothing
         \/ now'[c] = [msg |-> now[c].msg, count |-> now[c].count, phase |-> "ack_dead"]
  BY <1>1, <1>2, NowAfter DEF Phases
<1>5. TypeOK'
  BY <1>1, <1>2, <1>3 DEF TypeOK
<1>6. PhasesOK'
  BY <1>1, <1>4 DEF PhasesOK, Nothing
<1>7. OnlyCommitted' /\ EffectOnce' /\ NothingDropped'
  BY <1>1 DEF IInv, OnlyCommitted, EffectOnce, NothingDropped, OnItsWay, Unfinished
<1>8. TriesCounted'
  BY <1>1, <1>3, <1>5, SameTries
<1> QED  BY <1>3, <1>5, <1>6, <1>7, <1>8 DEF IInv

LEMMA CrashKeeps ==
    ASSUME IInv, NEW c \in Consumers, Crash(c)
    PROVE  IInv'
<1>1. /\ now' = Done(c) /\ hand' = [hand EXCEPT ![c] = {}]
      /\ UNCHANGED <<outbox, copy, last, first, cut, cursor, times,
                     processed, effects, fails, dlq, dead>>
      /\ TypeOK /\ PhasesOK /\ HandledAlone /\ BatchesOK /\ TriesCounted
  BY DEF Crash, IInv, stream, group, tables
<1>2. \A d \in Consumers : /\ now'[d] = IF d = c THEN Nothing ELSE now[d]
                           /\ hand'[d] = IF d = c THEN {} ELSE hand[d]
  BY <1>1 DEF TypeOK, Done
<1>3. faults' \in 0 .. MaxFaults
  BY <1>1, BoundsAssumption DEF Crash, Fault, TypeOK
<1>4. TypeOK'
  <2>1. now' \in [Consumers -> Working \cup {Nothing}]
    BY <1>1 DEF TypeOK, Done
  <2>2. hand' \in [Consumers -> SUBSET ((1 .. last) \X Nat)]
    BY <1>1 DEF TypeOK
  <2>3. \A d \in Consumers : now'[d].msg <= last
    <3>1. Nothing.msg <= last /\ \A d \in Consumers : now[d].msg <= last
      BY <1>1, BoundsAssumption DEF TypeOK, Nothing
    <3> QED  BY <1>2, <3>1
  <2> QED  BY <1>1, <1>3, <2>1, <2>2, <2>3 DEF TypeOK
<1>5. PhasesOK' /\ HandledAlone'
  BY <1>1, <1>2 DEF PhasesOK, HandledAlone, Nothing
<1>6. BatchesOK'
  BY <1>1, <1>2 DEF BatchesOK
<1>7. OnlyCommitted' /\ EffectOnce' /\ NothingDropped'
  BY <1>1 DEF IInv, OnlyCommitted, EffectOnce, NothingDropped, OnItsWay, Unfinished
<1>8. TriesCounted'
  <2>1. \A m \in Messages : Trying(m)' \subseteq Trying(m)
    BY <1>2 DEF Trying, Nothing
  <2> QED  BY <1>1, <1>4, <2>1, SameTries
<1> QED  BY <1>4, <1>5, <1>6, <1>7, <1>8 DEF IInv

-----------------------------------------------------------------------------
(* The theorems.                                                           *)

\* The strengthened invariant holds in every reachable state.
LEMMA Invariant == Spec => []IInv
<1>1. IInv /\ [Next]_vars => IInv'
  <2> SUFFICES ASSUME IInv, [Next]_vars PROVE IInv'
    OBVIOUS
  <2>1. CASE \E e \in Events : EnqueueEvent(e) \/ RelayPublish(e) \/ RelayLosesMark(e)
    BY <2>1, EnqueueEventKeeps, RelayPublishKeeps, RelayLosesMarkKeeps
  <2>2. ASSUME NEW c \in Consumers, RunOnceSome(c)
        PROVE  IInv'
    BY <2>2, RunOnceKeeps DEF RunOnceSome
  <2>3. ASSUME NEW c \in Consumers, \E d \in hand[c] : Begin(c, d[1], d[2])
        PROVE  IInv'
    BY <2>3, BeginKeeps
  <2>4. ASSUME NEW c \in Consumers,
               \/ DispatchCommits(c) \/ DispatchRaises(c) \/ Ack(c) \/ AckRaises(c)
               \/ DeadLetter(c) \/ RecordDeadLetter(c) \/ Crash(c)
        PROVE  IInv'
    BY <2>4, DispatchCommitsKeeps, DispatchRaisesKeeps, AckKeeps, AckRaisesKeeps,
       DeadLetterKeeps, RecordDeadLetterKeeps, CrashKeeps
  <2>5. CASE UNCHANGED vars
    <3> USE <2>5 DEF vars
    <3>1. TypeOK'
      BY DEF IInv, TypeOK
    <3>2. PhasesOK' /\ HandledAlone' /\ OnlyCommitted' /\ BatchesOK'
      BY DEF IInv, PhasesOK, HandledAlone, OnlyCommitted, BatchesOK
    <3>3. EffectOnce' /\ NothingDropped'
      BY DEF IInv, EffectOnce, NothingDropped, OnItsWay, Unfinished
    <3>4. TriesCounted'
      BY DEF IInv, TriesCounted, Trying, Left
    <3> QED  BY <3>1, <3>2, <3>3, <3>4 DEF IInv
  <2> QED  BY <2>1, <2>2, <2>3, <2>4, <2>5 DEF Next
<1> QED  BY <1>1, InitIInv, PTL DEF Spec

\* The stream, the group and the consumers' memory fit together.
THEOREM TypeCorrect == Spec => []TypeOK
<1>1. IInv => TypeOK
  BY DEF IInv
<1> QED  BY <1>1, Invariant, PTL

\* However many copies of an event several consumers handle at once, and
\* wherever they crash, the handler's transaction commits once.
THEOREM EffectsHappenOnce == Spec => []EffectOnce
<1>1. IInv => EffectOnce
  BY DEF IInv
<1> QED  BY <1>1, Invariant, PTL

\* A committed event can still be delivered until it has taken effect or is in
\* dead_letters; only trimming loses one.
THEOREM EventsAreKept == Spec => []NothingDropped
<1>1. IInv => NothingDropped
  BY DEF IInv
<1> QED  BY <1>1, Invariant, PTL

\* A handler raises for a message at most MaxDelivery + 1 times.
THEOREM TriesBounded == Spec => []TriesAreBounded
<1>1. IInv => TriesAreBounded
  <2> SUFFICES ASSUME IInv, NEW m \in Messages
               PROVE  fails[m] <= MaxDelivery + 1
    BY DEF TriesAreBounded
  <2>1. /\ IsFiniteSet(Trying(m)) /\ TypeOK
        /\ fails[m] + Cardinality(Trying(m)) + Left(m) <= MaxDelivery + 1
    BY DEF IInv, TriesCounted
  <2>2. Cardinality(Trying(m)) \in Nat /\ Left(m) \in Nat
    BY <2>1, FS_CardinalityType, LeftIsNat
  <2>3. fails[m] \in Nat /\ MaxDelivery \in Nat
    BY <2>1, BoundsAssumption DEF TypeOK
  <2> QED  BY <2>1, <2>2, <2>3
<1> QED  BY <1>1, Invariant, PTL

-----------------------------------------------------------------------------
(* The refinement of EventEffects, safety part.                            *)

Committed == {e \in Events : outbox[e] # "none"}

\* KeepsPromise without the fairness of EventEffects.
PromiseSafety == Promise!Init /\ [][Promise!Next]_(Promise!vars)

\* What the relay adds to cut are committed events.
LEMMA RelayReports ==
    ASSUME IInv, IInv', NEW e \in Events, RelayPublish(e) \/ RelayLosesMark(e)
    PROVE  [Promise!Next]_(Promise!vars)
<1>1. /\ outbox[e] = "queued" /\ outbox' \in {outbox, [outbox EXCEPT ![e] = "published"]}
      /\ cut \subseteq cut' /\ UNCHANGED <<effects, dead>>
      /\ TypeOK /\ TypeOK' /\ OnlyCommitted'
  BY DEF RelayPublish, RelayLosesMark, Publish, IInv, tables
<1>2. \A d \in Events : outbox'[d] = "none" <=> outbox[d] = "none"
  BY <1>1 DEF TypeOK
<1>3. Committed' = Committed
  BY <1>2 DEF Committed
<1> DEFINE S == cut' \ (dead \cup cut)
<1>4. S \subseteq Events /\ S \subseteq Committed
  BY <1>1, <1>2 DEF TypeOK, OnlyCommitted, Committed
<1>5. (dead \cup cut)' = (dead \cup cut) \cup S
  BY <1>1
<1>6. CASE S = {}
  BY <1>1, <1>3, <1>5, <1>6 DEF Promise!vars, Committed
<1>7. CASE S # {}
  <2>1. Promise!Report(S)
    BY <1>1, <1>3, <1>4, <1>5, <1>7 DEF Promise!Report, Committed
  <2> QED  BY <1>4, <2>1 DEF Promise!Next
<1> QED  BY <1>6, <1>7

\* Every step of the bus is a step of EventEffects or leaves its state alone.
LEMMA StepsRefine ==
    ASSUME IInv, IInv', [Next]_vars
    PROVE  [Promise!Next]_(Promise!vars)
<1>1. ASSUME NEW e \in Events, EnqueueEvent(e)
      PROVE  [Promise!Next]_(Promise!vars)
  <2>1. /\ outbox[e] = "none" /\ outbox' = [outbox EXCEPT ![e] = "queued"]
        /\ UNCHANGED <<effects, dead, cut>> /\ TypeOK
    BY <1>1 DEF EnqueueEvent, IInv, tables, stream
  <2>2. e \notin Committed /\ Committed' = Committed \cup {e}
    BY <2>1 DEF Committed, TypeOK
  <2>3. Promise!Commit(e)
    BY <2>1, <2>2 DEF Promise!Commit, Committed
  <2> QED  BY <2>3 DEF Promise!Next
<1>2. ASSUME NEW e \in Events, RelayPublish(e) \/ RelayLosesMark(e)
      PROVE  [Promise!Next]_(Promise!vars)
  BY <1>2, RelayReports
<1>3. ASSUME NEW c \in Consumers, DispatchCommits(c)
      PROVE  [Promise!Next]_(Promise!vars)
  <2> DEFINE e == copy[now[c].msg]
  <2>1. /\ now[c].phase = "handle"
        /\ effects' = [effects EXCEPT ![e] = @ + 1]
        /\ UNCHANGED <<outbox, dead, cut>>
        /\ TypeOK /\ PhasesOK /\ OnlyCommitted /\ EffectOnce
    BY <1>3 DEF DispatchCommits, IInv, stream
  <2>2. e \in Events /\ e \notin processed /\ outbox[e] # "none"
    BY <2>1, BusyConsumer DEF PhasesOK, OnlyCommitted
  <2>3. effects[e] = 0
    BY <2>1, <2>2 DEF EffectOnce
  <2>4. effects' = [effects EXCEPT ![e] = 1]
    BY <2>1, <2>3
  <2>5. Promise!Apply(e)
    BY <2>1, <2>2, <2>3, <2>4 DEF Promise!Apply
  <2> QED  BY <2>2, <2>5 DEF Promise!Next
<1>4. ASSUME NEW c \in Consumers, RecordDeadLetter(c)
      PROVE  [Promise!Next]_(Promise!vars)
  <2> DEFINE e == copy[now[c].msg]
  <2>1. /\ now[c].phase = "record" /\ dead' = dead \cup {e}
        /\ UNCHANGED <<outbox, effects, cut>>
        /\ TypeOK /\ OnlyCommitted
    BY <1>4 DEF RecordDeadLetter, IInv, stream
  <2>2. e \in Events /\ outbox[e] # "none"
    BY <2>1, BusyConsumer DEF OnlyCommitted
  <2> HIDE DEF e
  <2>3. CASE e \in dead \cup cut
    BY <2>1, <2>3 DEF Promise!vars
  <2>4. CASE e \notin dead \cup cut
    <3>1. Promise!Report({e})
      BY <2>1, <2>2, <2>4 DEF Promise!Report
    <3> QED  BY <2>2, <3>1 DEF Promise!Next
  <2> QED  BY <2>3, <2>4
<1>5. ASSUME NEW c \in Consumers,
             \/ RunOnceSome(c) \/ \E d \in hand[c] : Begin(c, d[1], d[2])
             \/ DispatchRaises(c) \/ Ack(c) \/ AckRaises(c) \/ DeadLetter(c) \/ Crash(c)
      PROVE  [Promise!Next]_(Promise!vars)
  <2>1. UNCHANGED <<outbox, effects, dead, cut>>
    BY <1>5 DEF RunOnceSome, RunOnce, Begin, DispatchRaises, Ack, AckRaises, DeadLetter, Crash,
                stream, tables
  <2> QED  BY <2>1 DEF Promise!vars
<1>6. CASE UNCHANGED vars
  BY <1>6 DEF vars, Promise!vars
<1> QED  BY <1>1, <1>2, <1>3, <1>4, <1>5, <1>6 DEF Next

\* The bus does nothing EventEffects does not allow: no effect twice or before
\* its producer's commit, nothing given up that was never committed, and what is
\* given up stays so.
THEOREM RefinesEventEffects == Spec => PromiseSafety
<1>1. Init => Promise!Init
  BY DEF Init, Promise!Init
<1> QED  BY <1>1, Invariant, StepsRefine, PTL DEF Spec, PromiseSafety
=============================================================================
