\* Two replicas, a good and a poisoned event, faults anywhere, a stream that
\* holds fewer messages than are published.
SPECIFICATION Spec
CONSTANTS
  Events = {e1, p1}
  Poison = {p1}
  Consumers = {c1, c2}
  MaxDelivery = 2
  BatchSize = 2
  MaxLen = 1
  MaxMessages = 4
  MaxFaults = 1
INVARIANTS
  TypeOK
  EffectOnce
  NothingDropped
  TriesAreBounded
PROPERTY
  KeepsPromise
\* When every event is delivered the consumers poll and nothing happens.
CHECK_DEADLOCK FALSE
