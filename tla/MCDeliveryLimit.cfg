\* One consumer, one poisoned event, no fault and nothing trimmed.
SPECIFICATION Spec
CONSTANTS
  Events = {p1}
  Poison = {p1}
  Consumers = {c1}
  MaxDelivery = 2
  BatchSize = 1
  MaxLen = 2
  MaxMessages = 2
  MaxFaults = 0
INVARIANT
  FailsWithinLimit
CHECK_DEADLOCK FALSE
