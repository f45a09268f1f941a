\* One transfer, no reorganisation and no failed pass: the watcher is away while
\* the chain grows.
SPECIFICATION Spec
CONSTANTS
  Transfers = {t1}
  Custodied = {t1}
  Broadcasters = {b1}
  MaxAttempts = 2
  Required = 2
  Finality = 3
  Limit = 2
  MaxHead = 5
  MaxReorgs = 0
  MaxDepth = 1
  MaxFaults = 0
PROPERTY
  EveryRequestEnds
CHECK_DEADLOCK FALSE
