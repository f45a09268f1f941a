\* One transfer between two users, from the request to its end: t1 is sent from
\* an address in custody, t2 from one that is not ours. The single key and the
\* single deposit let a behaviour have one of the two.
SPECIFICATION SettlementSpec
CONSTANTS
  Transfers = {t1, t2}
  Custodied = {t1}
  Broadcasters = {b1}
  MaxAttempts = 2
  Required = 2
  Finality = 3
  Limit = 2
  MaxHead = 4
  MaxReorgs = 1
  MaxDepth = 2
  MaxFaults = 1
  Users = {1, 2}
  Nobody = Nobody
  Keys = {k1}
  Payer = 1
  Amount = 1
INVARIANTS
  TypeOK
  EventsMatchRecord
  RetryBudgetIsFinite
  ServicesAgree
  RefusalsAreTrue
  DebitsAreMined
PROPERTY
  WatchedHoldsAreReleased
CHECK_DEADLOCK FALSE
