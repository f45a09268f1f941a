\* One deposit through reorganisations, mined again with the same log index or
\* another one; one pass that fails.
SPECIFICATION Spec
CONSTANTS
  Txs = {1}
  Required = 2
  Finality = 3
  Safety = 4
  ScanBatch = 2
  MaxAhead = 1
  MaxHash = 5
  MaxReorgs = 1
  MaxDepth = 2
  MaxFaults = 1
INVARIANTS
  TypeOK
  CreditsMatchRows
  CalmCreditsAreDeep
PROPERTY
  CalmDepositsAreCredited
CHECK_DEADLOCK FALSE
