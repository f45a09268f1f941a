\* The same without the assumption about torn passes.
SPECIFICATION Spec
CONSTANTS
  Txs = {1}
  Required = 2
  Finality = 3
  Safety = 4
  ScanBatch = 2
  MaxAhead = 0
  MaxHash = 5
  MaxReorgs = 1
  MaxDepth = 2
  MaxFaults = 0
PROPERTY
  EverySettledDepositIsCredited
CHECK_DEADLOCK FALSE
