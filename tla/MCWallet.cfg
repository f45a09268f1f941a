\* Two transfers between two users, funded by one deposit; events
\* about a transfer that does not exist.
SPECIFICATION Spec
CONSTANTS
  Users = {1, 2}
  Nobody = Nobody
  TransferIds = {t1, t2, t3}
  ForeignIds = {t3}
  Keys = {k1, k2}
  Amounts = {1, 2}
  Deposits = {d1}
  Blocks = {b1}
  Owner <- MCOwner
  MinedIn <- MCMinedIn
  DepositAmount <- MCDepositAmount
  FailureCodes = {c1}
SYMMETRY MCSymmetry
INVARIANTS
  TypeOK
  Reconciled
  HoldsBackOpenTransfers
  TransfersFollowEvents
  PostingsFollowTransfers
  RepliesAreStable
  OnlyReversalsRaise
  DepositsFollowEvents
PROPERTY
  StatusMovesForward
