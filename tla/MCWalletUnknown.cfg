\* A deposit is confirmed while create_wallet is between its two halves.
SPECIFICATION Spec
CONSTANTS
  Users = {1, 2}
  Nobody = Nobody
  TransferIds = {t1}
  ForeignIds = {}
  Keys = {k1}
  Amounts = {1, 2}
  Deposits = {d1}
  Blocks = {b1, b2}
  Owner <- MCOwner
  MinedIn <- MCMinedIn
  DepositAmount <- MCDepositAmount
  FailureCodes = {c1}
INVARIANT
  DepositsAreOurs
