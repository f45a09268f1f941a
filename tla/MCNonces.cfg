\* Two transfers of one address, a gas price that moves.
SPECIFICATION Spec
CONSTANTS
  Transfers = {t1, t2}
  Prices = {1, 2}
  MaxAttempts = 2
INVARIANT
  RecordedHashesAreKnown
CHECK_DEADLOCK FALSE
