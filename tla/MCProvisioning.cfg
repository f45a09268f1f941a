\* Two requests for one wallet and one for a second network, with lost answers
\* and dead processes.
SPECIFICATION Spec
CONSTANTS
  Users = {1, 2}
  Mailbox <- MCMailbox
  Networks = {"BSC", "ETH"}
  Clients = {"c1", "c2", "c3"}
  AsksFor <- MCAsksFor
  MaxAttempts = 2
  MaxFaults = 1
INVARIANTS
  TypeOK
  NoStrandedKeys
  WalletsAreCustodied
  AddressIsStable
PROPERTY
  EveryUserGetsAWallet
CHECK_DEADLOCK FALSE
