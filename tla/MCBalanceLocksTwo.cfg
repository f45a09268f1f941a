\* Two worker replicas in one consumer group.
SPECIFICATION Spec
CONSTANTS
  Consumers = {c1, c2}
  Clients = {a1}
  Users = {1, 2}
  ab = ab
  ba = ba
  bc = bc
  ca = ca
  Transfers = {ab, ba}
  From <- MCFrom
  To <- MCTo
INVARIANT
  CannotDeadlock
