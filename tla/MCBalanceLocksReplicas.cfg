\* Three worker replicas in one consumer group, and three transfers of which no
\* two are opposite.
SPECIFICATION Spec
CONSTANTS
  Consumers = {c1, c2, c3}
  Clients = {a1}
  Users = {1, 2, 3}
  ab = ab
  ba = ba
  bc = bc
  ca = ca
  Transfers = {ab, bc, ca}
  From <- MCFrom
  To <- MCTo
INVARIANTS
  TypeOK
  DecisionsStayValid
  OnlySettlementsDeadlock
