\* Three connections, one more than the limit, subscribe and leave.
SPECIFICATION Spec
CONSTANTS
  Clients = {c1, c2, c3}
  Keys = {k1, k2}
  Workers = {w1}
  NoClient = NoClient
  MaxConnections = 2
  SessionSize = 2
  MaxSubscriptions = 1
  ChatRingSize = 1
  SendCapacity = 1
  ChatCapacity = 1
  BeltCapacity = 1
  MaxChats = 0
  Ticking = FALSE
INVARIANTS
  TypeOK
  ConnectionsCounted
  SubscriptionsMatch
  NoStaleSubscriber
CHECK_DEADLOCK FALSE
SYMMETRY Symmetry
