\* Chat of three connections in two sessions, fanned out by two workers.
SPECIFICATION Spec
CONSTANTS
  Clients = {c1, c2, c3}
  Keys = {}
  Workers = {w1, w2}
  NoClient = NoClient
  MaxConnections = 3
  SessionSize = 2
  MaxSubscriptions = 1
  ChatRingSize = 2
  SendCapacity = 2
  ChatCapacity = 1
  BeltCapacity = 1
  MaxChats = 1
  Ticking = FALSE
INVARIANTS
  SessionsAccounted
  RingsFollowSessions
  SessionIsolation
  RingIsRecentChat
  ChatComplete
PROPERTY
  SessionsNeverReopened
CHECK_DEADLOCK FALSE
SYMMETRY Symmetry
