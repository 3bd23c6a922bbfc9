\* Two connections come and go while the presence ticker runs.
SPECIFICATION FairSpec
CONSTANTS
  Clients = {c1, c2}
  Keys = {k1}
  Workers = {w1}
  NoClient = NoClient
  MaxConnections = 2
  SessionSize = 2
  MaxSubscriptions = 1
  ChatRingSize = 2
  SendCapacity = 2
  ChatCapacity = 1
  BeltCapacity = 1
  MaxChats = 0
  Ticking = TRUE
PROPERTIES
  PresenceConverges
  ClosedIsForgotten
CHECK_DEADLOCK FALSE
