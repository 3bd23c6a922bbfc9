\* Two browsers, a change of tracks each, and one loss, move or barring.
SPECIFICATION MeshSpec
CHECK_DEADLOCK FALSE
CONSTANTS
  MaxTracks = 1
  MaxTrouble = 1
  MaxQueue = 2
  Generations = 3
  None = None
INVARIANT
  NegotiationAgrees
PROPERTIES
  EventuallyConnected
  SessionsFollowPresence
