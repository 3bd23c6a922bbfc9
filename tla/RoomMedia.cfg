\* Two browsers watch two videos; one transition.
SPECIFICATION RoomMediaSpec
CHECK_DEADLOCK FALSE
CONSTANTS
  Watchers = {w1, w2}
  MaxVideos = 2
  MaxSays = 1
  MaxTurns = 1
  None = None
INVARIANT
  PopsAreMeant
