\* Every page of the browser, one at a time, with the server behind it.
SPECIFICATION Spec
CHECK_DEADLOCK FALSE
CONSTANTS
  MaxFlight = 2
  MaxPush = 1
  MaxChanges = 1
  None = None
  MaxEdit = 1
  MaxKeys = 2
  MaxSpoken = 3
  MaxStreams = 3
  MaxSections = 2
  MaxItems = 2
  MaxIds = 5
  Sites = {a, b}
  MaxJobs = 2
  Slugs = {x, y}
  MaxEdits = 1
  MaxEditors = 1
  Groups = {g}
  Direct = {d}
SYMMETRY Symmetry
INVARIANTS
  SpinnersEnd
  NoJobMissed
  HeldWhileEditing
  RecordedOnce
  NarratesWhatIsShown
  NoIdleQueue
  ActiveHasStream
PROPERTY
  ResponsesKept
