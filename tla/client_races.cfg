SPECIFICATION FairSpec
CONSTANTS
  Streams = {s1, s2}
  Keys = {1, 2}
  MaxConv = 2
  MaxOpening = 2
  MaxRefused = 1
  Stoppers = {"owner"}
  None = None
INVARIANTS
  CloseNotForgotten
PROPERTIES
  ImplementsCustody
  DroppedIsRemoved
CHECK_DEADLOCK FALSE
