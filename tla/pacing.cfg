SPECIFICATION Spec
CONSTANTS
  Sessions = {s1, s2}
  Clock = 16
  Interval = 2
  Slow = 1
  Timeout = 3
  CloseDelay = 2
  Start = 12
  MaxTime = 21
INVARIANTS
  UpdatedInTime
  TimeoutInTime
  PanicsOnlyAtWrap
PROPERTIES
  SkipsOnlyPastWrap
SYMMETRY Symmetry
VIEW View
CHECK_DEADLOCK FALSE
