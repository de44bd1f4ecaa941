SPECIFICATION FairSpec
CONSTANTS
  Openers = {o1, o2}
  Stoppers = {stopper}
  Task = task
  Reader = reader
  QuebufSize = 1024
  Builds = {"plain", "multi_thread"}
  Events = {"fail"}
  None = None
PROPERTIES
  OpenReturns
  OpenedIsServed
  HeldIsUpdated
  StopEnds
CHECK_DEADLOCK FALSE
