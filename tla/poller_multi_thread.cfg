SPECIFICATION Spec
CONSTANTS
  Openers = {o1}
  Stoppers = {}
  Task = task
  Reader = reader
  QuebufSize = 1024
  Builds = {"multi_thread"}
  Events = {"abandon", "close_session", "stop", "fail", "cancel"}
  None = None
INVARIANTS
  OpenFailsOnlyIfAsked
CHECK_DEADLOCK FALSE
