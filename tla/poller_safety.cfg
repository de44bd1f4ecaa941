SPECIFICATION Spec
CONSTANTS
  Openers = {o1, o2}
  Stoppers = {stopper}
  Task = task
  Reader = reader
  QuebufSize = 1024
  Builds = {"plain"}
  Events = {"abandon", "close_session", "stop", "fail", "cancel"}
  None = None
SYMMETRY OpenerSymmetry
PROPERTIES
  ImplementsCustody
INVARIANTS
  TaskNotForgotten
  NoSessionLost
  EndedClosesAll
  OpenFailsOnlyIfAsked
CHECK_DEADLOCK FALSE
