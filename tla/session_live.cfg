SPECIFICATION FairSpec
CONSTANTS
  Reader = reader
  Writer = writer
  Closer = closer
  WriterOps = {"send", "flush"}
  Wnd = 1
  MaxAvail = 1
  Timeout = 1
  CloseDelay = 1
  MaxIdle = 2
  MaxInputs = 0
  None = None
PROPERTIES
  ReadReturns
  SendReturns
  DroppedIsReclaimed
CHECK_DEADLOCK FALSE
