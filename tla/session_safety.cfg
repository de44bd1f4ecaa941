SPECIFICATION Spec
CONSTANTS
  Reader = reader
  Writer = writer
  Closer = closer
  WriterOps = {"send", "close"}
  Wnd = 1
  MaxAvail = 1
  Timeout = 0
  CloseDelay = 0
  MaxIdle = 1
  MaxInputs = 1
  None = None
INVARIANTS
  PendingRegistered
  ServedIsWoken
  WokenOnClose
  HalfClosedIsTransient
PROPERTY
  KeepsCustody
CHECK_DEADLOCK FALSE
