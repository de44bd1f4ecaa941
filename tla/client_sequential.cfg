SPECIFICATION Spec
CONSTANTS
  Streams = {s1, s2, s3}
  Keys = {1, 2}
  MaxConv = 2
  MaxOpening = 1
  MaxRefused = 1
  Stoppers = {"reader", "owner"}
  None = None
SYMMETRY StreamSymmetry
INVARIANTS
  MappedOrClosed
  OwnClose
  DropClosesAll
PROPERTIES
  ImplementsRegistry
CHECK_DEADLOCK FALSE
