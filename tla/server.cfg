SPECIFICATION FairSpec
CONSTANTS
  Streams = {s1, s2}
  Keys = {k1, k2}
  None = None
INVARIANTS
  OneSessionPerPeer
  MappedIsOwned
  DropClosesAll
  AbortsOnlyInRace
PROPERTIES
  ImplementsCustody
  ImplementsRegistry
  ReaderReturns
  PeerMayReturn
CHECK_DEADLOCK FALSE
