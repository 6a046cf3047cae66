SPECIFICATION Spec
CONSTANTS
  Addr <- mcPeer
  Name <- mcNoName
  Ways <- mcTwoWays
  Opener <- mcTwo
  MaxOutbound = 2
  MaxInbound = 1
  MaxNode = 2
INVARIANTS
  NoDuplicateOutbound
