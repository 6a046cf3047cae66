SPECIFICATION FairSpec
CONSTANTS
  Addr <- mcPeer
  Name <- mcName
  Ways <- mcWays
  Opener <- mcOne
  MaxOutbound = 1
  MaxInbound = 1
  MaxNode = 2
INVARIANTS NodesSound GrantsHandled
PROPERTIES EventuallyGone
