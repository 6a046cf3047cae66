SPECIFICATION FairSpec
CONSTANTS
  Node <- mcNode
  Peers <- mcPeers
  Msg = {1, 2, 3}
  From <- mcFrom
  KeyOf <- mcKeyOf
  Old = {}
  LockCount = 1
  MaxBunch = 1
  Scenarios <- mcScenarios
  Frail = {"a"}
INVARIANTS MessagesKept
PROPERTIES BucketsConverge 
CHECK_DEADLOCK FALSE
