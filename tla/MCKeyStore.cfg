SPECIFICATION FairSpec
CONSTANTS
  Passphrases = {p, q}
  StealthAddrs = {a, b}
  InitKeys = {0, 1}
  PoolSize = 1
  MaxKeys = 4
  MaxMaster = 2
  MaxQueued = 2
  MaxCrash = 1
INVARIANTS WalletFileSound LockState
PROPERTIES UnlockWorks
