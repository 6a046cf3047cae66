SPECIFICATION ProcFairSpec
CONSTANTS
  Block <- mcBlock
  Genesis = "g"
  Prev <- mcPrev
  Anc <- mcAnc
  Height <- mcHeight
  ChainTrust <- mcChainTrust
  Tx <- mcTx
  vtx <- mcvtx
  vin <- mcvin
  OutPoint <- mcOutPoint
  nValue <- mcnValue
  Generated <- mcTx
  BadTx = {}
  BadBlock <- mcBadBlock
  Maturity = 1
  None = None
  Stake <- mcStake
  Size <- mcSize
  Unacceptable <- mcUnacceptable
  MaxOrphanSize = 1
  nTime <- mcnTime
  GoodKernel <- mcGoodKernel
  nFirstPosv3Block = 0
  nStakeMinConfirmations = 2
  nCheckpointSpan = 2
  MaxCrash = 1
INVARIANTS OrphansConsistent OrphanStakesHeld OrphansAwaitParent
PROPERTIES CatchesUp ImplementsLedger
CHECK_DEADLOCK FALSE
