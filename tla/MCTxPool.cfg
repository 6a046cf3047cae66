SPECIFICATION PoolSpec
CONSTANTS
  Block <- mcBlock
  Genesis = "g"
  Prev <- mcPrev
  Anc <- mcAnc
  Height <- mcHeight
  ChainTrust <- mcChainTrust
  Tx <- mcTx
  vtx <- mcvtx
  vin <- mcvin
  OutPoint <- mcOutPoint
  nValue <- mcnValue
  Generated <- mcGenerated
  BadTx = {}
  BadBlock = {}
  Maturity = 1
  None = None
  MaxOrphanTx = 2
  NonStandard <- mcGenerated
  LowFee = {"t8"}
INVARIANTS PoolConsistent OrphanTxsConsistent
PROPERTIES NothingLost ReorgEvictsConflicts
CHECK_DEADLOCK FALSE
