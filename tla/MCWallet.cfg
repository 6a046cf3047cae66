SPECIFICATION WalletSpec
CONSTANTS
  Block <- mcBlock
  Genesis = "g"
  Prev <- mcPrev
  Anc <- mcAnc
  Height <- mcHeight
  ChainTrust <- mcChainTrust
  Tx <- mcTx
  vtx <- mcvtx
  vin <- mcvin
  OutPoint <- mcOutPoint
  nValue <- mcnValue
  Generated <- mcGenerated
  BadTx = {}
  BadBlock <- mcBadBlock
  Maturity = 1
  None = None
  Mine <- mcMine
  Made <- mcMade
  WalletMaturity = 2
  Repair = TRUE
  MaxCrash = 1
INVARIANTS WalletFollowsChain
PROPERTIES RestartFlags
CHECK_DEADLOCK FALSE
