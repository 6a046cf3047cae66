SPECIFICATION FairSpec
CONSTANTS
  Block <- mcBlock
  Genesis = "g"
  Prev <- mcPrev
  Anc <- mcAnc
  Height <- mcHeight
  ChainTrust <- mcChainTrust
  Tx <- mcTx
  vtx <- mcvtx
  vin <- mcvin
  OutPoint <- mcOutPoint
  nValue <- mcnValue
  Generated <- mcGenerated
  BadTx = {}
  BadBlock <- mcBadBlock
  Maturity = 1
  None = None
  MaxCrash = 2
INVARIANTS TypeOK LedgerExact LinksExact BestOnDiskUnlessBroke SpentOnce IndexMatchesReplay BestIsHeaviestValid
PROPERTIES NeverLighter HandlerReturns
CHECK_DEADLOCK FALSE
