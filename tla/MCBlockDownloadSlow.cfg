SPECIFICATION FairDownloadSpec
CONSTANTS
  Peer <- mcTwo
  Top = 2
  Start = 1
  Sides <- mcNoSide
  Span = 2
  Limit = 1
  MultiBlock = 2
  SyncGap = 0
  fInitial = FALSE
  Slow <- mcSlow
  MaxDrop = 0
PROPERTIES
  AnnouncedArrives
