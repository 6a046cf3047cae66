SPECIFICATION FairDownloadSpec
CONSTANTS
  Peer <- mcOne
  Slow <- mcNone
  Top = 5
  Start = 4
  Sides <- mcSides
  Span = 2
  Limit = 2
  MultiBlock = 2
  SyncGap = 1
  fInitial = FALSE
  MaxDrop = 1
INVARIANTS
  DownloadSound
PROPERTIES
  AnnouncedArrives
  CatchesUp
