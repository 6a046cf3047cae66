SPECIFICATION AddrManSpec
CONSTANTS
  Addr <- mcAddr
  Source <- mcSource
  NewBuckets = 2
  TriedBuckets = 1
  GetNewBucket <- mcGetNewBucket
  GetTriedBucket <- mcGetTriedBucket
  NewBucketSize = 1
  TriedBucketSize = 1
  NewBucketsPerAddress = 2
  InspectOnEvict = 2
  GetAddrMaxPct = 50
  GetAddrMax = 2
  MaxTime = 2
  MaxId = 4
INVARIANTS TablesConsistent
PROPERTIES RestartKeepsTables TriedNeverDeleted
