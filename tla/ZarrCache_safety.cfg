SPECIFICATION FairSpec
CONSTANTS
  h1 = h1
  h2 = h2
  Nil = Nil
  Free = Free
  Fill = Fill
  Handles <- MCHandles
  Keys <- MCKeys
  Whole <- MCWhole
  Addresses <- MCAddresses
  Malloc <- MCMalloc
  Buckets = 2
  Cap = 2
  MaxMisses = 5
  MaxFailures = 1
INVARIANTS
  TypeOK
  RefsArePins
  PinsLive
  OneChunkPerKey
  StatsExact
  TableFinds
PROPERTIES
  ReadsTheVolume
  CallsReturn
