SPECIFICATION FairSpec
CONSTANTS
  N = 6
  Pairs <- AllPairs
INVARIANTS
  OneRoot
  CountExact
  RankLogarithmic
PROPERTY
  CallsReturn
