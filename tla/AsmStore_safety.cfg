SPECIFICATION Spec
CONSTANTS
  w1 = w1
  w2 = w2
  o1 = o1
  o2 = o2
  None = None
  Partial = Partial
  Failed = Failed
  Workers <- MCWorkers
  Options <- MCOptions
  N = 2
  Concurrent = FALSE
  StatFails = TRUE
  MaxRewrites = 2
  MaxFailures = 1
  MaxCrashes = 1
SYMMETRY Symmetry
INVARIANTS
  RecordsHonest
  MergedFresh
PROPERTY
  CheckpointKept
