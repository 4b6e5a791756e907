SPECIFICATION Spec
CONSTANTS
  w1 = w1
  w2 = w2
  o1 = o1
  o2 = o2
  None = None
  Partial = Partial
  Failed = Failed
  Workers <- MCWorkers
  Options <- MCOptions
  N = 2
  Concurrent = TRUE
  StatFails = FALSE
  MaxRewrites = 1
  MaxFailures = 0
  MaxCrashes = 0
INVARIANT
  RecordsHonest
