SPECIFICATION FairSpec
CONSTANTS
  t1 = t1
  t2 = t2
  None = None
  Threads <- MCThreads
  Programs <- AllPrograms
  MaxParts = 2
  MaxCalls = 3
INVARIANTS
  GuardHeld
  StatusTells
  OutputsWholeUnlessEarly
PROPERTY
  CallsReturn
