SPECIFICATION FairSpec
CONSTANTS
  MaxCalls = 4
  HardTimeout = TRUE
INVARIANTS
  LeavesNoTrace
  JumpsLandUnlessExit
PROPERTIES
  ContainedOutsideWindows
  GuardedCallsEnd
