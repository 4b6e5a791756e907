SPECIFICATION Spec
CONSTANTS
  MaxCalls = 2
  HardTimeout = FALSE
INVARIANTS
  JumpsLand
