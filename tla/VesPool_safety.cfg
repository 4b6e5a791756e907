SPECIFICATION FairSpec
CONSTANTS
  a = a
  b = b
  h1 = h1
  h2 = h2
  Nil = Nil
  Announced <- MCOne
  Callers <- MCCallers
  Helpers <- MCHelpers
  CoreSettings <- MCSettings
  Works <- MCWorks
  MaxCalls = 2
  MaxSpurious = 1
INVARIANTS
  FramesOutliveUses
  SlotsPrivate
  QueueIsList
  SeatsConserved
  NoSeatSleeps
PROPERTIES
  RunReturns
  EveryIndexOnce
