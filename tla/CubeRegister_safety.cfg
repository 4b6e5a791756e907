SPECIFICATION RunFairSpec
CONSTANTS
  N = 4
  Layouts <- MCLayouts
  Radii = {0, 1}
  Phases = {0, 1}
  Groups = {0, 1}
  Scenes <- MCScenes
  Limits = {0, 3}
  min_pairs = 2
  min_group_pairs = 1
  sweeps = 3
  Team = 1
  RR_POLISH_MAX_THREADS = 2
  Corrections = {}
INVARIANTS
  EveryCubeOnce
  AttachedToPlaced
  ComponentsExact
  SpiralSweep
  SeamsClose
  PairedRegistered
  SweepSettles
PROPERTY
  ScheduleReturned
