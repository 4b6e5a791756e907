SPECIFICATION RunFairSpec
CONSTANTS
  N = 4
  Layouts <- MCRing
  Radii = {0}
  Phases = {0}
  Groups = {0}
  Scenes <- MCRunaway
  Limits = {0}
  min_pairs = 1
  min_group_pairs = 1
  sweeps = 8
  Team = 1
  RR_POLISH_MAX_THREADS = 2
  Corrections = {}
INVARIANT
  CannotRunAway
