SPECIFICATION RunSpec
CONSTANTS
  N = 4
  Layouts <- MCPolishLayouts
  Radii = {0}
  Phases = {0}
  Groups = {0, 1}
  Scenes <- MCPolishScenes
  Limits = {0}
  min_pairs = 2
  min_group_pairs = 1
  sweeps = 2
  Team = 2
  RR_POLISH_MAX_THREADS = 2
  Corrections <- MCCorrections
INVARIANT
  OneOutcome
PROPERTY
 PolishDefends
