\* Two patches of two runs; three programs, killed anywhere.
SPECIFICATION FairSpec
CONSTANTS
  Patch = {p1, p2}
  NRuns = 2
  MaxRetries = 2
  MaxSessions = 3
INVARIANTS RerunReuses PassCovers TableAgrees
PROPERTIES SessionEnds
CHECK_DEADLOCK FALSE
