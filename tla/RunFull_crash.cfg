\* Two bugs in two workers, killed, aborted or raising, and run again.
SPECIFICATION FairSpec
CONSTANTS
  p1 = p1  p2 = p2  p3 = p3  b1 = b1  b2 = b2  b3 = b3
  NoPatch = NoPatch  NoBug = NoBug
  Patch = {p1, p2, p3}
  Bug = {b1, b2}
  BugOf <- MCBugOf
  Workers = 2
  Selections <- AllPatches
  Retries <- Both
  InitDisks <- FirstRunDisks
  ApplyOut = {"raised", "applied"}
  AuxOut = {"ok"}
  SemOut = {"score", "billing"}
  ArmOut = {"ok"}
  MaxStarts = 2
  MaxRaises = 1
INVARIANTS RecordedBeforeUse TreesAreWhole
PROPERTIES PassEnds LedgerSpec RowsOnlyByOwner
CHECK_DEADLOCK FALSE
