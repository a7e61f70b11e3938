\* One bug, every outcome of every stage, every kind of pass and of files found.
SPECIFICATION Spec
CONSTANTS
  p1 = p1  p2 = p2  p3 = p3  b1 = b1  b2 = b2  b3 = b3
  NoPatch = NoPatch  NoBug = NoBug
  Patch = {p1, p2}
  Bug = {b1}
  BugOf <- OneBugOf
  Workers = 1
  Selections <- AnyPatches
  Retries <- Both
  InitDisks <- FirstRunDisks
  ApplyOut = {"raised", "rejected", "applied"}
  AuxOut = {"raised", "ok"}
  SemOut = {"raised", "null", "score", "billing"}
  ArmOut = {"raised", "error", "ok", "billing"}
  MaxStarts = 2
  MaxRaises = 1
INVARIANTS AbortedIsRedone CleanExitCovers CheckpointHasRow ProgressAddsUp
CHECK_DEADLOCK FALSE
