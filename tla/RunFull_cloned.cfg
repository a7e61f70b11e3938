\* A clone whose status CSV is older than its workspaces.
SPECIFICATION Spec
CONSTANTS
  p1 = p1  p2 = p2  p3 = p3  b1 = b1  b2 = b2  b3 = b3
  NoPatch = NoPatch  NoBug = NoBug
  Patch = {p1, p2, p3}
  Bug = {b1, b2}
  BugOf <- MCBugOf
  Workers = 2
  Selections <- AllPatches
  Retries = {FALSE}
  InitDisks <- ClonedDisk
  ApplyOut = {"applied"}
  AuxOut = {"ok"}
  SemOut = {"score", "billing"}
  ArmOut = {"ok"}
  MaxStarts = 2
  MaxRaises = 0
INVARIANT TreesAreWhole
CHECK_DEADLOCK FALSE
