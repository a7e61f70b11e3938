SPECIFICATION Spec
CONSTANTS
  p1 = p1
  p2 = p2
  j1 = j1
  Patch <- MCPatch
  Judged <- MCJudged
  MaxSessions = 4
  Killable = TRUE
SYMMETRY Alike
INVARIANTS PvsIsOfItsRow RescoreSettles FoldedOnce PilotCovers
PROPERTY LogKeepsDone
CHECK_DEADLOCK FALSE
