SPECIFICATION Spec
CONSTANTS
  p1 = p1
  p2 = p2
  p3 = p3
  p4 = p4
  Unreadable = Unreadable
  Missing = Missing
  Patch <- MCPatch
  BugOf <- MCBugOf
  ToolOf <- MCToolOf
  IndexOf <- MCIndexOf
  ProjectOf <- MCProject
  Raw <- MCRaw
  Context = 1
  Originals <- MCOriginals
  Policies <- MCPolicies
  MaxBuilds = 2
  Checkpoints <- MCCheckpoints
  NSplits = 2
  Unit = 2
INVARIANTS DuplicatesShareLabel EveryCheckpointAccounted PvsOfItsJudgement NoTwinAcrossFolds RankIsExpectation
CHECK_DEADLOCK FALSE
