SPECIFICATION GuardSpec
CONSTANTS
  i1 = i1
  i2 = i2
  i3 = i3
  f1 = f1
  f2 = f2
  Item <- MCItem
  File <- MCFile
  Priority <- MCPriority
  Tokens <- MCTokens
  Budget <- MCBudget
  Overhead <- MCOverhead
  MaxCarriers = 2
SYMMETRY Alike
INVARIANTS OverOnlyByMandatory DroppedInOrder NothingNeedless JudgedByItsText FixLineNeverSent OracleNeverSent
CHECK_DEADLOCK FALSE
