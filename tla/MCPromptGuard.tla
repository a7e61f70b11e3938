---------------------------- MODULE MCPromptGuard ----------------------------
EXTENDS PromptGuard, TLC

CONSTANTS i1, i2, i3, f1, f2

MCItem     == {i1, i2, i3}
MCFile     == {f1, f2}
MCPriority == {1, 3, 7}
MCTokens   == {1, 2}
MCBudget   == 1..4
MCOverhead == {0}

Alike == Permutations(MCItem) \cup Permutations(MCFile)
=============================================================================
