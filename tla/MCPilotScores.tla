---------------------------- MODULE MCPilotScores ----------------------------
EXTENDS PilotScores, TLC

CONSTANTS p1, p2, j1

MCPatch == {p1, p2}
MCJudged == {j1}

Alike == Permutations(MCPatch)
=============================================================================
