---------------------------- MODULE MCGoalRuns ----------------------------
EXTENDS GoalRuns, TLC

CONSTANTS r1, r2, c1, c2

MCRuns == {r1, r2}
MCCallers == {c1, c2}
Ids == Permutations(MCRuns) \cup Permutations(MCCallers)
=============================================================================
