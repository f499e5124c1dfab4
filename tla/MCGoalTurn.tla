----------------------------- MODULE MCGoalTurn -----------------------------
EXTENDS GoalTurn, TLC
=============================================================================
