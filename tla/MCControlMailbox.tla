--------------------------- MODULE MCControlMailbox ---------------------------
(***************************************************************************)
(* Requests about two goals, served by one or two plugin processes.         *)
(***************************************************************************)
EXTENDS ControlMailbox, TLC

CONSTANTS s1, s2, g1, g2

OneServer == {s1}
TwoServers == {s1, s2}
FirstApart == [r \in Requests |-> IF r = 1 THEN g1 ELSE g2]
NoGoals == {}
FirstGoal == {g1}
=============================================================================
