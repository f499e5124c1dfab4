----------------------------- MODULE MCStateLock -----------------------------
(***************************************************************************)
(* Two plugin processes on one state file: c1 and c4 are calls of p1, c2    *)
(* and c3 of p2; c4 may be a force_complete_goal, which takes no lock.      *)
(***************************************************************************)
EXTENDS StateLock, TLC

CONSTANTS c1, c2, c3, c4, p1, p2

LockedCalls == {c1, c2, c3}
TwoLockedOneDirect == {c1, c2, c4}
ThreeLockedOneDirect == {c1, c2, c3, c4}
NoDirectCalls == {}
OneDirectCall == {c4}
MCProcesses == {p1, p2}
TwoProcesses == [c \in Calls |-> IF c \in {c1, c4} THEN p1 ELSE p2]
=============================================================================
