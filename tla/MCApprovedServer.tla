-------------------------- MODULE MCApprovedServer --------------------------
(***************************************************************************)
(* One server name, two concurrent callers, and up to three processes.      *)
(***************************************************************************)
EXTENDS ApprovedServer, TLC

NoFault == {}
AnyFault == {"start", "crash", "remove"}
Alike == Permutations(Callers)
=============================================================================
