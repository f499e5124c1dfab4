-------------------------- MODULE MCIdentitySwitch --------------------------
(***************************************************************************)
(* Three models, of which two are fallbacks, two agents, and two kinds of   *)
(* host: one that keeps model and agent, one that keeps the agent only.     *)
(***************************************************************************)
EXTENDS IdentitySwitch, TLC
CONSTANTS m1, m2, m3

Later == {m2, m3}
AnySurface == {{"model", "agent"}, {"agent"}}
Alike == Permutations(Agents) \cup Permutations(Later)
AnyFault == {"catalog", "status", "host", "state", "prompt", "crash"}
=============================================================================
