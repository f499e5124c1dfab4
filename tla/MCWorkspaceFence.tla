-------------------------- MODULE MCWorkspaceFence --------------------------
(***************************************************************************)
(* Two goals of one owner, a stranger, and a few tool calls.  The contracts *)
(* overlap in one file, or own everything.                                  *)
(***************************************************************************)
EXTENDS WorkspaceFence, TLC
CONSTANT f1

Scoped(files) == [mode |-> "scoped", scope |-> files]
AnyContract == {Scoped({f1}), Scoped({}), [mode |-> "whole", scope |-> {}]}
Alike == Permutations(Goals) \cup Permutations(Calls)
=============================================================================
