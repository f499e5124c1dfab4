--------------------------- MODULE MCCommandSession ---------------------------
(***************************************************************************)
(* Two tool calls at a time of one owner, for one or two commands.          *)
(***************************************************************************)
EXTENDS CommandSession, TLC

Plain == [watch |-> "none", limit |-> FALSE, always |-> FALSE]
Unlimited == {Plain, [Plain EXCEPT !.watch = "stop"]}
Ending == {[Plain EXCEPT !.limit = TRUE], [Plain EXCEPT !.watch = "stop", !.always = TRUE]}
OnlyStop == {[Plain EXCEPT !.watch = "stop"]}
Alike == Permutations(Callers)
=============================================================================
