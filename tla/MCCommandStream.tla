-------------------------- MODULE MCCommandStream --------------------------
(* Instances of CommandStream for TLC. *)
EXTENDS CommandStream, TLC

CONSTANTS s1, s2, h1, h2

OneSocket  == {s1}
TwoSockets == {s1, s2}
TwoSinks   == {h1, h2}

\* Nothing tells one socket or one broker entry from another.
Alike == Permutations(TwoSockets) \cup Permutations(TwoSinks)
============================================================================
