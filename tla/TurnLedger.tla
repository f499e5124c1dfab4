------------------------------ MODULE TurnLedger ------------------------------
(***************************************************************************)
(* What a background goal promises its worker session: turns are opened one *)
(* after another, each sends the session at most one prompt, and a turn is  *)
(* opened only when the session holds no prompt of an earlier one.          *)
(*                                                                          *)
(* The promise has one exception the code cannot exclude.  A dispatch that  *)
(* times out has no receipt: its prompt is lost, and may arrive after the   *)
(* goal has moved on.                                                       *)
(***************************************************************************)
EXTENDS Naturals

VARIABLES
    opened,    \* the number of turns opened; turn n is the n-th
    queued,    \* the prompts the session has admitted
    working,   \* the turn it executes, 0 when none
    delivered, \* the turns it has begun
    lost       \* the turns whose dispatch timed out

vars == <<opened, queued, working, delivered, lost>>

Session == queued \cup ({working} \ {0})

Init ==
    /\ opened = 0
    /\ queued = {}
    /\ working = 0
    /\ delivered = {}
    /\ lost = {}

Open ==
    /\ Session \subseteq lost
    /\ opened' = opened + 1
    /\ UNCHANGED <<queued, working, delivered, lost>>

\* Only the last turn opened sends its prompt, while the session is quiet.
Sendable(n) ==
    /\ n = opened /\ n > 0
    /\ n \notin delivered \cup queued \cup lost
    /\ Session \subseteq lost

Send(n) ==
    /\ Sendable(n)
    /\ \/ queued' = queued \cup {n} /\ UNCHANGED lost
       \/ lost' = lost \cup {n} /\ UNCHANGED queued
    /\ UNCHANGED <<opened, working, delivered>>

Arrive(n) ==
    /\ n \in lost \ (delivered \cup queued)
    /\ queued' = queued \cup {n}
    /\ UNCHANGED <<opened, working, delivered, lost>>

Begin(n) ==
    /\ n \in queued
    /\ working = 0
    /\ queued' = queued \ {n}
    /\ working' = n
    /\ delivered' = delivered \cup {n}
    /\ UNCHANGED <<opened, lost>>

\* The turn ends, or is stopped and what is queued withdrawn.
End ==
    /\ working' = 0
    /\ queued' \in {queued, {}}
    /\ UNCHANGED <<opened, delivered, lost>>

Next ==
    \/ Open \/ End
    \/ Send(opened)
    \/ \E n \in lost : Arrive(n)
    \/ \E n \in queued : Begin(n)

Spec == Init /\ [][Next]_vars
=============================================================================
