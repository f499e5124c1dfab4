-------------------------- MODULE MCTranscriptTurn --------------------------
(* TranscriptTurn for TLC. *)
EXTENDS TranscriptTurn

AnyFault == {"blind", "probe", "refused", "hook"}
AnyVerb == {"foreign", "tool", "checks", "park", "pause", "resume", "manual", "unknown"}
=============================================================================
