-------------------------- MODULE MCCaptureHistory --------------------------
(* Two sessions, one or two events, a file that grows from one slot to     *)
(* three, doubling once beyond the limit.                                  *)
EXTENDS CaptureHistory, TLC

CONSTANTS s1, s2, e1, e2

Alike == Permutations(Sessions) \cup Permutations(Events)
=============================================================================
