-------------------------- MODULE MCCaptureSessions -------------------------
(* A few programs at a time; which of them run is up to the .cfg.          *)
EXTENDS CaptureSessions

CONSTANTS a1, t1, w1, m1, m2
=============================================================================
