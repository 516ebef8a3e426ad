---------------------------- MODULE MCEventRing -----------------------------
(* Small instances of EventRing: a ring of two slots that a few events     *)
(* overrun, two threads sharing one socket and one with a socket alone.    *)
EXTENDS EventRing

CONSTANTS e1, e2, r1, r2, r3, s1, s2

MCSockOf == [r \in Readers |-> IF r = r3 THEN s2 ELSE s1]
=============================================================================
