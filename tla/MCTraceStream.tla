---------------------------- MODULE MCTraceStream ---------------------------
(* A few events; all of them or the odd ones, in a window of two.          *)
EXTENDS TraceStream

MCViews == {[match |-> 1 .. MaxSeq, limit |-> 2],
            [match |-> {s \in 1 .. MaxSeq : s % 2 = 1}, limit |-> 2]}
=============================================================================
