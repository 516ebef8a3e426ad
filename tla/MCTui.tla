-------------------------------- MODULE MCTui -------------------------------
(* Two kinds of events that can be filtered, one that cannot, and a list   *)
(* of two rows.                                                            *)
EXTENDS Tui

CONSTANTS k1, k2, k3
=============================================================================
