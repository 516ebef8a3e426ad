--------------------------- MODULE MCHookLifecycle --------------------------
(* Two threads that call the hooked functions; they are interchangeable.   *)
EXTENDS HookLifecycle, TLC

CONSTANTS t1, t2

Alike == Permutations({t1, t2})
=============================================================================
