----------------------------- MODULE HistoryLog -----------------------------
(***************************************************************************)
(* What a capture history promises to the program that keeps it: a log of  *)
(* at most MaxEvents events to which events are appended one by one, whose *)
(* entries never change, and which is only ever emptied as a whole.        *)
(***************************************************************************)
EXTENDS Integers, Sequences

CONSTANTS
  Events,       (* the events                                              *)
  MaxEvents     (* how many the log takes                                  *)

VARIABLE log

Init == log = <<>>

Record(e) ==
  /\ Len(log) < MaxEvents
  /\ log' = Append(log, e)

(* The program clears the history or is done with it.                      *)
Forget == log' = <<>>

Next == (\E e \in Events : Record(e)) \/ Forget

Spec == Init /\ [][Next]_log
=============================================================================
