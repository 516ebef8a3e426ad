---------------------------- MODULE MCSideBySide ----------------------------
(* Four families; batches of two of four events; two programs; four keys   *)
(* in reads of three bytes; two kinds of events that can be filtered and   *)
(* one that cannot, which only the list has, in a list of two rows, with a *)
(* page of two rows; three hooks on four pages, one shared by all, one no  *)
(* other uses and that was not guarded; two threads of one process, a      *)
(* client, and filters by process, by thread, or by none.                  *)
EXTENDS SideBySide, TLC

MCPayload == <<20, 0>>
MCTouches == <<{1, 2}, {1, 3}, {1, 2, 3, 4}>>

MCTask  == <<[tgid |-> 1, pid |-> 1, uid |-> 1], [tgid |-> 1, pid |-> 2, uid |-> 2]>>
MCCalls == {[point |-> "transaction", size |-> 0, data |-> 8],
            [point |-> "copy", size |-> 8, data |-> 8]}

NoOption  == [tgid |-> {}, pid |-> {}, uid |-> {}, min |-> {}, max |-> {}]
MCOptions == {[NoOption EXCEPT !.tgid = {2}], [NoOption EXCEPT !.pid = {2}]}
=============================================================================
