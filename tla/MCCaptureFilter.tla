--------------------------- MODULE MCCaptureFilter --------------------------
(* Two threads of one process with two users, and a transaction whose data *)
(* is larger than its extra buffers.                                       *)
EXTENDS CaptureFilter

MCTask  == <<[tgid |-> 1, pid |-> 1, uid |-> 1], [tgid |-> 1, pid |-> 2, uid |-> 2]>>
MCCalls == {[point |-> "transaction", size |-> 0, data |-> 8],
            [point |-> "copy", size |-> 8, data |-> 8],
            [point |-> "ioctl", size |-> 0, data |-> 0]}

NoOption  == [tgid |-> {}, pid |-> {}, uid |-> {}, min |-> {}, max |-> {}]
MCOptions == {[NoOption EXCEPT !.tgid = {2}, !.max = {4}],
              [NoOption EXCEPT !.pid = {2}, !.max = {4}],
              [NoOption EXCEPT !.uid = {2}, !.tgid = {0}],
              [NoOption EXCEPT !.min = {8}, !.max = {4}],
              NoOption}
MCServerOptions == [NoOption EXCEPT !.max = {4}]
=============================================================================
