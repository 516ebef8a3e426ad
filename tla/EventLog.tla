------------------------------ MODULE EventLog ------------------------------
(***************************************************************************)
(* What the event stream of the binder_trace kernel module promises to the *)
(* programs that read it, without the ring, the lock or the wait queue:    *)
(* there is one append-only log of events, every open socket has a         *)
(* position in it, and a read hands out the event at that position, or, if *)
(* the position has left the window of the last Window events, the oldest  *)
(* event of the window together with the number of events passed over.     *)
(***************************************************************************)
EXTENDS Integers, Sequences

CONSTANTS
  Payloads,     (* what an event carries                                   *)
  Socks,        (* the trace sockets                                       *)
  Window,       (* how many of the last events can still be read           *)
  LostModulus   (* lost_before is kept modulo this number (2^32)           *)

VARIABLES
  log,          (* every event ever emitted, in order                      *)
  open,         (* open[s]: socket s exists                                *)
  pos,          (* pos[s]: sequence number of the next event s is due      *)
  handed        (* handed[s]: what reads on s were given since it opened   *)

vars == <<log, open, pos, handed>>

Init ==
  /\ log    = <<>>
  /\ open   = [s \in Socks |-> FALSE]
  /\ pos    = [s \in Socks |-> 0]
  /\ handed = [s \in Socks |-> <<>>]

(* An event happens; it is in the log for good.                            *)
Happen(p) ==
  /\ log' = Append(log, p)
  /\ UNCHANGED <<open, pos, handed>>

(* A new socket is due only what happens after it was opened.              *)
Open(s) ==
  /\ ~open[s]
  /\ open' = [open EXCEPT ![s] = TRUE]
  /\ pos'  = [pos EXCEPT ![s] = Len(log) + 1]
  /\ UNCHANGED <<log, handed>>

Close(s) ==
  /\ open[s]
  /\ open'   = [open EXCEPT ![s] = FALSE]
  /\ pos'    = [pos EXCEPT ![s] = 0]
  /\ handed' = [handed EXCEPT ![s] = <<>>]
  /\ UNCHANGED log

(* Event k may be given to s: it is the one that is due, or the due one    *)
(* has left the window and k is the oldest event that has not.             *)
MayHand(s, k) ==
  \/ k = pos[s]
  \/ k > pos[s] /\ k = Len(log) - Window + 1

Hand(s) ==
  /\ open[s]
  /\ \E k \in 1 .. Len(log) :
       /\ MayHand(s, k)
       /\ handed' = [handed EXCEPT ![s] =
            Append(@, [sequence    |-> k,
                       payload     |-> log[k],
                       lost_before |-> (k - pos[s]) % LostModulus])]
       /\ pos' = [pos EXCEPT ![s] = k + 1]
  /\ UNCHANGED <<log, open>>

Next ==
  \/ \E p \in Payloads : Happen(p)
  \/ \E s \in Socks : Open(s) \/ Close(s) \/ Hand(s)

Spec == Init /\ [][Next]_vars
=============================================================================
