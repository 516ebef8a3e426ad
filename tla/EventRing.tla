----------------------------- MODULE EventRing ------------------------------
(***************************************************************************)
(* The event stream of the kernel module (kernel/src/ipc/bt_event.c) and   *)
(* the socket operations that read it (open, recvmsg, poll and release of  *)
(* kernel/src/ipc/bt_sock.c).                                              *)
(*                                                                         *)
(* Threads inside the binder_transaction hook (Emitters) store events in a *)
(* ring under a spinlock and then wake the wait queue.  Threads of the     *)
(* tracing programs (Readers) take events under the same lock, each socket *)
(* with a cursor of its own, and otherwise return EAGAIN or wait.  A       *)
(* critical section is one action; what happens between two of them can    *)
(* interleave with everything else.                                        *)
(***************************************************************************)
EXTENDS Integers, Sequences

CONSTANTS
  Capacity,     (* BT_EVENT_RING_CAPACITY                                  *)
  LostModulus,  (* 2^32: lost_before is a u32                              *)
  MaxEvents,    (* bound: how many events are emitted                      *)
  Emitters,     (* threads in the hook; an event's payload is its emitter  *)
  NoEmitter,    (* the payload of a slot that was only zeroed              *)
  Readers,      (* threads of the processes that own the sockets           *)
  Socks,
  SockOf        (* the socket each reader thread uses                      *)

ASSUME RingAssumption ==
  /\ Capacity \in Nat \ {0}
  /\ LostModulus \in Nat \ {0}
  /\ MaxEvents \in Nat
  /\ NoEmitter \notin Emitters
  /\ SockOf \in [Readers -> Socks]

VARIABLES
  ring,         (* bt_event_ring                                           *)
  next,         (* bt_event_next_sequence                                  *)
  emitPc,       (* where an emitter is: "idle", or "wake" between the      *)
                (* unlock and the wake-up                                  *)
  open,         (* open[s]: socket s exists (version = BT_SOCK_VERSION)    *)
  cursor,       (* cursor[s]: bs->next_event_sequence                      *)
  pc,           (* where a reader is in recvmsg or poll                    *)
  mode,         (* what it called: "block", "nonblock" (recvmsg), "poll"   *)
  waitq,        (* readers that the next wake-up will wake                 *)
  log,          (* history: the payload of every event stored, in order    *)
  start,        (* history: the cursor s was opened with                   *)
  taken         (* history: the events taken for calls on s                *)

emitVars  == <<ring, next, emitPc, log>>
sockVars  == <<open, cursor, start, taken>>
callVars  == <<pc, mode, waitq>>
vars      == <<emitVars, sockVars, callVars>>

Slot(i) == i % Capacity

Event(seq, payload) == [sequence |-> seq, payload |-> payload]

(* The initial state is the one bt_event_init leaves behind.               *)
Init ==
  /\ ring   = [i \in 0 .. Capacity - 1 |-> Event(0, NoEmitter)]
  /\ next   = 1
  /\ emitPc = [e \in Emitters |-> "idle"]
  /\ log    = <<>>
  /\ open   = [s \in Socks |-> FALSE]
  /\ cursor = [s \in Socks |-> 0]
  /\ start  = [s \in Socks |-> 0]
  /\ taken  = [s \in Socks |-> <<>>]
  /\ pc     = [r \in Readers |-> "idle"]
  /\ mode   = [r \in Readers |-> "block"]
  /\ waitq  = {}

-----------------------------------------------------------------------------
(* The emitting side.                                                      *)

(* Faulty variant: the slot is chosen after the sequence was incremented.  *)
EmitStoreNextSlot(e) ==
  /\ emitPc[e] = "idle"
  /\ next <= MaxEvents
  /\ ring'   = [ring EXCEPT ![Slot(next + 1)] = Event(next, e)]
  /\ next'   = next + 1
  /\ log'    = Append(log, e)
  /\ emitPc' = [emitPc EXCEPT ![e] = "wake"]
  /\ UNCHANGED <<sockVars, callVars>>

(* The critical section of bt_event_emit_binder_transaction.               *)
EmitStore(e) ==
  /\ emitPc[e] = "idle"
  /\ next <= MaxEvents
  /\ ring'   = [ring EXCEPT ![Slot(next)] = Event(next, e)]
  /\ next'   = next + 1
  /\ log'    = Append(log, e)
  /\ emitPc' = [emitPc EXCEPT ![e] = "wake"]
  /\ UNCHANGED <<sockVars, callVars>>

(* Faulty variant: waiters are queued as exclusive ones and one is woken.  *)
EmitWakeOne(e) ==
  /\ emitPc[e] = "wake"
  /\ IF waitq = {} THEN waitq' = {} ELSE \E r \in waitq : waitq' = waitq \ {r}
  /\ emitPc' = [emitPc EXCEPT ![e] = "idle"]
  /\ UNCHANGED <<ring, next, log, sockVars, pc, mode>>

(* wake_up_interruptible_poll, outside the lock: no waiter is exclusive,   *)
(* so all of them are woken.                                               *)
EmitWake(e) ==
  /\ emitPc[e] = "wake"
  /\ waitq'  = {}
  /\ emitPc' = [emitPc EXCEPT ![e] = "idle"]
  /\ UNCHANGED <<ring, next, log, sockVars, pc, mode>>

-----------------------------------------------------------------------------
(* Sockets.                                                                *)

(* Faulty variant: the cursor of a new socket is left at zero.             *)
OpenSockNoCursor(s) ==
  /\ ~open[s]
  /\ open'   = [open EXCEPT ![s] = TRUE]
  /\ start'  = [start EXCEPT ![s] = next]
  /\ UNCHANGED <<emitVars, cursor, taken, callVars>>

(* bt_sock_init at socket(2): only later events are for this socket.       *)
OpenSock(s) ==
  /\ ~open[s]
  /\ open'   = [open EXCEPT ![s] = TRUE]
  /\ cursor' = [cursor EXCEPT ![s] = next]
  /\ start'  = [start EXCEPT ![s] = next]
  /\ UNCHANGED <<emitVars, taken, callVars>>

(* bt_sock_release at the last close(2): a call in progress holds the file.*)
ReleaseSock(s) ==
  /\ open[s]
  /\ \A r \in Readers : SockOf[r] = s => pc[r] = "idle"
  /\ open'   = [open EXCEPT ![s] = FALSE]
  /\ cursor' = [cursor EXCEPT ![s] = 0]
  /\ start'  = [start EXCEPT ![s] = 0]
  /\ taken'  = [taken EXCEPT ![s] = <<>>]
  /\ UNCHANGED <<emitVars, callVars>>

-----------------------------------------------------------------------------
(* The reading side.                                                       *)

HasPending(s) == cursor[s] # next

Goto(r, from, to) ==
  /\ pc[r] = from
  /\ pc' = [pc EXCEPT ![r] = to]

(* recvmsg enters bt_event_recv; poll goes straight to the wait queue.     *)
Call(r, m) ==
  /\ open[SockOf[r]]
  /\ Goto(r, "idle", IF m = "poll" THEN "queue" ELSE "take")
  /\ mode' = [mode EXCEPT ![r] = m]
  /\ UNCHANGED <<emitVars, sockVars, waitq>>

(* Faulty variant: one slot too many is believed to be intact.             *)
OldestOfStale(n) == IF n > Capacity THEN n - Capacity - 1 ELSE 1

(* The oldest sequence number whose slot has not been overwritten.         *)
OldestOf(n) == IF n > Capacity THEN n - Capacity ELSE 1

(* Faulty variant: a reader that was overrun resumes at the newest event.  *)
TakeEventNewest(s) ==
  LET overrun == cursor[s] < OldestOf(next)
      from    == IF overrun THEN next - 1 ELSE cursor[s]
      event   == ring[Slot(from)]
  IN  /\ taken'  = [taken EXCEPT ![s] =
           Append(@, [sequence    |-> event.sequence,
                      payload     |-> event.payload,
                      lost_before |-> (from - cursor[s]) % LostModulus])]
      /\ cursor' = [cursor EXCEPT ![s] = from + 1]
      /\ UNCHANGED <<open, start>>

(* What bt_event_take_locked hands out of the ring and where it leaves the *)
(* cursor.                                                                 *)
TakeEvent(s) ==
  LET oldest == OldestOf(next)
      lost   == IF cursor[s] < oldest THEN oldest - cursor[s] ELSE 0
      from   == cursor[s] + lost
      event  == ring[Slot(from)]
  IN  /\ taken'  = [taken EXCEPT ![s] =
           Append(@, [sequence    |-> event.sequence,
                      payload     |-> event.payload,
                      lost_before |-> lost % LostModulus])]
      /\ cursor' = [cursor EXCEPT ![s] = from + 1]
      /\ UNCHANGED <<open, start>>

(* The locked part of bt_event_recv when there is an event to take.        *)
Take(r) ==
  /\ HasPending(SockOf[r])
  /\ Goto(r, "take", "copy")
  /\ TakeEvent(SockOf[r])
  /\ UNCHANGED <<emitVars, mode, waitq>>

(* ... and when there is none: EAGAIN for MSG_DONTWAIT, else wait.         *)
TakeNothing(r) ==
  /\ ~HasPending(SockOf[r])
  /\ Goto(r, "take", IF mode[r] = "nonblock" THEN "idle" ELSE "wait")
  /\ UNCHANGED <<emitVars, sockVars, mode, waitq>>

(* wait_event_interruptible looks at the condition before it queues.       *)
TryBeforeWait(r) ==
  /\ Goto(r, "wait", IF HasPending(SockOf[r]) THEN "take" ELSE "queue")
  /\ UNCHANGED <<emitVars, sockVars, mode, waitq>>

(* Faulty variant: a queued reader sleeps without another look.            *)
EnqueueAndSleep(r) ==
  /\ Goto(r, "queue", "sleep")
  /\ waitq' = waitq \cup {r}
  /\ UNCHANGED <<emitVars, sockVars, mode>>

(* prepare_to_wait_event, or poll_wait: from here on a wake-up counts.     *)
Enqueue(r) ==
  /\ Goto(r, "queue", "check")
  /\ waitq' = waitq \cup {r}
  /\ UNCHANGED <<emitVars, sockVars, mode>>

(* The condition is looked at again once queued.  A pending event ends     *)
(* the wait: recv takes it, poll reports EPOLLIN.                          *)
CheckReady(r) ==
  /\ HasPending(SockOf[r])
  /\ Goto(r, "check", IF mode[r] = "poll" THEN "idle" ELSE "take")
  /\ waitq' = waitq \ {r}
  /\ UNCHANGED <<emitVars, sockVars, mode>>

CheckSleep(r) ==
  /\ ~HasPending(SockOf[r])
  /\ Goto(r, "check", "sleep")
  /\ UNCHANGED <<emitVars, sockVars, mode, waitq>>

(* A woken sleeper is off the queue; it queues and checks again.           *)
Woken(r) ==
  /\ r \notin waitq
  /\ Goto(r, "sleep", "queue")
  /\ UNCHANGED <<emitVars, sockVars, mode, waitq>>

(* A signal (ERESTARTSYS), or the timeout of poll, ends the wait of a      *)
(* sleeper; the condition is still looked at one last time.                *)
Interrupt(r) ==
  /\ Goto(r, "sleep", IF HasPending(SockOf[r]) /\ mode[r] # "poll"
                      THEN "take" ELSE "idle")
  /\ waitq' = waitq \ {r}
  /\ UNCHANGED <<emitVars, sockVars, mode>>

(* memcpy_to_msg and return: the event has left the ring for this socket   *)
(* whether or not the copy to user space succeeds.                         *)
CopyOut(r) ==
  /\ Goto(r, "copy", "idle")
  /\ UNCHANGED <<emitVars, sockVars, mode, waitq>>

Emit(e) == EmitStore(e) \/ EmitWake(e)

(* The steps of a call that nothing but the scheduler holds up.            *)
Advance(r) ==
  \/ Take(r) \/ TakeNothing(r) \/ TryBeforeWait(r) \/ Enqueue(r)
  \/ CheckReady(r) \/ CheckSleep(r) \/ Woken(r) \/ CopyOut(r)

Next ==
  \/ \E e \in Emitters : Emit(e)
  \/ \E s \in Socks : OpenSock(s) \/ ReleaseSock(s)
  \/ \E r \in Readers :
       \/ \E m \in {"block", "nonblock", "poll"} : Call(r, m)
       \/ Advance(r)
       \/ Interrupt(r)

Spec == Init /\ [][Next]_vars

(* A thread inside the kernel keeps running: an emitter that has stored    *)
(* an event gets to its wake-up, a reader leaves every step it can leave.  *)
(* Nobody is obliged to emit, to call, or to send a signal.                *)
FairSpec ==
  /\ Spec
  /\ \A e \in Emitters : WF_vars(EmitWake(e))
  /\ \A r \in Readers : WF_vars(Advance(r))

-----------------------------------------------------------------------------
(* Properties.                                                             *)

Received == [sequence : Nat, payload : Emitters, lost_before : 0 .. LostModulus - 1]

(* Every variable holds a value the program can give it.                   *)
TypeOK ==
  /\ ring \in [0 .. Capacity - 1 -> [sequence : Nat, payload : Emitters \cup {NoEmitter}]]
  /\ next \in Nat \ {0}
  /\ emitPc \in [Emitters -> {"idle", "wake"}]
  /\ open \in [Socks -> BOOLEAN]
  /\ cursor \in [Socks -> Nat]
  /\ start \in [Socks -> Nat]
  /\ pc \in [Readers -> {"idle", "take", "wait", "queue", "check", "sleep", "copy"}]
  /\ mode \in [Readers -> {"block", "nonblock", "poll"}]
  /\ waitq \in SUBSET Readers
  /\ log \in Seq(Emitters)
  /\ taken \in [Socks -> Seq(Received)]

(* A call never returns a slot that was zeroed, overwritten or not yet     *)
(* written: the event it takes is the one emitted under the sequence       *)
(* number it carries, after the socket was opened.                         *)
TakenWasEmitted ==
  \A s \in Socks : \A k \in 1 .. Len(taken[s]) :
    LET t == taken[s][k]
    IN  /\ t.sequence \in start[s] .. Len(log)
        /\ t.payload = log[t.sequence]

(* The sequence number the k-th event taken on s was due to have: that of  *)
(* the event before it plus one, or the first of the socket.               *)
DueBefore(s, k) ==
  IF k = 1 THEN start[s] ELSE taken[s][k - 1].sequence + 1

(* A program can reconstruct what it missed: lost_before is the number of  *)
(* events passed over since the previous event taken on the socket (in 32  *)
(* bits), nothing is taken twice or out of order, and the cursor stands    *)
(* behind the last event taken.                                            *)
LossIsReported ==
  \A s \in Socks :
    /\ \A k \in 1 .. Len(taken[s]) :
         /\ taken[s][k].sequence >= DueBefore(s, k)
         /\ taken[s][k].lost_before
              = (taken[s][k].sequence - DueBefore(s, k)) % LostModulus
    /\ cursor[s] = DueBefore(s, Len(taken[s]) + 1)

(* A reader that is asleep while its socket has an event is about to be    *)
(* woken: an emitter stands between its unlock and its wake-up.            *)
NoLostWakeup ==
  \A r \in waitq :
    pc[r] = "sleep" /\ HasPending(SockOf[r]) => \E e \in Emitters : emitPc[e] = "wake"

(* The ring retains the last Capacity events: slot i % Capacity holds      *)
(* event i for every i from the oldest one to the newest.                  *)
RingHoldsTail ==
  \A i \in OldestOf(next) .. next - 1 : ring[Slot(i)] = Event(i, log[i])

(* Positions are in the log, and a socket that does not exist is nobody's. *)
SocksSound ==
  \A s \in Socks :
    /\ open[s] => start[s] >= 1 /\ start[s] <= cursor[s] /\ cursor[s] <= next
    /\ ~open[s] => start[s] = 0 /\ cursor[s] = 0 /\ taken[s] = <<>>

NoCallOnClosed ==
  \A r \in Readers : ~open[SockOf[r]] => pc[r] = "idle"

(* The inductive invariant: the parts above plus what ties the history to  *)
(* the counters.                                                           *)
IndInv ==
  /\ TypeOK
  /\ Len(log) = next - 1
  /\ RingHoldsTail
  /\ SocksSound
  /\ NoCallOnClosed
  /\ NoLostWakeup
  /\ TakenWasEmitted
  /\ LossIsReported

(* A call that waits for events does not wait for ever while its socket    *)
(* has one: it ends, or another thread of the process drains the socket.   *)
PendingEndsWait ==
  \A r \in Readers :
    (pc[r] # "idle" /\ HasPending(SockOf[r])) ~> (pc[r] = "idle" \/ ~HasPending(SockOf[r]))

(* The ring keeps what the log promises: every step of it is a step of     *)
(* EventLog with the same log, sockets and positions, or changes none.     *)
Promised == INSTANCE EventLog WITH
  Payloads <- Emitters, Window <- Capacity, pos <- cursor, handed <- taken

KeepsTheLog == Promised!Spec
=============================================================================
