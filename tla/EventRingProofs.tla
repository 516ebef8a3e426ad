-------------------------- MODULE EventRingProofs ---------------------------
(* Theorems about EventRing, for every capacity, set of threads and set of *)
(* sockets.                                                                *)
EXTENDS EventRing, TLAPS

-----------------------------------------------------------------------------
(* Slots.                                                                  *)

(* Division with remainder, as the provers know it.                        *)
LEMMA DivMod ==
  ASSUME NEW c \in Nat \ {0}, NEW i \in Nat
  PROVE  /\ i % c \in 0 .. c - 1
         /\ i \div c \in Nat
         /\ i = c * (i \div c) + (i % c)
OBVIOUS

(* Two events less than a full ring apart have different slots.            *)
LEMMA SlotsDiffer ==
  ASSUME NEW c \in Nat \ {0}, NEW i \in Nat, NEW j \in Nat, i < j, j - i < c
  PROVE  i % c # j % c
<1> SUFFICES ASSUME i % c = j % c PROVE FALSE
  OBVIOUS
<1> DEFINE a == i \div c
           b == j \div c
<1>1. /\ a \in Nat /\ b \in Nat
      /\ i = c * a + (i % c)
      /\ j = c * b + (j % c)
      /\ i % c \in 0 .. c - 1
  BY DivMod
<1>2. j - i = c * b - c * a
  BY <1>1
<1> HIDE DEF a, b
<1>3. CASE b <= a
  <2>1. c * b <= c * a
    BY <1>1, <1>3
  <2> QED
    BY <1>1, <1>2, <2>1
<1>4. CASE b >= a + 1
  <2>1. c * b >= c * (a + 1)
    BY <1>1, <1>4
  <2>2. c * (a + 1) = c * a + c
    BY <1>1
  <2> QED
    BY <1>1, <1>2, <2>1, <2>2
<1> QED
  BY <1>1, <1>3, <1>4

-----------------------------------------------------------------------------
(* What a reader takes.                                                    *)

(* A successful take hands out an event k of the log: the one the socket   *)
(* is due, or the oldest one retained when that is further on.             *)
LEMMA TakeFromLog ==
  ASSUME IndInv, NEW r \in Readers, Take(r)
  PROVE  LET s == SockOf[r] IN
         /\ s \in Socks /\ open[s]
         /\ \E k \in 1 .. Len(log) :
              /\ \/ k = cursor[s]
                 \/ k > cursor[s] /\ k = Len(log) - Capacity + 1
              /\ taken' = [taken EXCEPT ![s] =
                   Append(@, [sequence    |-> k,
                              payload     |-> log[k],
                              lost_before |-> (k - cursor[s]) % LostModulus])]
              /\ cursor' = [cursor EXCEPT ![s] = k + 1]
<1> DEFINE s == SockOf[r]
           oldest == OldestOf(next)
           lost == IF cursor[s] < oldest THEN oldest - cursor[s] ELSE 0
           k == cursor[s] + lost
<1>1. s \in Socks /\ open[s]
  BY RingAssumption DEF IndInv, NoCallOnClosed, Take, Goto
<1>2. /\ cursor[s] \in Nat /\ cursor[s] >= 1 /\ cursor[s] < next
      /\ next \in Nat /\ Len(log) = next - 1
  BY <1>1 DEF IndInv, TypeOK, SocksSound, Take, HasPending
<1>3. oldest \in Nat /\ oldest <= next - 1 /\ oldest >= 1
  BY <1>2, RingAssumption DEF OldestOf
<1>4. k \in oldest .. next - 1 /\ k \in 1 .. Len(log)
  BY <1>2, <1>3
<1>5. ring[Slot(k)] = [sequence |-> k, payload |-> log[k]]
  BY <1>4 DEF IndInv, RingHoldsTail, Event
<1>6. k = cursor[s] \/ (k > cursor[s] /\ k = Len(log) - Capacity + 1)
  BY <1>2, <1>3, RingAssumption DEF OldestOf
<1>7. lost = k - cursor[s]
  BY <1>2, <1>3
<1>8. /\ taken' = [taken EXCEPT ![s] =
           Append(@, [sequence    |-> ring[Slot(k)].sequence,
                      payload     |-> ring[Slot(k)].payload,
                      lost_before |-> lost % LostModulus])]
      /\ cursor' = [cursor EXCEPT ![s] = k + 1]
  BY DEF Take, TakeEvent
<1>9. /\ ring[Slot(k)].sequence = k
      /\ ring[Slot(k)].payload = log[k]
  BY <1>5
<1> HIDE DEF k, lost
<1> QED
  BY <1>1, <1>4, <1>6, <1>7, <1>8, <1>9

-----------------------------------------------------------------------------
(* The inductive invariant.                                                *)

LEMMA InitInv == Init => IndInv
<1> SUFFICES ASSUME Init PROVE IndInv
  OBVIOUS
<1> USE RingAssumption DEF Init, Event
<1>1. TypeOK
  BY DEF TypeOK
<1>2. /\ Len(log) = next - 1
      /\ RingHoldsTail
  BY DEF RingHoldsTail, OldestOf
<1>3. SocksSound /\ NoCallOnClosed /\ NoLostWakeup
  BY DEF SocksSound, NoCallOnClosed, NoLostWakeup
<1>4. TakenWasEmitted /\ LossIsReported
  BY DEF TakenWasEmitted, LossIsReported, DueBefore
<1> QED
  BY <1>1, <1>2, <1>3, <1>4 DEF IndInv

(* The steps of a call other than Take change only where calls stand.      *)
LEMMA CallSteps ==
  ASSUME NEW r \in Readers, Next,
         \/ \E m \in {"block", "nonblock", "poll"} : Call(r, m)
         \/ TakeNothing(r) \/ TryBeforeWait(r) \/ Enqueue(r) \/ CheckReady(r)
         \/ CheckSleep(r) \/ Woken(r) \/ CopyOut(r) \/ Interrupt(r)
  PROVE  UNCHANGED <<emitVars, sockVars>>
BY DEF Call, TakeNothing, TryBeforeWait, Enqueue, CheckReady, CheckSleep, Woken,
       CopyOut, Interrupt

(* Every step is one of these.                                             *)
LEMMA Steps ==
  ASSUME [Next]_vars
  PROVE  \/ \E e \in Emitters : EmitStore(e)
         \/ \E e \in Emitters : EmitWake(e)
         \/ \E s \in Socks : OpenSock(s)
         \/ \E s \in Socks : ReleaseSock(s)
         \/ \E r \in Readers : Take(r)
         \/ UNCHANGED <<emitVars, sockVars>>
BY CallSteps DEF Next, Emit, Advance, vars

LEMMA TypeInv ==
  ASSUME IndInv, [Next]_vars
  PROVE  TypeOK'
<1> USE RingAssumption
<1>0. TypeOK
  BY DEF IndInv
<1>1. ASSUME NEW e \in Emitters, EmitStore(e) PROVE TypeOK'
  BY <1>0, <1>1, SMTT(30) DEF TypeOK, Event, Slot, EmitStore, sockVars, callVars
<1>2. ASSUME NEW e \in Emitters, EmitWake(e) PROVE TypeOK'
  BY <1>0, <1>2 DEF TypeOK, EmitWake, sockVars
<1>3. ASSUME NEW s \in Socks, OpenSock(s) PROVE TypeOK'
  BY <1>0, <1>3 DEF TypeOK, OpenSock, emitVars, callVars
<1>4. ASSUME NEW s \in Socks, ReleaseSock(s) PROVE TypeOK'
  BY <1>0, <1>4, SMTT(30) DEF TypeOK, ReleaseSock, emitVars, callVars
<1>5. ASSUME NEW r \in Readers, Take(r) PROVE TypeOK'
  <2>1. PICK k \in 1 .. Len(log) :
             /\ \/ k = cursor[SockOf[r]]
                \/ k > cursor[SockOf[r]] /\ k = Len(log) - Capacity + 1
             /\ taken' = [taken EXCEPT ![SockOf[r]] =
                  Append(@, [sequence    |-> k,
                             payload     |-> log[k],
                             lost_before |-> (k - cursor[SockOf[r]]) % LostModulus])]
             /\ cursor' = [cursor EXCEPT ![SockOf[r]] = k + 1]
    BY <1>5, TakeFromLog
  <2>2. SockOf[r] \in Socks /\ cursor[SockOf[r]] \in Nat /\ log \in Seq(Emitters)
    BY <1>0 DEF TypeOK
  <2>3. (k - cursor[SockOf[r]]) % LostModulus \in 0 .. LostModulus - 1
    <3>1. k - cursor[SockOf[r]] \in Nat
      BY <2>1, <2>2
    <3> QED
      BY <3>1, DivMod
  <2>4. [sequence    |-> k,
         payload     |-> log[k],
         lost_before |-> (k - cursor[SockOf[r]]) % LostModulus] \in Received
    BY <2>2, <2>3 DEF Received
  <2>5. taken' \in [Socks -> Seq(Received)] /\ cursor' \in [Socks -> Nat]
    BY <1>0, <2>1, <2>2, <2>4, SMTT(30) DEF TypeOK
  <2> QED
    BY <1>0, <1>5, <2>5 DEF TypeOK, Take, TakeEvent, Goto, emitVars
<1>6. ASSUME NEW r \in Readers, Advance(r) PROVE TypeOK'
  <2>1. CASE Take(r)
    BY <1>5, <2>1
  <2>2. CASE ~Take(r)
    BY <1>0, <1>6, <2>2 DEF TypeOK, Advance, TakeNothing, TryBeforeWait, Enqueue, CheckReady,
                            CheckSleep, Woken, CopyOut, Goto, emitVars, sockVars
  <2> QED
    BY <2>1, <2>2
<1>7. ASSUME NEW r \in Readers, NEW m \in {"block", "nonblock", "poll"}, Call(r, m)
      PROVE  TypeOK'
  BY <1>0, <1>7 DEF TypeOK, Call, Goto, emitVars, sockVars
<1>8. ASSUME NEW r \in Readers, Interrupt(r) PROVE TypeOK'
  BY <1>0, <1>8 DEF TypeOK, Interrupt, Goto, emitVars, sockVars
<1>9. CASE UNCHANGED vars
  BY <1>0, <1>9 DEF TypeOK, vars, emitVars, sockVars, callVars
<1> QED
  BY <1>1, <1>2, <1>3, <1>4, <1>6, <1>7, <1>8, <1>9 DEF Next, Emit

LEMMA RingInv ==
  ASSUME IndInv, [Next]_vars
  PROVE  Len(log)' = next' - 1 /\ RingHoldsTail'
<1> USE RingAssumption DEF IndInv
<1>1. ASSUME NEW e \in Emitters, EmitStore(e)
      PROVE  Len(log)' = next' - 1 /\ RingHoldsTail'
  <2>1. /\ next \in Nat \ {0} /\ next' = next + 1
        /\ log' = Append(log, e)
        /\ ring' = [ring EXCEPT ![Slot(next)] = Event(next, e)]
        /\ log \in Seq(Emitters) /\ Len(log) = next - 1
    BY <1>1 DEF EmitStore, TypeOK
  <2>2. Len(log') = next' - 1 /\ log'[next] = e
    BY <2>1
  <2>3. Slot(next) \in 0 .. Capacity - 1 /\ DOMAIN ring = 0 .. Capacity - 1
    BY <2>1, DivMod DEF Slot, TypeOK
  <2>4. ASSUME NEW i \in OldestOf(next') .. next' - 1
        PROVE  ring'[Slot(i)] = Event(i, log'[i])
    <3>1. CASE i = next
      BY <2>1, <2>2, <2>3, <3>1
    <3>2. CASE i # next
      <4>1. i \in Nat /\ i < next /\ next - i < Capacity /\ i \in OldestOf(next) .. next - 1
        BY <2>1, <3>2 DEF OldestOf
      <4>2. Slot(i) # Slot(next)
        BY <2>1, <4>1, SlotsDiffer DEF Slot
      <4>3. ring'[Slot(i)] = ring[Slot(i)]
        BY <2>1, <4>2 DEF TypeOK
      <4>4. log'[i] = log[i]
        BY <2>1, <4>1, SMTT(30) DEF OldestOf
      <4> QED
        BY <4>1, <4>3, <4>4 DEF RingHoldsTail
    <3> QED
      BY <3>1, <3>2
  <2> QED
    BY <2>2, <2>4 DEF RingHoldsTail
<1>2. ASSUME UNCHANGED <<ring, next, log>>
      PROVE  Len(log)' = next' - 1 /\ RingHoldsTail'
  BY <1>2 DEF RingHoldsTail
<1>3. ASSUME NEW e \in Emitters, EmitWake(e) PROVE UNCHANGED <<ring, next, log>>
  BY <1>3 DEF EmitWake
<1>4. ASSUME NEW s \in Socks, OpenSock(s) \/ ReleaseSock(s)
      PROVE  UNCHANGED <<ring, next, log>>
  BY <1>4 DEF OpenSock, ReleaseSock, emitVars
<1>5. ASSUME NEW r \in Readers, Take(r) PROVE UNCHANGED <<ring, next, log>>
  BY <1>5 DEF Take, emitVars
<1> QED
  BY <1>1, <1>2, <1>3, <1>4, <1>5, Steps DEF emitVars

LEMMA SocksInv ==
  ASSUME IndInv, [Next]_vars
  PROVE  SocksSound'
<1>0. TypeOK /\ SocksSound
  BY DEF IndInv
<1>1. ASSUME NEW e \in Emitters, EmitStore(e) PROVE SocksSound'
  BY <1>0, <1>1 DEF EmitStore, sockVars, SocksSound, TypeOK
<1>2. ASSUME NEW e \in Emitters, EmitWake(e) PROVE SocksSound'
  BY <1>0, <1>2 DEF EmitWake, sockVars, SocksSound
<1>3. ASSUME NEW s \in Socks, OpenSock(s) PROVE SocksSound'
  BY <1>0, <1>3 DEF OpenSock, emitVars, SocksSound, TypeOK
<1>4. ASSUME NEW s \in Socks, ReleaseSock(s) PROVE SocksSound'
  BY <1>0, <1>4 DEF ReleaseSock, emitVars, SocksSound, TypeOK
<1>5. ASSUME NEW r \in Readers, Take(r) PROVE SocksSound'
  <2> DEFINE s == SockOf[r]
  <2>1. PICK k \in 1 .. Len(log) :
             /\ \/ k = cursor[s]
                \/ k > cursor[s] /\ k = Len(log) - Capacity + 1
             /\ taken' = [taken EXCEPT ![s] =
                  Append(@, [sequence    |-> k,
                             payload     |-> log[k],
                             lost_before |-> (k - cursor[s]) % LostModulus])]
             /\ cursor' = [cursor EXCEPT ![s] = k + 1]
    BY <1>5, TakeFromLog
  <2>2. s \in Socks /\ open[s] /\ Len(log) = next - 1 /\ next \in Nat
    BY <1>5, TakeFromLog DEF IndInv, TypeOK
  <2>3. UNCHANGED <<next, open, start>>
    BY <1>5 DEF Take, TakeEvent, emitVars
  <2> HIDE DEF s
  <2> QED
    BY <1>0, <2>1, <2>2, <2>3, SMTT(30) DEF SocksSound, TypeOK
<1>6. CASE UNCHANGED <<emitVars, sockVars>>
  BY <1>0, <1>6 DEF emitVars, sockVars, SocksSound
<1> QED
  BY <1>1, <1>2, <1>3, <1>4, <1>5, <1>6, Steps

LEMMA CallInv ==
  ASSUME IndInv, [Next]_vars
  PROVE  NoCallOnClosed'
<1> USE RingAssumption
<1>0. TypeOK /\ NoCallOnClosed
  BY DEF IndInv
<1>1. ASSUME NEW e \in Emitters, Emit(e) PROVE NoCallOnClosed'
  BY <1>0, <1>1 DEF Emit, EmitStore, EmitWake, sockVars, callVars, NoCallOnClosed
<1>2. ASSUME NEW s \in Socks, OpenSock(s) \/ ReleaseSock(s) PROVE NoCallOnClosed'
  <2>1. CASE OpenSock(s)
    BY <1>0, <2>1 DEF OpenSock, callVars, NoCallOnClosed, TypeOK
  <2>2. CASE ReleaseSock(s)
    BY <1>0, <2>2 DEF ReleaseSock, callVars, NoCallOnClosed, TypeOK
  <2> QED
    BY <1>2, <2>1, <2>2
<1>3. ASSUME NEW r \in Readers, Advance(r) PROVE NoCallOnClosed'
  BY <1>0, <1>3 DEF Advance, Take, TakeEvent, TakeNothing, TryBeforeWait, Enqueue,
                    CheckReady, CheckSleep, Woken, CopyOut, Goto, sockVars,
                    NoCallOnClosed, TypeOK
<1>4. ASSUME NEW r \in Readers, NEW m \in {"block", "nonblock", "poll"}, Call(r, m)
      PROVE  NoCallOnClosed'
  BY <1>0, <1>4 DEF Call, Goto, sockVars, NoCallOnClosed, TypeOK
<1>5. ASSUME NEW r \in Readers, Interrupt(r) PROVE NoCallOnClosed'
  BY <1>0, <1>5 DEF Interrupt, Goto, sockVars, NoCallOnClosed, TypeOK
<1>6. CASE UNCHANGED vars
  BY <1>0, <1>6 DEF vars, sockVars, callVars, NoCallOnClosed
<1> QED
  BY <1>1, <1>2, <1>3, <1>4, <1>5, <1>6 DEF Next

(* A sleeper with an event pending arises only from a store, whose emitter *)
(* still has to wake; a wake-up leaves nobody queued; and a reader goes to *)
(* sleep only while nothing is pending.                                    *)
LEMMA WakeupInv ==
  ASSUME IndInv, [Next]_vars
  PROVE  NoLostWakeup'
<1> USE RingAssumption DEF HasPending
<1>0. TypeOK /\ NoLostWakeup /\ NoCallOnClosed
  BY DEF IndInv
<1>1. ASSUME NEW e \in Emitters, EmitStore(e) PROVE NoLostWakeup'
  <2>1. emitPc'[e] = "wake"
    BY <1>0, <1>1 DEF EmitStore, TypeOK
  <2> QED
    BY <2>1 DEF NoLostWakeup
<1>2. ASSUME NEW e \in Emitters, EmitWake(e) PROVE NoLostWakeup'
  BY <1>2 DEF EmitWake, NoLostWakeup
<1>3. ASSUME NEW s \in Socks, OpenSock(s) \/ ReleaseSock(s) PROVE NoLostWakeup'
  <2> SUFFICES ASSUME NEW r \in waitq', pc'[r] = "sleep", HasPending(SockOf[r])'
               PROVE  \E e \in Emitters : emitPc'[e] = "wake"
    BY DEF NoLostWakeup
  <2>1. UNCHANGED <<emitVars, callVars>>
    BY <1>3 DEF OpenSock, ReleaseSock
  <2>2. r \in Readers /\ r \in waitq /\ SockOf[r] # s
    BY <1>0, <1>3, <2>1 DEF OpenSock, ReleaseSock, NoCallOnClosed, TypeOK, callVars
  <2>3. cursor'[SockOf[r]] = cursor[SockOf[r]]
    BY <1>0, <1>3, <2>2 DEF OpenSock, ReleaseSock, TypeOK
  <2> QED
    BY <1>0, <2>1, <2>2, <2>3 DEF NoLostWakeup, emitVars, callVars
<1>4. ASSUME NEW r \in Readers, Take(r) PROVE NoLostWakeup'
  <2> SUFFICES ASSUME NEW q \in waitq', pc'[q] = "sleep", HasPending(SockOf[q])'
               PROVE  \E e \in Emitters : emitPc'[e] = "wake"
    BY DEF NoLostWakeup
  <2>1. UNCHANGED <<next, emitPc, waitq>> /\ cursor[SockOf[r]] # next
    BY <1>4 DEF Take, emitVars
  <2>2. q \in Readers /\ pc[q] = "sleep" /\ q \in waitq
    BY <1>0, <1>4, <2>1 DEF Take, Goto, TypeOK
  <2>3. cursor[SockOf[q]] # next
    BY <1>0, <1>4, <2>1, <2>2 DEF Take, TakeEvent, TypeOK
  <2> QED
    BY <1>0, <2>1, <2>2, <2>3 DEF NoLostWakeup
<1>5. ASSUME NEW r \in Readers, Advance(r) PROVE NoLostWakeup'
  <2>1. CASE Take(r)
    BY <1>4, <2>1
  <2>2. CASE ~Take(r)
    BY <1>0, <1>5, <2>2, ZenonT(60) DEF Advance, TakeNothing, TryBeforeWait, Enqueue, CheckReady,
                            CheckSleep, Woken, CopyOut, Goto, emitVars, sockVars,
                            NoLostWakeup, TypeOK
  <2> QED
    BY <2>1, <2>2
<1>6. ASSUME NEW r \in Readers, NEW m \in {"block", "nonblock", "poll"}, Call(r, m)
      PROVE  NoLostWakeup'
  BY <1>0, <1>6 DEF Call, Goto, emitVars, sockVars, NoLostWakeup, TypeOK
<1>7. ASSUME NEW r \in Readers, Interrupt(r) PROVE NoLostWakeup'
  BY <1>0, <1>7 DEF Interrupt, Goto, emitVars, sockVars, NoLostWakeup, TypeOK
<1>8. CASE UNCHANGED vars
  BY <1>0, <1>8 DEF vars, emitVars, sockVars, callVars, NoLostWakeup
<1> QED
  BY <1>1, <1>2, <1>3, <1>5, <1>6, <1>7, <1>8 DEF Next, Emit

(* The history of a socket after a take: one event more, the old ones as   *)
(* they were.                                                              *)
LEMMA TakeAppends ==
  ASSUME IndInv, NEW r \in Readers, Take(r)
  PROVE  LET s == SockOf[r]
             n == Len(taken[s]) + 1
         IN  \E k \in 1 .. Len(log) :
               /\ s \in Socks /\ open[s]
               /\ n \in Nat \ {0}
               /\ cursor[s] \in Nat /\ k >= cursor[s]
               /\ cursor' = [cursor EXCEPT ![s] = k + 1]
               /\ Len(taken'[s]) = n
               /\ taken'[s][n] = [sequence    |-> k,
                                  payload     |-> log[k],
                                  lost_before |-> (k - cursor[s]) % LostModulus]
               /\ \A i \in 1 .. n - 1 : taken'[s][i] = taken[s][i]
               /\ \A q \in Socks : q # s => taken'[q] = taken[q]
               /\ UNCHANGED <<log, next, start, open>>
<1> DEFINE s == SockOf[r]
           n == Len(taken[s]) + 1
<1>1. PICK k \in 1 .. Len(log) :
           /\ \/ k = cursor[s]
              \/ k > cursor[s] /\ k = Len(log) - Capacity + 1
           /\ taken' = [taken EXCEPT ![s] =
                Append(@, [sequence    |-> k,
                           payload     |-> log[k],
                           lost_before |-> (k - cursor[s]) % LostModulus])]
           /\ cursor' = [cursor EXCEPT ![s] = k + 1]
  BY TakeFromLog
<1>2. s \in Socks /\ open[s]
  BY TakeFromLog
<1>3. /\ taken[s] \in Seq(Received)
      /\ taken \in [Socks -> Seq(Received)]
      /\ cursor[s] \in Nat
      /\ log \in Seq(Emitters)
  BY <1>2 DEF IndInv, TypeOK
<1>4. UNCHANGED <<log, next, start, open>>
  BY DEF Take, TakeEvent, emitVars
<1>5. k >= cursor[s]
  BY <1>1, <1>3
<1>6. n \in Nat \ {0}
  BY <1>3
<1> DEFINE x == [sequence    |-> k,
                 payload     |-> log[k],
                 lost_before |-> (k - cursor[s]) % LostModulus]
<1> HIDE DEF x
<1>7. taken'[s] = Append(taken[s], x) /\ \A q \in Socks : q # s => taken'[q] = taken[q]
  BY <1>1, <1>2, <1>3 DEF x
<1>8. /\ Len(taken'[s]) = n
      /\ taken'[s][n] = x
      /\ \A i \in 1 .. n - 1 : taken'[s][i] = taken[s][i]
  BY <1>3, <1>7
<1> HIDE DEF n, s
<1> QED
  BY <1>1, <1>2, <1>3, <1>4, <1>5, <1>6, <1>7, <1>8 DEF x, n, s

LEMMA TakenInv ==
  ASSUME IndInv, [Next]_vars
  PROVE  TakenWasEmitted'
<1>0. TypeOK /\ SocksSound /\ TakenWasEmitted
  BY DEF IndInv
<1>1. ASSUME NEW e \in Emitters, EmitStore(e) PROVE TakenWasEmitted'
  <2>1. /\ log \in Seq(Emitters) /\ log' = Append(log, e)
        /\ UNCHANGED <<taken, start>>
    BY <1>0, <1>1 DEF EmitStore, sockVars, TypeOK
  <2>2. /\ Len(log') = Len(log) + 1
        /\ \A i \in 1 .. Len(log) : log'[i] = log[i]
    BY <2>1
  <2>3. ASSUME NEW s \in Socks, NEW k \in 1 .. Len(taken[s])
        PROVE  /\ taken[s][k].sequence \in start[s] .. Len(log')
               /\ taken[s][k].payload = log'[taken[s][k].sequence]
    <3>1. /\ taken[s][k].sequence \in start[s] .. Len(log)
          /\ taken[s][k].payload = log[taken[s][k].sequence]
          /\ start[s] \in Nat /\ Len(log) \in Nat
      BY <1>0, <2>1 DEF TakenWasEmitted, TypeOK
    <3>2. start[s] >= 1
      BY <1>0 DEF SocksSound, TypeOK
    <3> QED
      BY <2>2, <3>1, <3>2
  <2> QED
    BY <2>1, <2>3 DEF TakenWasEmitted
<1>2. ASSUME NEW e \in Emitters, EmitWake(e) PROVE TakenWasEmitted'
  BY <1>0, <1>2 DEF EmitWake, sockVars, TakenWasEmitted
<1>3. ASSUME NEW s \in Socks, OpenSock(s) PROVE TakenWasEmitted'
  <2> SUFFICES ASSUME NEW q \in Socks, NEW k \in 1 .. Len(taken'[q])
               PROVE  /\ taken'[q][k].sequence \in start'[q] .. Len(log')
                      /\ taken'[q][k].payload = log'[taken'[q][k].sequence]
    BY DEF TakenWasEmitted
  <2>1. UNCHANGED <<log, taken>>
    BY <1>3 DEF OpenSock, emitVars
  <2>2. q # s
    BY <1>0, <1>3, <2>1 DEF OpenSock, SocksSound
  <2>3. start'[q] = start[q]
    BY <1>0, <1>3, <2>2 DEF OpenSock, TypeOK
  <2> QED
    BY <1>0, <2>1, <2>3 DEF TakenWasEmitted
<1>4. ASSUME NEW s \in Socks, ReleaseSock(s) PROVE TakenWasEmitted'
  <2> SUFFICES ASSUME NEW q \in Socks, NEW k \in 1 .. Len(taken'[q])
               PROVE  /\ taken'[q][k].sequence \in start'[q] .. Len(log')
                      /\ taken'[q][k].payload = log'[taken'[q][k].sequence]
    BY DEF TakenWasEmitted
  <2>1. q # s
    BY <1>0, <1>4 DEF ReleaseSock, TypeOK
  <2>2. taken'[q] = taken[q] /\ start'[q] = start[q] /\ UNCHANGED log
    BY <1>0, <1>4, <2>1 DEF ReleaseSock, TypeOK, emitVars
  <2> QED
    BY <1>0, <2>2 DEF TakenWasEmitted
<1>5. ASSUME NEW r \in Readers, Take(r) PROVE TakenWasEmitted'
  <2> DEFINE s == SockOf[r]
             n == Len(taken[s]) + 1
  <2>1. PICK k \in 1 .. Len(log) :
             /\ s \in Socks /\ open[s]
             /\ n \in Nat \ {0}
             /\ cursor[s] \in Nat /\ k >= cursor[s]
             /\ Len(taken'[s]) = n
             /\ taken'[s][n] = [sequence    |-> k,
                                payload     |-> log[k],
                                lost_before |-> (k - cursor[s]) % LostModulus]
             /\ \A i \in 1 .. n - 1 : taken'[s][i] = taken[s][i]
             /\ \A q \in Socks : q # s => taken'[q] = taken[q]
             /\ UNCHANGED <<log, start>>
    BY <1>5, TakeAppends
  <2>2. start[s] <= k /\ start[s] \in Nat /\ Len(log) \in Nat
    BY <1>0, <2>1 DEF SocksSound, TypeOK
  <2> SUFFICES ASSUME NEW q \in Socks, NEW i \in 1 .. Len(taken'[q])
               PROVE  /\ taken'[q][i].sequence \in start[q] .. Len(log)
                      /\ taken'[q][i].payload = log[taken'[q][i].sequence]
    BY <2>1 DEF TakenWasEmitted
  <2> HIDE DEF s
  <2>3. CASE q = s /\ i = n
    BY <2>1, <2>2, <2>3
  <2>4. CASE ~(q = s /\ i = n)
    <3>1. i \in 1 .. Len(taken[q]) /\ taken'[q][i] = taken[q][i]
      BY <2>1, <2>4, SMTT(30)
    <3> QED
      BY <1>0, <3>1 DEF TakenWasEmitted
  <2> QED
    BY <2>3, <2>4
<1>6. CASE UNCHANGED <<emitVars, sockVars>>
  BY <1>0, <1>6 DEF emitVars, sockVars, TakenWasEmitted
<1> QED
  BY <1>1, <1>2, <1>3, <1>4, <1>5, <1>6, Steps

(* What LossIsReported says of one socket.                                 *)
LossOn(s) ==
  /\ \A k \in 1 .. Len(taken[s]) :
       /\ taken[s][k].sequence >= DueBefore(s, k)
       /\ taken[s][k].lost_before
            = (taken[s][k].sequence - DueBefore(s, k)) % LostModulus
  /\ cursor[s] = DueBefore(s, Len(taken[s]) + 1)

LEMMA LossUnchanged ==
  ASSUME NEW s \in Socks, LossOn(s), UNCHANGED <<taken[s], start[s], cursor[s]>>
  PROVE  LossOn(s)'
BY DEF LossOn, DueBefore

LEMMA LossInv ==
  ASSUME IndInv, [Next]_vars
  PROVE  LossIsReported'
<1>0. TypeOK /\ SocksSound /\ \A s \in Socks : LossOn(s)
  BY DEF IndInv, LossIsReported, LossOn
<1> SUFFICES \A s \in Socks : LossOn(s)'
  BY DEF LossIsReported, LossOn
<1>1. ASSUME UNCHANGED <<taken, start, cursor>> PROVE \A s \in Socks : LossOn(s)'
  BY <1>0, <1>1, LossUnchanged
<1>2. ASSUME NEW e \in Emitters, EmitStore(e) \/ EmitWake(e)
      PROVE  UNCHANGED <<taken, start, cursor>>
  BY <1>2 DEF EmitStore, EmitWake, sockVars
<1>3. ASSUME NEW s \in Socks, OpenSock(s) PROVE \A q \in Socks : LossOn(q)'
  <2>1. taken[s] = <<>> /\ taken' = taken
    BY <1>0, <1>3 DEF OpenSock, SocksSound
  <2>2. cursor'[s] = next /\ start'[s] = next
    BY <1>0, <1>3 DEF OpenSock, TypeOK
  <2>3. LossOn(s)'
    BY <2>1, <2>2 DEF LossOn, DueBefore
  <2>4. ASSUME NEW q \in Socks, q # s PROVE LossOn(q)'
    <3>1. UNCHANGED <<taken[q], start[q], cursor[q]>>
      BY <1>0, <1>3, <2>1, <2>4 DEF OpenSock, TypeOK
    <3> QED
      BY <1>0, <3>1, LossUnchanged
  <2> QED
    BY <2>3, <2>4
<1>4. ASSUME NEW s \in Socks, ReleaseSock(s) PROVE \A q \in Socks : LossOn(q)'
  <2>1. taken'[s] = <<>> /\ cursor'[s] = 0 /\ start'[s] = 0
    BY <1>0, <1>4 DEF ReleaseSock, TypeOK
  <2>2. LossOn(s)'
    BY <2>1 DEF LossOn, DueBefore
  <2>3. ASSUME NEW q \in Socks, q # s PROVE LossOn(q)'
    <3>1. UNCHANGED <<taken[q], start[q], cursor[q]>>
      BY <1>0, <1>4, <2>3 DEF ReleaseSock, TypeOK
    <3> QED
      BY <1>0, <3>1, LossUnchanged
  <2> QED
    BY <2>2, <2>3
<1>5. ASSUME NEW r \in Readers, Take(r) PROVE \A q \in Socks : LossOn(q)'
  <2> DEFINE s == SockOf[r]
  <2>0. PICK n : n = Len(taken[s]) + 1
    OBVIOUS
  <2>1. PICK k \in 1 .. Len(log) :
             /\ s \in Socks
             /\ n \in Nat \ {0}
             /\ cursor[s] \in Nat /\ k >= cursor[s]
             /\ cursor' = [cursor EXCEPT ![s] = k + 1]
             /\ Len(taken'[s]) = n
             /\ taken'[s][n] = [sequence    |-> k,
                                payload     |-> log[k],
                                lost_before |-> (k - cursor[s]) % LostModulus]
             /\ \A i \in 1 .. n - 1 : taken'[s][i] = taken[s][i]
             /\ \A q \in Socks : q # s => taken'[q] = taken[q]
             /\ UNCHANGED start
    BY <1>5, <2>0, TakeAppends
  <2>2. LossOn(s) /\ cursor[s] = DueBefore(s, n) /\ cursor'[s] = k + 1
    BY <1>0, <2>0, <2>1 DEF LossOn, TypeOK
  <2>3. \A i \in 1 .. n : DueBefore(s, i)' = DueBefore(s, i)
    BY <2>1, SMTT(30) DEF DueBefore
  <2>4. DueBefore(s, n + 1)' = k + 1
    BY <2>1 DEF DueBefore
  <2>5. Len(taken[s]) = n - 1
    BY <1>0, <2>0, <2>1 DEF TypeOK
  <2> HIDE DEF s
  <2>6. ASSUME NEW i \in 1 .. n
        PROVE  /\ taken'[s][i].sequence >= DueBefore(s, i)'
               /\ taken'[s][i].lost_before
                    = (taken'[s][i].sequence - DueBefore(s, i)') % LostModulus
    <3>1. CASE i = n
      BY <2>1, <2>2, <2>3, <3>1
    <3>2. CASE i # n
      <4>1. i \in 1 .. n - 1
        BY <2>1, <3>2
      <4> QED
        BY <2>1, <2>2, <2>3, <2>5, <4>1 DEF LossOn
    <3> QED
      BY <3>1, <3>2
  <2>7. LossOn(s)'
    BY <2>1, <2>2, <2>4, <2>6 DEF LossOn
  <2>8. ASSUME NEW q \in Socks, q # s PROVE LossOn(q)'
    <3>1. UNCHANGED <<taken[q], start[q], cursor[q]>>
      BY <1>0, <2>1, <2>8 DEF TypeOK
    <3> QED
      BY <1>0, <3>1, LossUnchanged
  <2> QED
    BY <2>7, <2>8
<1> QED
  BY <1>1, <1>2, <1>3, <1>4, <1>5, Steps DEF sockVars

-----------------------------------------------------------------------------
(* The theorems.                                                           *)

LEMMA NextInv == IndInv /\ [Next]_vars => IndInv'
<1> SUFFICES ASSUME IndInv, [Next]_vars PROVE IndInv'
  OBVIOUS
<1>1. TypeOK' /\ Len(log)' = next' - 1 /\ RingHoldsTail'
  BY TypeInv, RingInv
<1>2. SocksSound' /\ NoCallOnClosed' /\ NoLostWakeup'
  BY SocksInv, CallInv, WakeupInv
<1>3. TakenWasEmitted' /\ LossIsReported'
  BY TakenInv, LossInv
<1> QED
  BY <1>1, <1>2, <1>3 DEF IndInv

(* The inductive invariant holds throughout.                               *)
THEOREM Invariance == Spec => []IndInv
<1> QED
  BY InitInv, NextInv, PTL DEF Spec

(* Every variable stays in its type.                                       *)
THEOREM TypeCorrect == Spec => []TypeOK
<1>1. IndInv => TypeOK
  BY DEF IndInv
<1> QED
  BY <1>1, Invariance, PTL

(* Whatever the interleaving of emitters and readers, a read returns the   *)
(* event that was emitted under the sequence number it carries.            *)
THEOREM TakenCorrect == Spec => []TakenWasEmitted
<1>1. IndInv => TakenWasEmitted
  BY DEF IndInv
<1> QED
  BY <1>1, Invariance, PTL

(* Whatever is overwritten before it is read is reported as lost, once.    *)
THEOREM LossCorrect == Spec => []LossIsReported
<1>1. IndInv => LossIsReported
  BY DEF IndInv
<1> QED
  BY <1>1, Invariance, PTL

(* No reader sleeps through a stored event that nobody is to wake it for.  *)
THEOREM WakeupCorrect == Spec => []NoLostWakeup
<1>1. IndInv => NoLostWakeup
  BY DEF IndInv
<1> QED
  BY <1>1, Invariance, PTL

(* The ring implements the log: an overrun reader loses exactly what has   *)
(* left the window, and everything else is handed out in order.            *)
THEOREM Refinement == Spec => KeepsTheLog
<1>1. Init => Promised!Init
  BY DEF Init, Promised!Init
<1>2. IndInv /\ [Next]_vars => [Promised!Next]_(Promised!vars)
  <2> SUFFICES ASSUME IndInv, [Next]_vars
               PROVE  Promised!Next \/ UNCHANGED <<log, open, cursor, taken>>
    BY DEF Promised!vars
  <2>1. ASSUME NEW e \in Emitters, EmitStore(e) PROVE Promised!Next
    <3>1. Promised!Happen(e)
      BY <2>1 DEF EmitStore, sockVars, Promised!Happen
    <3> QED
      BY <3>1 DEF Promised!Next
  <2>2. ASSUME NEW e \in Emitters, EmitWake(e)
        PROVE  UNCHANGED <<log, open, cursor, taken>>
    BY <2>2 DEF EmitWake, sockVars
  <2>3. ASSUME NEW s \in Socks, OpenSock(s) PROVE Promised!Next
    <3>1. next = Len(log) + 1
      BY DEF IndInv, TypeOK
    <3>2. Promised!Open(s)
      BY <2>3, <3>1 DEF OpenSock, emitVars, Promised!Open
    <3> QED
      BY <3>2 DEF Promised!Next
  <2>4. ASSUME NEW s \in Socks, ReleaseSock(s) PROVE Promised!Next
    <3>1. Promised!Close(s)
      BY <2>4 DEF ReleaseSock, emitVars, Promised!Close
    <3> QED
      BY <3>1 DEF Promised!Next
  <2>5. ASSUME NEW r \in Readers, Take(r) PROVE Promised!Next
    <3>1. SockOf[r] \in Socks /\ UNCHANGED <<log, open>>
      BY <2>5, TakeFromLog DEF Take, TakeEvent, emitVars
    <3>2. Promised!Hand(SockOf[r])
      BY <2>5, <3>1, TakeFromLog DEF Promised!Hand, Promised!MayHand
    <3> QED
      BY <3>1, <3>2, SMTT(30) DEF Promised!Next
  <2>6. CASE UNCHANGED <<emitVars, sockVars>>
    BY <2>6 DEF emitVars, sockVars
  <2> QED
    BY <2>1, <2>2, <2>3, <2>4, <2>5, <2>6, Steps
<1> QED
  BY <1>1, <1>2, Invariance, PTL DEF Spec, KeepsTheLog, Promised!Spec
=============================================================================
