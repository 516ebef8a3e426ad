--------------------------- MODULE TraceStreamProofs --------------------------
(***************************************************************************)
(* TraceStream, proved for any number of events, any views and any page    *)
(* size.                                                                   *)
(*                                                                         *)
(* The properties say what the window is; that it stays so depends on what *)
(* is under way.  The inductive invariant says of every request, by where  *)
(* it is, what its answer will be or is: a refresh brings the end of what  *)
(* matches, and a page of older or newer events, unless something came in  *)
(* between, the events next to the window there is.  With one more fact,   *)
(* that a window with more around it is full, merging and trimming leave a *)
(* part of what matches again.                                             *)
(***************************************************************************)
EXTENDS TraceStream, FiniteSetTheorems, SequenceTheorems, WellFoundedInduction, TLAPS
-----------------------------------------------------------------------------
(* The inductive invariant.                                                *)

Flags  == [before : BOOLEAN, after : BOOLEAN]
Ranges == {<<>>} \cup (Int \X Int)
Pages  == [events : Seq(1 .. MaxSeq), range : Ranges, more : Flags]
SentRequests == [state : {"sent"}, view : Views, cursor : Int, stale : BOOLEAN, crossed : BOOLEAN]
Answers == [state : {"answered"}, view : Views, stale : BOOLEAN, crossed : BOOLEAN, data : Pages]

Ascending(s) == \A i, j \in DOMAIN s : i < j => s[i] < s[j]

(* Events that the filters let through, each once, captured before `upTo'. *)
Shown(events, v, upTo) ==
  /\ events \in Seq(1 .. MaxSeq) /\ IsInjective(events)
  /\ \A k \in DOMAIN events : events[k] \in v.match /\ events[k] < upTo

HistoryOk ==
  /\ history \in Seq(1 .. MaxSeq) /\ next \in 1 .. MaxSeq + 1 /\ view \in Views
  /\ \A k \in DOMAIN history : history[k] < next
  /\ \A v \in Views : Shown(Matched(v), v, next) /\ Ascending(Matched(v))

(* Events, with their ordinals and what is said of more, are a part of the *)
(* events that match.                                                      *)
PartOf(matched, events, ordinals, flags) ==
  IF ordinals = <<>> THEN events = <<>> /\ flags = NoMore
  ELSE /\ 1 <= ordinals[1] /\ ordinals[1] <= ordinals[2] /\ ordinals[2] <= Len(matched)
       /\ events = SubSeq(matched, ordinals[1], ordinals[2])
       /\ flags.before <=> ordinals[1] > 1
       /\ flags.after => ordinals[2] < Len(matched)

(* What a refresh brings is the end, all of it unless it is as long as may *)
(* be.                                                                     *)
LatestOk(page, limit) ==
  /\ Len(page.events) <= limit
  /\ page.more.before => Len(page.events) = limit
  /\ ~page.more.after

(* A load that nothing came in between of is for the table as it is: its   *)
(* page ends before the first event of the window or begins after the last.*)
LoadOk(m, f, matched, events, flags, other) ==
  /\ events # <<>>
  /\ m = "older" =>
       /\ flags.before
       /\ f.state = "sent" => f.cursor = events[1]
       /\ f.state = "answered" => \A k \in DOMAIN matched :
            matched[k] < events[1] <=> f.data.range # <<>> /\ k <= f.data.range[2]
  /\ m = "newer" =>
       /\ flags.after
       /\ f.state = "sent" => f.cursor = events[Len(events)]
       /\ f.state = "answered" =>
            /\ f.data.range = <<>> => other
            /\ f.data.range # <<>> => \A k \in DOMAIN matched :
                 matched[k] <= events[Len(events)] <=> k < f.data.range[1]

FlightOk(m, f, matched, v, events, flags, upTo, other) ==
  f # None =>
    /\ f \in SentRequests \cup Answers
    /\ f.state = "answered" => Shown(f.data.events, f.view, upTo)
    /\ ~f.stale => f.view = v
    /\ ~f.stale /\ ~f.crossed =>
         /\ f.state = "answered" =>
              PartOf(matched, f.data.events, f.data.range, f.data.more)
         /\ m = "latest" /\ f.state = "answered" => LatestOk(f.data, v.limit)
         /\ m # "latest" => LoadOk(m, f, matched, events, flags, other)

FlightsOk ==
  /\ DOMAIN flight = Modes
  /\ \A m \in Modes : FlightOk(m, flight[m], Matched(view), view, window, more, next, crossed)

(* The window is a part of what matches unless answers crossed, and as     *)
(* long as it may be when there is more.                                   *)
WindowOk ==
  /\ Shown(window, view, next) /\ Len(window) <= view.limit
  /\ range \in Ranges /\ more \in Flags
  /\ ~crossed =>
       /\ PartOf(Matched(view), window, range, more)
       /\ more.before \/ more.after => Len(window) = view.limit

RestOk ==
  /\ running \in BOOLEAN /\ follow \in BOOLEAN /\ crossed \in BOOLEAN
  /\ clearing \in {"no", "sent", "done"}

StreamInv == HistoryOk /\ FlightsOk /\ WindowOk /\ RestOk
-----------------------------------------------------------------------------
(* What Keep returns.  Nat is well-founded; a set that has 0 and the next  *)
(* of each of its members has all of Nat.                                  *)
LEMMA SetInduction ==
  ASSUME NEW T \in SUBSET Nat, 0 \in T, \A n \in T : n + 1 \in T
  PROVE  \A n \in Nat : n \in T
<1> SUFFICES ASSUME Nat \ T # {} PROVE FALSE
  OBVIOUS
<1> DEFINE R == OpToRel(<, Nat)
<1>1. IsWellFoundedOn(R, Nat)
  BY NatLessThanWellFounded
<1>2. \A x, y \in Nat : x < y => <<x, y>> \in R
  BY DEF OpToRel
<1> HIDE DEF R
<1>3. PICK m \in Nat \ T : \A y \in Nat \ T : ~(<<y, m>> \in R)
  BY <1>1, WFMin
<1>4. m # 0 /\ m - 1 \in Nat /\ m - 1 < m
  BY <1>3
<1>5. m - 1 \in T
  <2>1. <<m - 1, m>> \in R
    BY <1>2, <1>4
  <2> QED
    BY <1>3, <1>4, <2>1
<1> QED
  BY <1>3, <1>4, <1>5

Step(g, s, P, n) ==
  IF n = 0 THEN <<>> ELSE IF s[n] \in P THEN Append(g[n - 1], s[n]) ELSE g[n - 1]
IsKept(f, s, P, m) == f = [n \in 0 .. m |-> Step(f, s, P, n)]

LEMMA KeptExists ==
  ASSUME NEW s, NEW P PROVE \A m \in Nat : \E f : IsKept(f, s, P, m)
<1> DEFINE T == {m \in Nat : \E f : IsKept(f, s, P, m)}
<1>1. 0 \in T
  <2>1. IsKept([n \in 0 .. 0 |-> <<>>], s, P, 0)
    BY DEF IsKept, Step
  <2> QED
    BY <2>1
<1>2. ASSUME NEW m \in T PROVE m + 1 \in T
  <2>1. PICK f : IsKept(f, s, P, m)
    BY <1>2
  <2> DEFINE g == [n \in 0 .. m + 1 |-> IF n = m + 1 THEN Step(f, s, P, n) ELSE f[n]]
  <2>2. ASSUME NEW n \in 0 .. m + 1 PROVE g[n] = Step(g, s, P, n)
    <3>1. CASE n = 0
      BY <2>1, <3>1 DEF IsKept, Step
    <3>2. CASE n # 0
      <4>1. g[n - 1] = f[n - 1]
        BY <3>2
      <4>2. Step(g, s, P, n) = Step(f, s, P, n)
        BY <4>1 DEF Step
      <4>3. n # m + 1 => f[n] = Step(f, s, P, n)
        BY <2>1 DEF IsKept
      <4> QED
        BY <4>2, <4>3
    <3> QED
      BY <3>1, <3>2
  <2>3. IsKept(g, s, P, m + 1)
    BY <2>2 DEF IsKept
  <2> HIDE DEF g
  <2> QED
    BY <2>3
<1> HIDE DEF T
<1>3. \A m \in Nat : m \in T
  BY <1>1, <1>2, SetInduction DEF T
<1> QED
  BY <1>3 DEF T

LEMMA KeepDef ==
  ASSUME NEW S, NEW s \in Seq(S), NEW P
  PROVE  \E f : IsKept(f, s, P, Len(s)) /\ Keep(s, P) = f[Len(s)]
<1> DEFINE kept == CHOOSE f : IsKept(f, s, P, Len(s))
<1>1. IsKept(kept, s, P, Len(s))
  BY KeptExists
<1>2. Keep(s, P) = kept[Len(s)]
  BY DEF Keep, IsKept, Step
<1> QED
  BY <1>1, <1>2

LEMMA KeepEmpty == ASSUME NEW P PROVE Keep(<<>>, P) = <<>>
<1>1. <<>> \in Seq({}) /\ Len(<<>>) = 0
  OBVIOUS
<1>2. PICK f : IsKept(f, <<>>, P, 0) /\ Keep(<<>>, P) = f[0]
  BY <1>1, KeepDef
<1>3. f[0] = <<>>
  BY <1>2 DEF IsKept, Step
<1> QED
  BY <1>2, <1>3

LEMMA KeepAppend ==
  ASSUME NEW S, NEW s \in Seq(S), NEW e \in S, NEW P
  PROVE  Keep(Append(s, e), P) = IF e \in P THEN Append(Keep(s, P), e) ELSE Keep(s, P)
<1> DEFINE t == Append(s, e)
           m == Len(s)
<1>1. t \in Seq(S) /\ m \in Nat /\ Len(t) = m + 1 /\ t[m + 1] = e /\ \A i \in 1 .. m : t[i] = s[i]
  OBVIOUS
<1> HIDE DEF t
<1>2. PICK f : IsKept(f, s, P, m) /\ Keep(s, P) = f[m]
  BY KeepDef
<1>3. PICK g : IsKept(g, t, P, m + 1) /\ Keep(t, P) = g[m + 1]
  BY <1>1, KeepDef
<1> HIDE DEF m
<1> DEFINE T == {n \in Nat : n <= m => g[n] = f[n]}
<1>4. 0 \in T
  BY <1>1, <1>2, <1>3 DEF IsKept, Step
<1>5. ASSUME NEW n \in T PROVE n + 1 \in T
  <2>1. SUFFICES ASSUME n + 1 <= m PROVE g[n + 1] = f[n + 1]
    OBVIOUS
  <2>2. n \in Nat /\ n + 1 \in 0 .. m /\ n + 1 \in 0 .. m + 1 /\ n + 1 \in 1 .. m /\ (n + 1) - 1 = n
        /\ n + 1 # 0
    BY <1>1, <2>1
  <2>3. g[n] = f[n]
    BY <1>1, <2>1, <2>2
  <2>4. f[n + 1] = Step(f, s, P, n + 1) /\ g[n + 1] = Step(g, t, P, n + 1)
    BY <1>2, <1>3, <2>2 DEF IsKept
  <2> QED
    BY <1>1, <2>2, <2>3, <2>4 DEF Step
<1> HIDE DEF T
<1>6. m \in T
  BY <1>1, <1>4, <1>5, SetInduction DEF T
<1>7. g[m] = f[m]
  BY <1>1, <1>6 DEF T
<1>8. g[m + 1] = Step(g, t, P, m + 1)
  <2>1. m + 1 \in 0 .. m + 1
    BY <1>1
  <2> QED
    BY <1>3, <2>1 DEF IsKept
<1>9. (m + 1) - 1 = m /\ m + 1 # 0
  BY <1>1
<1> QED
  BY <1>1, <1>2, <1>3, <1>7, <1>8, <1>9 DEF Step, t

LEMMA KeepFacts ==
  ASSUME NEW S, NEW s \in Seq(S), NEW P
  PROVE  /\ Keep(s, P) \in Seq(S)
         /\ \A k \in DOMAIN Keep(s, P) :
              Keep(s, P)[k] \in P /\ \E j \in DOMAIN s : Keep(s, P)[k] = s[j]
         /\ IsInjective(s) => IsInjective(Keep(s, P))
         /\ (\A j \in DOMAIN s : s[j] \in P) => Keep(s, P) = s
<1>1. PICK f : IsKept(f, s, P, Len(s)) /\ Keep(s, P) = f[Len(s)]
  BY KeepDef
<1> DEFINE Good(n) ==
             /\ f[n] \in Seq(S)
             /\ \A k \in DOMAIN f[n] : f[n][k] \in P /\ \E j \in 1 .. n : f[n][k] = s[j]
             /\ IsInjective(s) => IsInjective(f[n])
             /\ (\A j \in DOMAIN s : s[j] \in P) =>
                  Len(f[n]) = n /\ \A k \in 1 .. n : f[n][k] = s[k]
           T == {n \in Nat : n <= Len(s) => Good(n)}
<1>2. Len(s) \in Nat /\ DOMAIN s = 1 .. Len(s)
  OBVIOUS
<1>3. 0 \in T
  <2>1. f[0] = <<>>
    BY <1>1, <1>2 DEF IsKept, Step
  <2>2. IsInjective(<<>>) /\ <<>> \in Seq(S) /\ DOMAIN <<>> = {} /\ Len(<<>>) = 0
    BY DEF IsInjective
  <2>3. Good(0)
    BY <2>1, <2>2
  <2> QED
    BY <2>3
<1>4. ASSUME NEW n \in T PROVE n + 1 \in T
  <2>1. SUFFICES ASSUME n + 1 <= Len(s) PROVE Good(n + 1)
    OBVIOUS
  <2>2. n \in Nat /\ n + 1 \in 0 .. Len(s) /\ n + 1 \in DOMAIN s /\ (n + 1) - 1 = n /\ n + 1 # 0
        /\ s[n + 1] \in S
    BY <1>2, <2>1
  <2>3. Good(n)
    BY <1>2, <2>1, <2>2
  <2>4. f[n + 1] = IF s[n + 1] \in P THEN Append(f[n], s[n + 1]) ELSE f[n]
    <3>1. f[n + 1] = Step(f, s, P, n + 1)
      BY <1>1, <2>2 DEF IsKept
    <3> QED
      BY <2>2, <3>1 DEF Step
  <2> DEFINE a == f[n]
             b == f[n + 1]
  <2>5. CASE s[n + 1] \notin P
    <3>1. b = a /\ ~(\A j \in DOMAIN s : s[j] \in P)
      BY <2>2, <2>4, <2>5
    <3> QED
      BY <2>2, <2>3, <3>1
  <2>6. CASE s[n + 1] \in P
    <3>1. b = Append(a, s[n + 1]) /\ a \in Seq(S)
      BY <2>3, <2>4, <2>6
    <3> HIDE DEF a, b
    <3>2. b \in Seq(S) /\ Len(b) = Len(a) + 1 /\ b[Len(b)] = s[n + 1]
          /\ DOMAIN a = 1 .. Len(a) /\ DOMAIN b = 1 .. Len(b) /\ Len(a) \in Nat
          /\ \A k \in 1 .. Len(a) : b[k] = a[k]
      BY <2>2, <3>1
    <3>3. \A k \in DOMAIN a : a[k] \in P /\ \E j \in 1 .. n : a[k] = s[j]
      BY <2>3 DEF a
    <3>4. \A k \in DOMAIN b : k \in DOMAIN a \/ k = Len(b)
      BY <3>2
    <3>5. ASSUME NEW k \in DOMAIN b PROVE b[k] \in P /\ \E j \in 1 .. n + 1 : b[k] = s[j]
      BY <2>2, <2>6, <3>2, <3>3, <3>4
    <3>6. ASSUME IsInjective(s) PROVE IsInjective(b)
      <4>1. \A j \in 1 .. n : s[j] # s[n + 1]
        BY <1>2, <2>2, <3>6 DEF IsInjective
      <4>2. IsInjective(a)
        BY <2>3, <3>6 DEF a
      <4>3. ASSUME NEW i \in DOMAIN b, NEW k \in DOMAIN b, b[i] = b[k] PROVE i = k
        <5>1. CASE i \in DOMAIN a /\ k \in DOMAIN a
          BY <3>2, <4>2, <4>3, <5>1 DEF IsInjective
        <5>2. CASE i = Len(b) /\ k \in DOMAIN a
          BY <3>2, <3>3, <4>1, <4>3, <5>2
        <5>3. CASE k = Len(b) /\ i \in DOMAIN a
          BY <3>2, <3>3, <4>1, <4>3, <5>3
        <5> QED
          BY <3>4, <5>1, <5>2, <5>3
      <4> QED
        BY <4>3 DEF IsInjective
    <3>7. ASSUME \A j \in DOMAIN s : s[j] \in P
          PROVE  Len(b) = n + 1 /\ \A k \in 1 .. n + 1 : b[k] = s[k]
      <4>1. Len(a) = n /\ \A k \in 1 .. n : a[k] = s[k]
        BY <2>3, <3>7 DEF a
      <4> QED
        BY <2>2, <3>2, <4>1
    <3> QED
      BY <3>2, <3>5, <3>6, <3>7 DEF b
  <2> QED
    BY <2>5, <2>6
<1> HIDE DEF T
<1>5. Len(s) \in T
  BY <1>2, <1>3, <1>4, SetInduction DEF T
<1>6. Good(Len(s))
  BY <1>2, <1>5 DEF T
<1>7. ASSUME \A j \in DOMAIN s : s[j] \in P PROVE Keep(s, P) = s
  <2>1. Keep(s, P) \in Seq(S) /\ Len(Keep(s, P)) = Len(s)
        /\ \A k \in 1 .. Len(s) : Keep(s, P)[k] = s[k]
    BY <1>1, <1>6, <1>7
  <2> QED
    BY <2>1, SeqEqual
<1> QED
  BY <1>1, <1>2, <1>6, <1>7
-----------------------------------------------------------------------------
(* Parts of sequences.                                                     *)

LEMMA PartFacts ==
  ASSUME NEW S, NEW s \in Seq(S), NEW a \in Int, NEW b \in Int, 1 <= a, b <= Len(s)
  PROVE  /\ SubSeq(s, a, b) \in Seq(S)
         /\ Len(SubSeq(s, a, b)) = IF a <= b THEN b - a + 1 ELSE 0
         /\ DOMAIN SubSeq(s, a, b) = 1 .. Len(SubSeq(s, a, b))
         /\ \A k \in 1 .. Len(SubSeq(s, a, b)) :
              a + k - 1 \in DOMAIN s /\ SubSeq(s, a, b)[k] = s[a + k - 1]
  OBVIOUS

LEMMA PartOfLonger ==
  ASSUME NEW S, NEW s \in Seq(S), NEW e \in S, NEW a \in Int, NEW b \in Int, 1 <= a, b <= Len(s)
  PROVE  SubSeq(Append(s, e), a, b) = SubSeq(s, a, b)
<1> DEFINE t == Append(s, e)
           x == SubSeq(t, a, b)
           y == SubSeq(s, a, b)
<1>1. t \in Seq(S) /\ Len(t) = Len(s) + 1 /\ \A k \in 1 .. Len(s) : t[k] = s[k]
  OBVIOUS
<1> HIDE DEF t
<1>2. /\ x \in Seq(S) /\ Len(x) = IF a <= b THEN b - a + 1 ELSE 0
      /\ \A k \in 1 .. Len(x) : x[k] = t[a + k - 1]
  BY <1>1, PartFacts
<1>3. /\ y \in Seq(S) /\ Len(y) = IF a <= b THEN b - a + 1 ELSE 0
      /\ \A k \in 1 .. Len(y) : a + k - 1 \in 1 .. Len(s) /\ y[k] = s[a + k - 1]
  BY PartFacts
<1> HIDE DEF x, y
<1> QED
  BY <1>1, <1>2, <1>3, SeqEqual DEF x, y, t

(* A set of positions that has every position before each of its own.      *)
LEMMA CountFacts ==
  ASSUME NEW len \in Nat, NEW D \in SUBSET (1 .. len), \A j \in D : \A i \in 1 .. len : i < j
         => i \in D
  PROVE  Cardinality(D) \in 0 .. len /\ \A k \in 1 .. len : k \in D <=> k <= Cardinality(D)
<1> DEFINE T == {n \in Nat : n <= len /\ 1 .. n \subseteq D}
<1>1. PICK n \in Nat : n \in T /\ n + 1 \notin T
  <2>1. 0 \in T
    OBVIOUS
  <2>2. len + 1 \notin T
    OBVIOUS
  <2> HIDE DEF T
  <2>3. T \in SUBSET Nat
    BY DEF T
  <2> SUFFICES ASSUME \A n \in T : n + 1 \in T PROVE FALSE
    BY <2>3
  <2>4. \A n \in Nat : n \in T
    BY <2>1, <2>3, SetInduction
  <2> QED
    BY <2>2, <2>4
<1>2. D = 1 .. n
  <2>1. ASSUME NEW j \in D PROVE j <= n
    <3>1. SUFFICES ASSUME n < j PROVE FALSE
      BY <1>1
    <3>2. n + 1 \in 1 .. len /\ (n + 1 < j \/ n + 1 = j)
      BY <1>1, <3>1
    <3>3. n + 1 \in D
      BY <3>2
    <3>4. 1 .. n + 1 \subseteq D
      BY <1>1, <3>3
    <3> QED
      BY <1>1, <3>2, <3>4
  <2>2. \A j \in D : j \in 1 .. n
    BY <2>1
  <2>3. 1 .. n \subseteq D
    BY <1>1
  <2> QED
    BY <2>2, <2>3
<1>3. Cardinality(1 .. n) = n
  BY <1>1, FS_Interval
<1> QED
  BY <1>1, <1>2, <1>3
-----------------------------------------------------------------------------
(* Pages and windows.                                                      *)

LEMMA ShownPart ==
  ASSUME NEW s, NEW v, NEW u \in Int, Shown(s, v, u),
         NEW a \in Int, NEW b \in Int, 1 <= a, b <= Len(s)
  PROVE  Shown(SubSeq(s, a, b), v, u)
<1> DEFINE t == SubSeq(s, a, b)
           S == 1 .. MaxSeq
<1>1. s \in Seq(S) /\ IsInjective(s)
  BY DEF Shown
<1> HIDE DEF S
<1>2. /\ t \in Seq(S) /\ DOMAIN t = 1 .. Len(t) /\ Len(t) \in Nat
      /\ \A k \in 1 .. Len(t) : a + k - 1 \in DOMAIN s /\ t[k] = s[a + k - 1]
  <2>1. /\ t \in Seq(S) /\ DOMAIN t = 1 .. Len(t)
        /\ \A k \in 1 .. Len(t) : a + k - 1 \in DOMAIN s /\ t[k] = s[a + k - 1]
    BY <1>1, PartFacts
  <2> HIDE DEF t
  <2> QED
    BY <2>1
<1> HIDE DEF t
<1>3. ASSUME NEW i \in DOMAIN t, NEW j \in DOMAIN t, t[i] = t[j] PROVE i = j
  <2>1. a + i - 1 = a + j - 1
    BY <1>1, <1>2, <1>3 DEF IsInjective
  <2> QED
    BY <1>2, <2>1
<1>4. \A k \in DOMAIN t : t[k] \in v.match /\ t[k] < u
  BY <1>2 DEF Shown
<1> QED
  BY <1>2, <1>3, <1>4 DEF Shown, IsInjective, t, S

LEMMA ShownLater ==
  ASSUME NEW s, NEW v, NEW u \in Int, NEW w \in Int, u <= w, Shown(s, v, u), v \in Views
  PROVE  Shown(s, v, w)
<1>1. s \in Seq(1 .. MaxSeq)
  BY DEF Shown
<1>2. \A k \in DOMAIN s : s[k] \in Int
  BY <1>1, StreamAssumption
<1>3. \A k \in DOMAIN s : s[k] < w
  BY <1>2 DEF Shown
<1> QED
  BY <1>3 DEF Shown

LEMMA ShownNothing ==
  ASSUME NEW v, NEW u PROVE Shown(<<>>, v, u)
<1>1. <<>> \in Seq(1 .. MaxSeq) /\ DOMAIN <<>> = {}
  OBVIOUS
<1> QED
  BY <1>1 DEF Shown, IsInjective

LEMMA SetOfSeq ==
  ASSUME NEW s, NEW e PROVE e \in ToSet(s) <=> \E k \in DOMAIN s : e = s[k]
BY DEF ToSet

LEMMA ShownTogether ==
  ASSUME NEW x, NEW y, NEW v, NEW u, Shown(x, v, u), Shown(y, v, u)
  PROVE  Shown(Dedupe(x, y), v, u)
<1> DEFINE P == ToSet(y) \ ToSet(x)
           z == Keep(y, P)
           d == x \o z
<1>1. /\ x \in Seq(1 .. MaxSeq) /\ IsInjective(x) /\ \A k \in DOMAIN x : x[k] \in v.match
         /\ x[k] < u
      /\ y \in Seq(1 .. MaxSeq) /\ IsInjective(y) /\ \A k \in DOMAIN y : y[k] \in v.match
            /\ y[k] < u
  BY DEF Shown
<1>2. /\ z \in Seq(1 .. MaxSeq) /\ IsInjective(z)
      /\ \A k \in DOMAIN z : z[k] \in P /\ \E j \in DOMAIN y : z[k] = y[j]
  BY <1>1, KeepFacts
<1>3. \A k \in DOMAIN z : \A j \in DOMAIN x : z[k] # x[j]
  BY <1>2, SetOfSeq
<1> HIDE DEF P, z
<1>4. /\ d \in Seq(1 .. MaxSeq) /\ Len(d) = Len(x) + Len(z)
      /\ \A i \in 1 .. Len(x) + Len(z) : d[i] = IF i <= Len(x) THEN x[i] ELSE z[i - Len(x)]
  BY <1>1, <1>2, ConcatProperties
<1>5. Len(x) \in Nat /\ Len(z) \in Nat /\ DOMAIN x = 1 .. Len(x) /\ DOMAIN z = 1 .. Len(z)
  BY <1>1, <1>2
<1>6. DOMAIN d = 1 .. Len(x) + Len(z)
  BY <1>4, <1>5
<1> HIDE DEF d
<1>7. ASSUME NEW k \in DOMAIN d
      PROVE  \/ k \in DOMAIN x /\ d[k] = x[k]
             \/ k > Len(x) /\ k - Len(x) \in DOMAIN z /\ d[k] = z[k - Len(x)]
  BY <1>4, <1>5, <1>6
<1>8. \A k \in DOMAIN d : d[k] \in v.match /\ d[k] < u
  BY <1>1, <1>2, <1>7
<1>9. ASSUME NEW i \in DOMAIN d, NEW j \in DOMAIN d, d[i] = d[j] PROVE i = j
  <2>1. i \in Nat /\ j \in Nat
    BY <1>5, <1>6
  <2>2. CASE i \in DOMAIN x /\ d[i] = x[i] /\ j \in DOMAIN x /\ d[j] = x[j]
    BY <1>1, <1>9, <2>2 DEF IsInjective
  <2>3. CASE i - Len(x) \in DOMAIN z /\ d[i] = z[i - Len(x)] /\ j - Len(x) \in DOMAIN z
             /\ d[j] = z[j - Len(x)]
    <3>1. i - Len(x) = j - Len(x)
      BY <1>2, <1>9, <2>3 DEF IsInjective
    <3> QED
      BY <1>5, <2>1, <3>1
  <2> QED
    BY <1>3, <1>7, <1>9, <2>2, <2>3
<1>10. IsInjective(d)
  BY <1>9 DEF IsInjective
<1> QED
  BY <1>4, <1>8, <1>10 DEF Shown, Dedupe, d, z, P

LEMMA Apart ==
  ASSUME NEW S, NEW x \in Seq(S), NEW y \in Seq(S),
         \A i \in DOMAIN x, j \in DOMAIN y : x[i] # y[j]
  PROVE  Dedupe(x, y) = x \o y
<1>1. \A j \in DOMAIN y : y[j] \in ToSet(y) \ ToSet(x)
  BY SetOfSeq
<1>2. Keep(y, ToSet(y) \ ToSet(x)) = y
  BY <1>1, KeepFacts
<1> QED
  BY <1>2 DEF Dedupe

LEMMA Trimmed ==
  ASSUME NEW s, NEW v, NEW u \in Int, NEW limit \in Nat \ {0}, Shown(s, v, u)
  PROVE  /\ Shown(TrimStart(s, limit), v, u) /\ Len(TrimStart(s, limit)) <= limit
         /\ Shown(TrimEnd(s, limit), v, u) /\ Len(TrimEnd(s, limit)) <= limit
<1>1. s \in Seq(1 .. MaxSeq) /\ Len(s) \in Nat
  BY DEF Shown
<1> DEFINE b == AtMost(Len(s), limit)
           a == AtLeast(1, Len(s) - limit + 1)
<1>2. b \in Int /\ b <= Len(s) /\ b <= limit /\ b >= 0
      /\ a \in Int /\ 1 <= a /\ Len(s) - a + 1 <= limit
  BY <1>1 DEF AtMost, AtLeast
<1> HIDE DEF a, b
<1>3. /\ Shown(SubSeq(s, 1, b), v, u) /\ Shown(SubSeq(s, a, Len(s)), v, u)
  BY <1>1, <1>2, ShownPart
<1>4. Len(SubSeq(s, 1, b)) <= limit
  <2>1. Len(SubSeq(s, 1, b)) = IF 1 <= b THEN b - 1 + 1 ELSE 0
    BY <1>1, <1>2, PartFacts
  <2> QED
    BY <1>2, <2>1
<1>5. Len(SubSeq(s, a, Len(s))) <= limit
  <2>1. Len(SubSeq(s, a, Len(s))) = IF a <= Len(s) THEN Len(s) - a + 1 ELSE 0
    BY <1>1, <1>2, PartFacts
  <2> QED
    BY <1>2, <2>1
<1> QED
  BY <1>3, <1>4, <1>5 DEF TrimStart, TrimEnd, a, b

LEMMA LimitFacts ==
  ASSUME NEW v \in Views, NEW mode PROVE Limit(v, mode) \in Nat \ {0}
         /\ (mode = "latest" => Limit(v, mode) = v.limit)
<1>1. v.limit \in Nat \ {0} /\ MinPage \in Nat \ {0}
  BY StreamAssumption
<1>2. v.limit \div 2 \in Int
  BY <1>1
<1> DEFINE half == v.limit \div 2
<1> HIDE DEF half
<1> QED
  BY <1>1, <1>2 DEF Limit, AtMost, AtLeast, half

LEMMA PageFacts ==
  ASSUME NEW matched \in Seq(1 .. MaxSeq), Ascending(matched), NEW mode \in Modes,
         NEW cursor \in Int, NEW limit \in Nat \ {0}
  PROVE  \E n \in 0 .. Len(matched) :
           /\ PageOf(matched, mode, cursor, limit) =
                IF mode = "newer"
                THEN [first |-> n + 1, last |-> AtMost(n + limit, Len(matched))]
                ELSE [first |-> AtLeast(1, n - limit + 1), last |-> n]
           /\ mode = "latest" => n = Len(matched)
           /\ mode = "older" => \A k \in DOMAIN matched : matched[k] < cursor <=> k <= n
           /\ mode = "newer" => \A k \in DOMAIN matched : matched[k] <= cursor <=> k <= n
<1> DEFINE D == {k \in DOMAIN matched :
                   CASE mode = "latest" -> TRUE
                     [] mode = "older"  -> matched[k] < cursor
                     [] mode = "newer"  -> matched[k] <= cursor}
           n == Cardinality(D)
           len == Len(matched)
<1>1. /\ DOMAIN matched = 1 .. len /\ len \in Nat
      /\ \A k \in DOMAIN matched : matched[k] \in Int
  BY StreamAssumption
<1> HIDE DEF len
<1>2. \A k \in DOMAIN matched :
        /\ mode = "latest" => k \in D
        /\ mode = "older" => (k \in D <=> matched[k] < cursor)
        /\ mode = "newer" => (k \in D <=> matched[k] <= cursor)
  OBVIOUS
<1>3. D \in SUBSET (1 .. len)
  BY <1>1
<1> HIDE DEF D
<1>4. ASSUME NEW j \in D, NEW i \in 1 .. len, i < j PROVE i \in D
  <2>1. matched[i] < matched[j] /\ j \in DOMAIN matched
    BY <1>1, <1>3, <1>4 DEF Ascending
  <2> QED
    BY <1>1, <1>2, <1>4, <2>1 DEF Modes
<1>5. n \in 0 .. len /\ \A k \in DOMAIN matched : k \in D <=> k <= n
  BY <1>1, <1>3, <1>4, CountFacts
<1>6. PageOf(matched, mode, cursor, limit) =
        IF mode = "newer"
        THEN [first |-> n + 1, last |-> AtMost(n + limit, len)]
        ELSE [first |-> AtLeast(1, n - limit + 1), last |-> n]
  BY DEF PageOf, D, len
<1> HIDE DEF n
<1>7. mode = "latest" => n = len
  <2> SUFFICES ASSUME mode = "latest", len # 0 PROVE n = len
    BY <1>1, <1>5
  <2>1. len \in DOMAIN matched
    BY <1>1
  <2> QED
    BY <1>1, <1>2, <1>5, <2>1
<1> QED
  BY <1>2, <1>5, <1>6, <1>7 DEF len

LEMMA SnapshotFacts ==
  ASSUME HistoryOk, NEW v \in Views, NEW mode \in Modes, NEW cursor \in Int,
         NEW d, d = Snapshot(v, mode, cursor)
  PROVE  /\ d \in Pages /\ Shown(d.events, v, next)
         /\ PartOf(Matched(v), d.events, d.range, d.more)
         /\ mode = "latest" => LatestOk(d, v.limit)
         /\ mode = "older" => \A k \in DOMAIN Matched(v) :
              Matched(v)[k] < cursor <=> d.range # <<>> /\ k <= d.range[2]
         /\ mode = "newer" =>
              /\ d.range = <<>> => \A k \in DOMAIN Matched(v) : Matched(v)[k] <= cursor
              /\ d.range # <<>> => \A k \in DOMAIN Matched(v) :
                   Matched(v)[k] <= cursor <=> k < d.range[1]
<1> DEFINE matched == Matched(v)
           limit   == Limit(v, mode)
           page    == PageOf(matched, mode, cursor, limit)
           len == Len(matched)
           a == page.first
           b == page.last
           pair == <<a, b>>
           s == SubSeq(matched, a, b)
<1>1. /\ Shown(matched, v, next) /\ Ascending(matched) /\ matched \in Seq(1 .. MaxSeq)
      /\ len \in Nat /\ DOMAIN matched = 1 .. len /\ next \in Int
  BY StreamAssumption DEF HistoryOk, Shown
<1>2. limit \in Nat \ {0} /\ (mode = "latest" => limit = v.limit)
  BY LimitFacts
<1>3. d = [events |-> s,
            range  |-> IF a > b THEN <<>> ELSE pair,
            more   |-> [before |-> ~(a > b) /\ a > 1, after |-> ~(a > b) /\ b < len]]
  BY DEF Snapshot
<1> HIDE DEF matched, limit, len
<1>4. PICK n \in 0 .. len :
           /\ page = IF mode = "newer"
                     THEN [first |-> n + 1, last |-> AtMost(n + limit, len)]
                     ELSE [first |-> AtLeast(1, n - limit + 1), last |-> n]
           /\ mode = "latest" => n = len
           /\ mode = "older" => \A k \in DOMAIN matched : matched[k] < cursor <=> k <= n
           /\ mode = "newer" => \A k \in DOMAIN matched : matched[k] <= cursor <=> k <= n
  BY <1>1, <1>2, PageFacts DEF len
<1> HIDE DEF page
<1>5. a \in Int /\ b \in Int /\ 1 <= a /\ b <= len
  BY <1>1, <1>2, <1>4 DEF AtMost, AtLeast
<1>6. a = page.first /\ b = page.last /\ s = SubSeq(matched, a, b)
      /\ pair # <<>> /\ pair[1] = a /\ pair[2] = b /\ pair \in Int \X Int
  BY <1>5
<1> HIDE DEF a, b, pair, s
<1>7. Shown(s, v, next) /\ s \in Seq(1 .. MaxSeq)
  <2>1. Shown(s, v, next)
    BY <1>1, <1>5, <1>6, ShownPart DEF len
  <2> QED
    BY <2>1 DEF Shown
<1>8. Len(s) = IF a <= b THEN b - a + 1 ELSE 0
  BY <1>1, <1>5, <1>6, PartFacts DEF len
<1>9. /\ d.events = s
      /\ d.range = IF a > b THEN <<>> ELSE pair
      /\ d.more.before <=> ~(a > b) /\ a > 1
      /\ d.more.after <=> ~(a > b) /\ b < len
      /\ a > b => d.more = NoMore
  <2>1. /\ d.events = s
        /\ d.range = IF a > b THEN <<>> ELSE pair
        /\ d.more = [before |-> ~(a > b) /\ a > 1, after |-> ~(a > b) /\ b < len]
    BY <1>3
  <2>2. (d.more.before <=> ~(a > b) /\ a > 1) /\ (d.more.after <=> ~(a > b) /\ b < len)
    <3> DEFINE before == ~(a > b) /\ a > 1
               after  == ~(a > b) /\ b < len
    <3>1. d.more = [before |-> before, after |-> after]
      BY <2>1, Zenon
    <3> HIDE DEF before, after
    <3>2. d.more.before = before /\ d.more.after = after
      BY <3>1
    <3> QED
      BY <3>2, Zenon DEF before, after
  <2>3. ASSUME a > b PROVE d.more = NoMore
    <3>1. (~(a > b) /\ a > 1) = FALSE /\ (~(a > b) /\ b < len) = FALSE
      BY <2>3
    <3> QED
      BY <2>1, <3>1, Zenon DEF NoMore
  <2> QED
    BY <2>1, <2>2, <2>3
<1>10. d \in Pages
  BY <1>3, <1>6, <1>7 DEF Pages, Ranges, Flags
<1>11. PartOf(matched, d.events, d.range, d.more)
  <2>1. CASE a > b
    <3>1. Len(s) = 0
      BY <1>5, <1>8, <2>1
    <3>2. s = <<>>
      BY <1>7, <3>1
    <3> QED
      BY <1>9, <2>1, <3>2 DEF PartOf
  <2>2. CASE ~(a > b)
    <3>1. d.range # <<>> /\ d.range[1] = a /\ d.range[2] = b
      BY <1>6, <1>9, <2>2
    <3>2. a <= b /\ (d.more.before <=> a > 1) /\ (d.more.after => b < len)
      BY <1>5, <1>9, <2>2
    <3> QED
      BY <1>5, <1>6, <1>9, <3>1, <3>2, Zenon DEF PartOf, len
  <2> QED
    BY <2>1, <2>2
<1>12. mode = "latest" => LatestOk(d, v.limit)
  <2> SUFFICES ASSUME mode = "latest" PROVE LatestOk(d, v.limit)
    OBVIOUS
  <2>1. b = len /\ a = AtLeast(1, len - limit + 1) /\ limit = v.limit
    BY <1>2, <1>4, <1>6
  <2> QED
    <3>1. Len(d.events) = Len(s)
      BY <1>9
    <3>2. ~d.more.after /\ (d.more.before => a > 1 /\ a <= b)
      BY <1>1, <1>5, <1>9, <2>1
    <3>3. (a = 1 /\ len - limit + 1 <= 1) \/ (a = len - limit + 1 /\ a > 1)
      BY <1>1, <1>2, <2>1 DEF AtLeast
    <3>4. Len(s) <= v.limit /\ (d.more.before => Len(s) = v.limit)
      BY <1>1, <1>2, <1>5, <1>8, <2>1, <3>2, <3>3, SMTT(30)
    <3> QED
      BY <3>1, <3>2, <3>4, Zenon DEF LatestOk
<1>13. mode = "older" => \A k \in DOMAIN matched : matched[k] < cursor <=> d.range # <<>>
       /\ k <= d.range[2]
  <2> SUFFICES ASSUME mode = "older", NEW k \in DOMAIN matched
               PROVE  matched[k] < cursor <=> d.range # <<>> /\ k <= d.range[2]
    OBVIOUS
  <2>1. b = n /\ a = AtLeast(1, n - limit + 1)
    BY <1>4, <1>6
  <2>2. d.range # <<>> <=> n >= 1
    BY <1>2, <1>5, <1>6, <1>9, <2>1 DEF AtLeast
  <2>3. d.range # <<>> => d.range[2] = n
    BY <1>6, <1>9, <2>1
  <2> QED
    BY <1>1, <1>4, <2>2, <2>3
<1>14. mode = "newer" =>
         /\ d.range = <<>> => \A k \in DOMAIN matched : matched[k] <= cursor
         /\ d.range # <<>> => \A k \in DOMAIN matched : matched[k] <= cursor <=> k < d.range[1]
  <2> SUFFICES ASSUME mode = "newer", NEW k \in DOMAIN matched
               PROVE  /\ d.range = <<>> => matched[k] <= cursor
                      /\ d.range # <<>> => (matched[k] <= cursor <=> k < d.range[1])
    OBVIOUS
  <2>1. a = n + 1 /\ b = AtMost(n + limit, len)
    BY <1>4, <1>6
  <2>2. d.range = <<>> => n = len
    BY <1>1, <1>2, <1>5, <1>6, <1>9, <2>1, SMTT(30) DEF AtMost
  <2>3. d.range # <<>> => d.range[1] = n + 1
    BY <1>6, <1>9, <2>1
  <2> QED
    BY <1>1, <1>4, <2>2, <2>3
<1> QED
  BY <1>7, <1>9, <1>11, <1>12, <1>13, <1>14, <1>10 DEF matched
-----------------------------------------------------------------------------
(* What is under way.                                                      *)

LEMMA NothingFlies ==
  ASSUME NEW m, NEW matched, NEW v, NEW events, NEW flags, NEW u, NEW other
  PROVE  FlightOk(m, None, matched, v, events, flags, u, other)
BY DEF FlightOk

LEMMA RefreshSent ==
  ASSUME NEW v \in Views, NEW matched, NEW events, NEW flags, NEW u, NEW other
  PROVE  FlightOk("latest", Sent(v, 0), matched, v, events, flags, u, other)
<1> DEFINE f == Sent(v, 0)
<1>1. f \in SentRequests /\ f.state = "sent" /\ f.view = v
  BY DEF Sent, SentRequests
<1> HIDE DEF f
<1>2. f.state # "answered" /\ f \in SentRequests \cup Answers
  BY <1>1
<1> QED
  BY <1>1, <1>2 DEF FlightOk, f

(* A refresh is not for a table.                                           *)
LEMMA RefreshOfAny ==
  ASSUME NEW f, NEW matched, NEW v, NEW u, NEW events, NEW flags, NEW other,
         FlightOk("latest", f, matched, v, events, flags, u, other),
         NEW events2, NEW flags2, NEW other2
  PROVE  FlightOk("latest", f, matched, v, events2, flags2, u, other2)
BY DEF FlightOk

LEMMA FlightTyped ==
  ASSUME NEW f \in SentRequests \cup Answers
  PROVE  /\ f.state \in {"sent", "answered"} /\ f # None /\ f.view \in Views
         /\ f.stale \in BOOLEAN /\ f.crossed \in BOOLEAN
         /\ f.state = "sent" => f \in SentRequests /\ f.cursor \in Int
         /\ f.state = "answered" => f \in Answers /\ f.data \in Pages
BY DEF SentRequests, Answers, None

(* A crossed request, and a stale one, promise little.                     *)
LEMMA FlightCrossed ==
  ASSUME NEW m, NEW f, NEW matched, NEW v, NEW u, NEW events, NEW flags, NEW other,
         FlightOk(m, f, matched, v, events, flags, u, other), f # None,
         NEW matched2, NEW events2, NEW flags2, NEW other2
  PROVE  FlightOk(m, [f EXCEPT !.crossed = TRUE], matched2, v, events2, flags2, u, other2)
<1> DEFINE g == [f EXCEPT !.crossed = TRUE]
<1>1. f \in SentRequests \cup Answers
  BY DEF FlightOk
<1>2. /\ g \in SentRequests \cup Answers /\ g.crossed = TRUE /\ g.view = f.view /\ g.stale = f.stale
      /\ g.state = f.state /\ (f.state = "answered" => g.data = f.data)
  <2>1. CASE f \in SentRequests
    BY <2>1 DEF SentRequests
  <2>2. CASE f \in Answers
    BY <2>2 DEF Answers
  <2> QED
    BY <1>1, <2>1, <2>2
<1> HIDE DEF g
<1> QED
  BY <1>2 DEF FlightOk, g

LEMMA FlightStale ==
  ASSUME NEW m, NEW f, NEW matched, NEW v, NEW u, NEW events, NEW flags, NEW other,
         FlightOk(m, f, matched, v, events, flags, u, other), f # None,
         NEW v2, NEW matched2, NEW events2, NEW flags2, NEW other2
  PROVE  FlightOk(m, [f EXCEPT !.stale = TRUE], matched2, v2, events2, flags2, u, other2)
<1> DEFINE g == [f EXCEPT !.stale = TRUE]
<1>1. f \in SentRequests \cup Answers
  BY DEF FlightOk
<1>2. /\ g \in SentRequests \cup Answers /\ g.stale = TRUE /\ g.view = f.view
      /\ g.state = f.state /\ (f.state = "answered" => g.data = f.data)
  <2>1. CASE f \in SentRequests
    BY <2>1 DEF SentRequests
  <2>2. CASE f \in Answers
    BY <2>2 DEF Answers
  <2> QED
    BY <1>1, <2>1, <2>2
<1> HIDE DEF g
<1> QED
  BY <1>2 DEF FlightOk, g

(* That the window has crossed only excuses more.                          *)
LEMMA FlightExcused ==
  ASSUME NEW m, NEW f, NEW matched, NEW v, NEW u, NEW events, NEW flags, NEW other,
         FlightOk(m, f, matched, v, events, flags, u, other), NEW other2, other => other2
  PROVE  FlightOk(m, f, matched, v, events, flags, u, other2)
<1>1. LoadOk(m, f, matched, events, flags, other) => LoadOk(m, f, matched, events, flags, other2)
  BY DEF LoadOk
<1> QED
  BY <1>1 DEF FlightOk

(* Events that nobody matched.                                             *)
LEMMA FlightLater ==
  ASSUME NEW m, NEW f, NEW matched, NEW v, NEW u \in Int, NEW events, NEW flags, NEW other,
         FlightOk(m, f, matched, v, events, flags, u, other), NEW w \in Int, u <= w
  PROVE  FlightOk(m, f, matched, v, events, flags, w, other)
<1>1. ASSUME f # None, f.state = "answered" PROVE Shown(f.data.events, f.view, w)
  <2>1. Shown(f.data.events, f.view, u) /\ f.view \in Views
    BY <1>1, FlightTyped DEF FlightOk
  <2> QED
    BY <2>1, ShownLater
<1> QED
  BY <1>1 DEF FlightOk

LEMMA PartRange ==
  ASSUME NEW matched, NEW events, NEW ordinals \in Ranges, NEW flags,
         PartOf(matched, events, ordinals, flags), ordinals # <<>>
  PROVE  /\ ordinals[1] \in Int /\ ordinals[2] \in Int /\ ordinals = <<ordinals[1], ordinals[2]>>
         /\ 1 <= ordinals[1] /\ ordinals[1] <= ordinals[2] /\ ordinals[2] <= Len(matched)
         /\ events = SubSeq(matched, ordinals[1], ordinals[2])
         /\ flags.before <=> ordinals[1] > 1
         /\ flags.after => ordinals[2] < Len(matched)
<1>1. ordinals \in Int \X Int
  BY DEF Ranges
<1>2. ordinals[1] \in Int /\ ordinals[2] \in Int /\ ordinals = <<ordinals[1], ordinals[2]>>
  BY <1>1
<1> QED
  BY <1>2, Zenon DEF PartOf

LEMMA PartOfMore ==
  ASSUME NEW S, NEW matched \in Seq(S), NEW e \in S, NEW events, NEW ordinals \in Ranges, NEW flags,
         PartOf(matched, events, ordinals, flags)
  PROVE  PartOf(Append(matched, e), events, ordinals, flags)
<1>1. CASE ordinals = <<>>
  BY <1>1 DEF PartOf
<1>2. CASE ordinals # <<>>
  <2> DEFINE a == ordinals[1]
             b == ordinals[2]
             len == Len(matched)
  <2>1. /\ a \in Int /\ b \in Int /\ 1 <= a /\ a <= b /\ b <= len /\ events = SubSeq(matched, a, b)
        /\ flags.before <=> a > 1
        /\ flags.after => b < len
    BY <1>2, PartRange
  <2>2. len \in Nat /\ Len(Append(matched, e)) = len + 1
    OBVIOUS
  <2>3. SubSeq(Append(matched, e), a, b) = SubSeq(matched, a, b)
    BY <2>1, PartOfLonger
  <2> HIDE DEF a, b, len
  <2>4. b <= len + 1 /\ (flags.after => b < len + 1)
    BY <2>1, <2>2
  <2> QED
    BY <1>2, <2>1, <2>2, <2>3, <2>4, Zenon DEF PartOf, a, b
<1> QED
  BY <1>1, <1>2

(* One more event matches, the last of all.                                *)
LEMMA FlightMore ==
  ASSUME NEW m \in Modes, NEW f, NEW v \in Views, NEW u \in Int, NEW events, NEW flags, NEW other,
         NEW matched \in Seq(1 .. MaxSeq), NEW e \in 1 .. MaxSeq, e >= u,
         Shown(events, v, u), FlightOk(m, f, matched, v, events, flags, u, other)
  PROVE  FlightOk(m, f, Append(matched, e), v, events, flags, u, other)
<1> DEFINE more2 == Append(matched, e)
           len == Len(matched)
<1>1. /\ len \in Nat /\ DOMAIN matched = 1 .. len /\ DOMAIN more2 = 1 .. len + 1
      /\ more2[len + 1] = e /\ \A k \in 1 .. len : more2[k] = matched[k]
  OBVIOUS
<1>2. events \in Seq(1 .. MaxSeq) /\ \A k \in DOMAIN events : events[k] \in Int /\ events[k] < u
  BY StreamAssumption DEF Shown
<1>3. e \in Int
  BY StreamAssumption
<1> SUFFICES ASSUME f # None, ~f.stale, ~f.crossed
             PROVE  /\ f.state = "answered" =>
                          PartOf(more2, f.data.events, f.data.range, f.data.more)
                    /\ m = "latest" /\ f.state = "answered" => LatestOk(f.data, v.limit)
                    /\ m # "latest" => LoadOk(m, f, more2, events, flags, other)
  BY DEF FlightOk
<1>4. /\ f \in SentRequests \cup Answers
      /\ f.state = "answered" => PartOf(matched, f.data.events, f.data.range, f.data.more)
      /\ m = "latest" /\ f.state = "answered" => LatestOk(f.data, v.limit)
      /\ m # "latest" => LoadOk(m, f, matched, events, flags, other)
  BY DEF FlightOk
<1>5. f.state = "answered" => f.data.range \in Ranges
  BY <1>4, FlightTyped DEF Pages
<1>6. f.state = "answered" => PartOf(more2, f.data.events, f.data.range, f.data.more)
  BY <1>4, <1>5, PartOfMore
<1> DEFINE r == f.data.range
<1>7. f.state = "answered" /\ r # <<>> =>
        r[1] \in Int /\ r[2] \in Int /\ r[1] <= r[2] /\ r[2] <= len
  BY <1>4, <1>5, PartRange
<1> HIDE DEF more2, len, r
<1>8. ASSUME m # "latest" PROVE LoadOk(m, f, more2, events, flags, other)
  <2>1. /\ events # <<>>
        /\ m = "older" =>
             /\ flags.before
             /\ f.state = "sent" => f.cursor = events[1]
             /\ f.state = "answered" =>
                  \A k \in DOMAIN matched : matched[k] < events[1] <=> r # <<>> /\ k <= r[2]
        /\ m = "newer" =>
             /\ flags.after
             /\ f.state = "sent" => f.cursor = events[Len(events)]
             /\ f.state = "answered" =>
                  /\ r = <<>> => other
                  /\ r # <<>> => \A k \in DOMAIN matched :
                       matched[k] <= events[Len(events)] <=> k < r[1]
    BY <1>4, <1>8 DEF LoadOk, r
  <2>2. 1 \in DOMAIN events /\ Len(events) \in DOMAIN events
    BY <1>2, <2>1
  <2>3. events[1] \in Int /\ events[1] < u /\ events[Len(events)] \in Int /\ events[Len(events)] < u
    BY <1>2, <2>2
  <2>4. ASSUME m = "older", f.state = "answered", NEW k \in DOMAIN more2
        PROVE  more2[k] < events[1] <=> r # <<>> /\ k <= r[2]
    <3>1. CASE k \in DOMAIN matched
      BY <1>1, <2>1, <2>4, <3>1
    <3>2. CASE k = len + 1
      BY <1>1, <1>3, <1>7, <2>3, <2>4, <3>2
    <3> QED
      BY <1>1, <3>1, <3>2
  <2>5. ASSUME m = "newer", f.state = "answered", r # <<>>, NEW k \in DOMAIN more2
        PROVE  more2[k] <= events[Len(events)] <=> k < r[1]
    <3>1. CASE k \in DOMAIN matched
      BY <1>1, <2>1, <2>5, <3>1
    <3>2. CASE k = len + 1
      BY <1>1, <1>3, <1>7, <2>3, <2>5, <3>2
    <3> QED
      BY <1>1, <3>1, <3>2
  <2> QED
    BY <2>1, <2>4, <2>5 DEF LoadOk, r
<1> QED
  BY <1>4, <1>6, <1>8 DEF more2
-----------------------------------------------------------------------------
(* The steps.                                                              *)

LEMMA InitInv == Init => StreamInv
<1> SUFFICES ASSUME Init PROVE StreamInv
  OBVIOUS
<1>1. /\ history = <<>> /\ next = 1 /\ view \in Views /\ window = <<>> /\ range = <<>>
         /\ more = NoMore
      /\ running = TRUE /\ follow = TRUE /\ clearing = "no" /\ crossed = FALSE
      /\ flight = [m \in Modes |-> IF m = "latest" THEN Sent(view, 0) ELSE None]
  BY DEF Init
<1>2. \A v \in Views : Matched(v) = <<>>
  BY <1>1, KeepEmpty DEF Matched
<1>3. <<>> \in Seq(1 .. MaxSeq) /\ DOMAIN <<>> = {} /\ Len(<<>>) = 0
  OBVIOUS
<1>4. HistoryOk
  <2>1. next \in 1 .. MaxSeq + 1
    BY <1>1, StreamAssumption
  <2>2. Ascending(<<>>)
    BY DEF Ascending
  <2> QED
    BY <1>1, <1>2, <1>3, <2>1, <2>2, ShownNothing DEF HistoryOk
<1>5. FlightsOk
  <2>1. ASSUME NEW m \in Modes
        PROVE  FlightOk(m, flight[m], Matched(view), view, window, more, next, crossed)
    BY <1>1, NothingFlies, RefreshSent
  <2> QED
    BY <1>1, <2>1 DEF FlightsOk
<1>6. WindowOk
  <2>1. view.limit \in Nat
    BY <1>1, StreamAssumption
  <2>2. PartOf(Matched(view), <<>>, <<>>, NoMore)
    BY DEF PartOf
  <2>3. Shown(window, view, next) /\ Len(window) <= view.limit /\ range \in Ranges /\ more \in Flags
    BY <1>1, <1>3, <2>1, ShownNothing DEF Ranges, Flags, NoMore
  <2>4. ~more.before /\ ~more.after
    BY <1>1 DEF NoMore
  <2> QED
    BY <1>1, <2>2, <2>3, <2>4 DEF WindowOk
<1>7. RestOk
  BY <1>1 DEF RestOk
<1> QED
  BY <1>4, <1>5, <1>6, <1>7 DEF StreamInv

LEMMA InvFacts ==
  ASSUME StreamInv
  PROVE  /\ history \in Seq(1 .. MaxSeq) /\ next \in Int /\ next \in 1 .. MaxSeq + 1
            /\ view \in Views
         /\ Matched(view) \in Seq(1 .. MaxSeq)
         /\ Ascending(Matched(view)) /\ Shown(Matched(view), view, next)
         /\ view.limit \in Nat \ {0} /\ window \in Seq(1 .. MaxSeq) /\ Shown(window, view, next)
         /\ DOMAIN flight = Modes
         /\ \A m \in Modes :
              /\ FlightOk(m, flight[m], Matched(view), view, window, more, next, crossed)
              /\ flight[m] # None => flight[m] \in SentRequests \cup Answers
<1>1. HistoryOk /\ FlightsOk /\ WindowOk
  BY DEF StreamInv
<1>2. /\ history \in Seq(1 .. MaxSeq) /\ next \in Int /\ next \in 1 .. MaxSeq + 1 /\ view \in Views
      /\ Ascending(Matched(view)) /\ Shown(Matched(view), view, next)
  BY <1>1, StreamAssumption DEF HistoryOk
<1>3. Matched(view) \in Seq(1 .. MaxSeq)
  BY <1>2 DEF Shown
<1>4. Shown(window, view, next)
  BY <1>1 DEF WindowOk
<1>5. window \in Seq(1 .. MaxSeq)
  BY <1>4 DEF Shown
<1>6. /\ DOMAIN flight = Modes
      /\ \A m \in Modes : FlightOk(m, flight[m], Matched(view), view, window, more, next, crossed)
  BY <1>1 DEF FlightsOk
<1>7. \A m \in Modes : flight[m] # None => flight[m] \in SentRequests \cup Answers
  BY <1>6 DEF FlightOk
<1>8. view.limit \in Nat \ {0}
  BY <1>2, StreamAssumption
<1> QED
  BY <1>2, <1>3, <1>4, <1>5, <1>6, <1>7, <1>8

(* Nothing but requests and answers moves.                                 *)
LEMMA TableKept ==
  ASSUME StreamInv, UNCHANGED <<serverVars, view, tableVars, crossed>>, RestOk',
         DOMAIN flight' = Modes,
         \A m \in Modes : FlightOk(m, flight'[m], Matched(view), view, window, more, next, crossed)
  PROVE  StreamInv'
<1>1. /\ history' = history /\ next' = next /\ view' = view /\ window' = window /\ range' = range
      /\ more' = more /\ crossed' = crossed
  BY DEF serverVars, tableVars
<1>2. HistoryOk'
  <2>1. HistoryOk
    BY DEF StreamInv
  <2> QED
    BY <1>1, <2>1 DEF HistoryOk, Matched
<1>3. FlightsOk'
  BY <1>1 DEF FlightsOk, Matched
<1>4. WindowOk'
  <2>1. WindowOk
    BY DEF StreamInv
  <2> QED
    BY <1>1, <2>1 DEF WindowOk, Matched
<1> QED
  BY <1>2, <1>3, <1>4 DEF StreamInv

LEMMA LoseStep == ASSUME StreamInv, Lose PROVE StreamInv'
<1>1. /\ history' = history /\ next' = next + 1 /\ view' = view /\ window' = window
         /\ range' = range
      /\ more' = more /\ crossed' = crossed /\ flight' = flight /\ running' = running
      /\ follow' = follow /\ clearing' = clearing /\ next <= MaxSeq
  BY DEF Lose, tableVars, modeVars
<1>2. HistoryOk /\ FlightsOk /\ WindowOk /\ RestOk
  BY DEF StreamInv
<1>3. next \in Int /\ next + 1 \in Int /\ next <= next + 1 /\ next + 1 \in 1 .. MaxSeq + 1
  BY <1>1, InvFacts, StreamAssumption
<1>4. HistoryOk'
  <2>1. \A k \in DOMAIN history : history[k] \in Int /\ history[k] < next
    BY <1>2, StreamAssumption DEF HistoryOk
  <2>2. \A k \in DOMAIN history : history[k] < next + 1
    BY <1>3, <2>1
  <2>3. \A v \in Views : Shown(Matched(v), v, next + 1) /\ Ascending(Matched(v))
    BY <1>2, <1>3, ShownLater DEF HistoryOk
  <2> QED
    BY <1>1, <1>2, <1>3, <2>2, <2>3 DEF HistoryOk, Matched
<1>5. FlightsOk'
  <2>1. \A m \in Modes : FlightOk(m, flight[m], Matched(view), view, window, more, next + 1,
        crossed)
    BY <1>2, <1>3, FlightLater DEF FlightsOk
  <2> QED
    BY <1>1, <1>2, <2>1 DEF FlightsOk, Matched
<1>6. WindowOk'
  <2>1. Shown(window, view, next + 1)
    BY <1>3, InvFacts, ShownLater
  <2> QED
    BY <1>1, <1>2, <2>1 DEF WindowOk, Matched
<1>7. RestOk'
  BY <1>1, <1>2 DEF RestOk
<1> QED
  BY <1>4, <1>5, <1>6, <1>7 DEF StreamInv

LEMMA CaptureStep == ASSUME StreamInv, Capture PROVE StreamInv'
<1>1. /\ history' = Append(history, next) /\ next' = next + 1 /\ view' = view /\ window' = window
      /\ range' = range /\ more' = more /\ crossed' = crossed /\ flight' = flight
      /\ running' = running /\ follow' = follow /\ clearing' = clearing /\ next <= MaxSeq
  BY DEF Capture, tableVars, modeVars
<1>2. HistoryOk /\ FlightsOk /\ WindowOk /\ RestOk
  BY DEF StreamInv
<1>3. /\ next \in Int /\ next + 1 \in Int /\ next <= next + 1 /\ next + 1 \in 1 .. MaxSeq + 1
      /\ next \in 1 .. MaxSeq /\ next >= next /\ next < next + 1
  BY <1>1, InvFacts, StreamAssumption
<1>4. ASSUME NEW P
       PROVE  Keep(history', P) =
                IF next \in P THEN Append(Keep(history, P), next) ELSE Keep(history, P)
  <2> DEFINE S == 1 .. MaxSeq
  <2>1. history \in Seq(S) /\ next \in S
    BY <1>3, InvFacts
  <2> HIDE DEF S
  <2> QED
    BY <1>1, <2>1, KeepAppend
<1>5. ASSUME NEW v \in Views
      PROVE  Matched(v)' = IF next \in v.match THEN Append(Matched(v), next) ELSE Matched(v)
  BY <1>1, <1>4 DEF Matched
<1>6. ASSUME NEW v \in Views PROVE Shown(Matched(v)', v, next + 1) /\ Ascending(Matched(v)')
  <2> DEFINE s == Matched(v)
             t == Append(s, next)
  <2>1. Shown(s, v, next) /\ Ascending(s)
    BY <1>2 DEF HistoryOk
  <2>2. CASE next \notin v.match
    BY <1>3, <1>5, <2>1, <2>2, ShownLater
  <2>3. CASE next \in v.match
    <3> HIDE DEF s
    <3>1. s \in Seq(1 .. MaxSeq) /\ \A k \in DOMAIN s : s[k] \in Int /\ s[k] < next
          /\ s[k] \in v.match
      BY <2>1, StreamAssumption DEF Shown
    <3>2. /\ t \in Seq(1 .. MaxSeq) /\ Len(s) \in Nat /\ DOMAIN s = 1 .. Len(s)
          /\ DOMAIN t = 1 .. Len(s) + 1 /\ t[Len(s) + 1] = next
                /\ \A k \in 1 .. Len(s) : t[k] = s[k]
      BY <1>3, <3>1
    <3> HIDE DEF t
    <3>3. \A k \in DOMAIN t : k \in DOMAIN s \/ k = Len(s) + 1
      BY <3>2
    <3>4. ASSUME NEW k \in DOMAIN t PROVE t[k] \in v.match /\ t[k] < next + 1
      BY <1>3, <2>3, <3>1, <3>2, <3>3
    <3>5. ASSUME NEW i \in DOMAIN t, NEW j \in DOMAIN t, t[i] = t[j] PROVE i = j
      BY <1>3, <2>1, <3>1, <3>2, <3>3, <3>5 DEF Shown, IsInjective
    <3>6. ASSUME NEW i \in DOMAIN t, NEW j \in DOMAIN t, i < j PROVE t[i] < t[j]
      BY <1>3, <2>1, <3>1, <3>2, <3>3, <3>6 DEF Ascending
    <3>7. Shown(t, v, next + 1) /\ Ascending(t)
      BY <3>2, <3>4, <3>5, <3>6 DEF Shown, IsInjective, Ascending
    <3> QED
      BY <1>5, <2>3, <3>7 DEF s, t
  <2> QED
    BY <2>2, <2>3
<1>7. HistoryOk'
  <2> DEFINE h == Append(history, next)
  <2>1. history \in Seq(1 .. MaxSeq) /\ \A k \in DOMAIN history : history[k] \in Int
        /\ history[k] < next
    BY <1>2, StreamAssumption DEF HistoryOk
  <2>2. h \in Seq(1 .. MaxSeq)
        /\ \A k \in DOMAIN h : h[k] = next \/ \E j \in DOMAIN history : h[k] = history[j]
    BY <1>3, <2>1
  <2> HIDE DEF h
  <2>3. \A k \in DOMAIN h : h[k] < next + 1
    BY <1>3, <2>1, <2>2
  <2>4. view \in Views
    BY InvFacts
  <2> QED
    BY <1>1, <1>3, <1>6, <2>2, <2>3, <2>4 DEF HistoryOk, h
<1>8. FlightsOk'
  <2> DEFINE s == Matched(view)
  <2>1. view \in Views /\ s \in Seq(1 .. MaxSeq) /\ Shown(window, view, next)
        /\ DOMAIN flight = Modes
        /\ \A m \in Modes : FlightOk(m, flight[m], s, view, window, more, next, crossed)
    BY InvFacts
  <2>2. Matched(view)' = IF next \in view.match THEN Append(s, next) ELSE s
    BY <1>1, <1>4 DEF Matched
  <2> HIDE DEF s
  <2>3. ASSUME NEW m \in Modes
        PROVE  FlightOk(m, flight[m], Append(s, next), view, window, more, next, crossed)
    BY <1>3, <2>1, FlightMore
  <2>4. ASSUME NEW m \in Modes
        PROVE  FlightOk(m, flight[m], Matched(view)', view, window, more, next, crossed)
    BY <2>1, <2>2, <2>3
  <2>5. ASSUME NEW m \in Modes
        PROVE  FlightOk(m, flight[m], Matched(view)', view, window, more, next + 1, crossed)
    BY <1>3, <2>4, FlightLater
  <2> QED
    BY <1>1, <2>1, <2>5 DEF FlightsOk
<1>9. WindowOk'
  <2> DEFINE s == Matched(view)
  <2>1. Shown(window, view, next + 1)
    BY <1>3, InvFacts, ShownLater
  <2>2. Matched(view)' = (IF next \in view.match THEN Append(s, next) ELSE s)
        /\ s \in Seq(1 .. MaxSeq)
    BY <1>1, <1>4, InvFacts DEF Matched
  <2> HIDE DEF s
  <2>3. ~crossed => PartOf(Matched(view)', window, range, more)
    <3>1. ~crossed => PartOf(s, window, range, more)
      BY <1>2 DEF WindowOk, s
    <3>2. range \in Ranges
      BY <1>2 DEF WindowOk
    <3> QED
      BY <1>3, <2>2, <3>1, <3>2, PartOfMore
  <2> QED
    BY <1>1, <1>2, <2>1, <2>3 DEF WindowOk
<1>10. RestOk'
  BY <1>1, <1>2 DEF RestOk
<1> QED
  BY <1>7, <1>8, <1>9, <1>10 DEF StreamInv

LEMMA ServerClearsStep == ASSUME StreamInv, ServerClears PROVE StreamInv'
<1> DEFINE modes == IF flight["latest"].state = "sent" THEN {"older", "newer"} ELSE Modes
<1>1. /\ history' = <<>> /\ next' = next /\ view' = view /\ window' = window /\ range' = range
      /\ more' = more /\ crossed' = TRUE /\ flight' = Cross(flight, modes) /\ running' = running
      /\ follow' = follow /\ clearing' = "done"
  BY DEF ServerClears, tableVars, modeVars
<1>2. HistoryOk /\ FlightsOk /\ WindowOk /\ RestOk
  BY DEF StreamInv
<1>3. \A v \in Views : Matched(v)' = <<>>
  BY <1>1, KeepEmpty DEF Matched
<1>4. <<>> \in Seq(1 .. MaxSeq) /\ DOMAIN <<>> = {} /\ Ascending(<<>>)
  BY DEF Ascending
<1>5. HistoryOk'
  <2>1. \A v \in Views : Shown(Matched(v)', v, next') /\ Ascending(Matched(v)')
    BY <1>3, <1>4, ShownNothing
  <2> QED
    BY <1>1, <1>2, <1>4, <2>1 DEF HistoryOk
<1>6. FlightsOk'
  <2>1. Matched(view)' = <<>>
    BY <1>1, KeepEmpty DEF Matched
  <2>2. DOMAIN flight' = Modes
    BY <1>1 DEF Cross
  <2>3. ASSUME NEW m \in Modes PROVE FlightOk(m, flight'[m], <<>>, view, window, more, next, TRUE)
    <3>1. flight'[m] = IF m \in modes /\ flight[m] # None
                       THEN [flight[m] EXCEPT !.crossed = TRUE] ELSE flight[m]
      BY <1>1 DEF Cross
    <3>2. FlightOk(m, flight[m], Matched(view), view, window, more, next, crossed)
      BY InvFacts
    <3>3. CASE m \in modes /\ flight[m] # None
      <4> DEFINE f == flight[m]
      <4>1. f # None /\ FlightOk(m, f, Matched(view), view, window, more, next, crossed)
        BY <3>2, <3>3
      <4> HIDE DEF f
      <4>2. FlightOk(m, [f EXCEPT !.crossed = TRUE], <<>>, view, window, more, next, TRUE)
        BY <4>1, FlightCrossed, Zenon
      <4>3. flight'[m] = [f EXCEPT !.crossed = TRUE]
        BY <3>1, <3>3, Zenon DEF f
      <4> QED
        BY <4>2, <4>3, Zenon
    <3>4. CASE flight[m] = None
      BY <3>1, <3>4, NothingFlies
    <3>5. CASE m \notin modes
      <4>1. m = "latest" /\ flight[m].state = "sent" /\ flight'[m] = flight[m]
        BY <3>1, <3>5 DEF Modes
      <4>2. flight[m].state # "answered"
        BY <4>1
      <4> QED
        BY <3>2, <4>1, <4>2 DEF FlightOk
    <3> QED
      BY <3>3, <3>4, <3>5
  <2> QED
    BY <1>1, <2>1, <2>2, <2>3 DEF FlightsOk
<1>7. WindowOk'
  BY <1>1, <1>2 DEF WindowOk
<1>8. RestOk'
  BY <1>1, <1>2 DEF RestOk
<1> QED
  BY <1>5, <1>6, <1>7, <1>8 DEF StreamInv

LEMMA WindowEnds ==
  ASSUME NEW matched \in Seq(1 .. MaxSeq), NEW events, NEW ordinals \in Ranges, NEW flags,
         PartOf(matched, events, ordinals, flags), events # <<>>
  PROVE  /\ ordinals # <<>> /\ ordinals[1] \in DOMAIN matched /\ ordinals[2] \in DOMAIN matched
         /\ ordinals[1] \in Int /\ ordinals[2] \in Int
         /\ events \in Seq(1 .. MaxSeq) /\ Len(events) = ordinals[2] - ordinals[1] + 1
         /\ events[1] = matched[ordinals[1]] /\ events[Len(events)] = matched[ordinals[2]]
<1> DEFINE a == ordinals[1]
           b == ordinals[2]
           S == 1 .. MaxSeq
<1>1. ordinals # <<>>
  BY DEF PartOf
<1>2. a \in Int /\ b \in Int /\ 1 <= a /\ a <= b /\ b <= Len(matched)
      /\ events = SubSeq(matched, a, b)
  BY <1>1, PartRange
<1>3. matched \in Seq(S) /\ DOMAIN matched = 1 .. Len(matched) /\ Len(matched) \in Nat
  OBVIOUS
<1> HIDE DEF S, a, b
<1>4. /\ events \in Seq(S) /\ Len(events) = b - a + 1
      /\ \A k \in 1 .. Len(events) : events[k] = matched[a + k - 1]
  BY <1>2, <1>3, PartFacts
<1>5. 1 \in 1 .. Len(events) /\ Len(events) \in 1 .. Len(events) /\ a + 1 - 1 = a
      /\ a + Len(events) - 1 = b /\ a \in 1 .. Len(matched) /\ b \in 1 .. Len(matched)
  BY <1>2, <1>3, <1>4
<1>6. events[1] = matched[a] /\ events[Len(events)] = matched[b]
  BY <1>4, <1>5
<1> QED
  BY <1>1, <1>2, <1>3, <1>4, <1>5, <1>6 DEF a, b, S

LEMMA AnswerStep == ASSUME StreamInv, NEW m \in Modes, Answer(m) PROVE StreamInv'
<1> DEFINE f == flight[m]
           d == Snapshot(f.view, m, f.cursor)
           g == [state |-> "answered", view |-> f.view, stale |-> f.stale, crossed |-> f.crossed,
                 data |-> d]
           matched == Matched(view)
<1>1. /\ f.state = "sent" /\ flight' = [flight EXCEPT ![m] = g]
      /\ UNCHANGED <<serverVars, view, tableVars, modeVars, clearing, crossed>>
  BY DEF Answer
<1>2. f # None
  BY <1>1 DEF None
<1>3. /\ f \in SentRequests /\ f.view \in Views /\ f.cursor \in Int /\ f.stale \in BOOLEAN
         /\ f.crossed \in BOOLEAN
  BY <1>1, <1>2, InvFacts, FlightTyped
<1>4. HistoryOk /\ WindowOk /\ RestOk
  BY DEF StreamInv
<1>5. /\ FlightOk(m, f, matched, view, window, more, next, crossed)
      /\ matched \in Seq(1 .. MaxSeq) /\ Ascending(matched)
  BY InvFacts
<1>6. d \in Pages /\ Shown(d.events, f.view, next)
  BY <1>3, <1>4, SnapshotFacts
<1>7. ASSUME f.view = view
      PROVE  /\ PartOf(matched, d.events, d.range, d.more)
             /\ m = "latest" => LatestOk(d, view.limit)
             /\ m = "older" => \A k \in DOMAIN matched : matched[k] < f.cursor <=> d.range # <<>>
                   /\ k <= d.range[2]
             /\ m = "newer" =>
                  /\ d.range = <<>> => \A k \in DOMAIN matched : matched[k] <= f.cursor
                  /\ d.range # <<>> => \A k \in DOMAIN matched :
                        matched[k] <= f.cursor <=> k < d.range[1]
  BY <1>3, <1>4, <1>7, SnapshotFacts
<1> HIDE DEF d, f
<1>8. /\ g.state = "answered" /\ g.view = f.view /\ g.stale = f.stale /\ g.crossed = f.crossed
      /\ g.data = d /\ g \in Answers
  BY <1>3, <1>6 DEF Answers
<1> HIDE DEF g, matched
<1>9. ASSUME ~f.stale, ~f.crossed, m # "latest"
      PROVE  LoadOk(m, g, matched, window, more, crossed)
  <2>1. /\ f.view = view /\ window # <<>>
        /\ m = "older" => more.before /\ f.cursor = window[1]
        /\ m = "newer" => more.after /\ f.cursor = window[Len(window)]
    BY <1>1, <1>2, <1>5, <1>9 DEF FlightOk, LoadOk
  <2>2. ASSUME m = "newer", d.range = <<>>, ~crossed PROVE FALSE
    <3>1. PartOf(matched, window, range, more) /\ range \in Ranges
      BY <1>4, <2>2 DEF WindowOk, matched
    <3> DEFINE b == range[2]
               c == b + 1
    <3>2. /\ range # <<>> /\ b \in DOMAIN matched /\ b \in Int /\ window[Len(window)] = matched[b]
      BY <1>5, <2>1, <3>1, WindowEnds
    <3>3. b < Len(matched)
      BY <2>1, <2>2, <3>1, <3>2, PartRange
    <3> HIDE DEF b
    <3>4. c \in DOMAIN matched /\ b < c
      BY <1>5, <3>2, <3>3
    <3>5. matched[b] < matched[c] /\ matched[b] \in Int /\ matched[c] \in Int
      BY <1>5, <3>2, <3>4, StreamAssumption DEF Ascending
    <3>6. matched[c] <= matched[b]
      BY <1>7, <2>1, <2>2, <3>2, <3>4
    <3> QED
      BY <3>5, <3>6
  <2> QED
    BY <1>7, <1>8, <1>9, <2>1, <2>2 DEF LoadOk
<1>10. FlightOk(m, g, matched, view, window, more, next, crossed)
  <2>1. f.stale \/ f.view = view
    BY <1>2, <1>5 DEF FlightOk
  <2> QED
    BY <1>6, <1>7, <1>8, <1>9, <2>1 DEF FlightOk
<1>11. DOMAIN flight = Modes
       /\ \A k \in Modes : FlightOk(k, flight[k], matched, view, window, more, next, crossed)
  BY InvFacts DEF matched
<1>12. DOMAIN flight' = Modes
       /\ \A k \in Modes : FlightOk(k, flight'[k], matched, view, window, more, next, crossed)
  BY <1>1, <1>10, <1>11
<1>13. RestOk'
  BY <1>1, <1>4 DEF RestOk, modeVars
<1> QED
  BY <1>1, <1>12, <1>13, TableKept DEF matched

LEMMA FailStep == ASSUME StreamInv, NEW m \in Modes, Fail(m) PROVE StreamInv'
<1>1. flight' = [flight EXCEPT ![m] = None]
      /\ UNCHANGED <<serverVars, view, tableVars, modeVars, clearing, crossed>>
  BY DEF Fail
<1>2. /\ DOMAIN flight = Modes
      /\ \A k \in Modes : FlightOk(k, flight[k], Matched(view), view, window, more, next, crossed)
  BY InvFacts
<1>3. DOMAIN flight' = Modes /\ \A k \in Modes : flight'[k] = IF k = m THEN None ELSE flight[k]
  BY <1>1, <1>2
<1>4. \A k \in Modes : FlightOk(k, flight'[k], Matched(view), view, window, more, next, crossed)
  BY <1>2, <1>3, NothingFlies
<1>5. RestOk'
  BY <1>1 DEF RestOk, StreamInv, modeVars
<1> QED
  BY <1>1, <1>3, <1>4, <1>5, TableKept

(* A refresh is sent or aborted: nothing else changes.                     *)
LEMMA Refreshing ==
  ASSUME StreamInv, NEW g, g = flight \/ g = Refreshed(flight, view)
         \/ g = [flight EXCEPT !["latest"] = None]
  PROVE  /\ DOMAIN g = Modes /\ \A m \in Modes : m # "latest" => g[m] = flight[m]
         /\ \A m \in Modes : FlightOk(m, g[m], Matched(view), view, window, more, next, crossed)
<1>1. /\ DOMAIN flight = Modes /\ view \in Views
      /\ \A k \in Modes : FlightOk(k, flight[k], Matched(view), view, window, more, next, crossed)
  BY InvFacts
<1>2. /\ DOMAIN g = Modes
      /\ \A m \in Modes :
           g[m] = flight[m] \/ (m = "latest" /\ (g[m] = None \/ g[m] = Sent(view, 0)))
      /\ \A m \in Modes : m # "latest" => g[m] = flight[m]
  BY <1>1 DEF Refreshed
<1> QED
  BY <1>1, <1>2, NothingFlies, RefreshSent

LEMMA UserStep ==
  ASSUME StreamInv, Poll \/ ToggleRunning \/ ShowLatest \/ Clear
         \/ \E on \in BOOLEAN : SetFollow(on)
  PROVE  StreamInv'
<1>1. UNCHANGED <<serverVars, view, tableVars, crossed>>
  BY DEF Poll, ToggleRunning, ShowLatest, Clear, SetFollow
<1>2. flight' = flight \/ flight' = Refreshed(flight, view)
      \/ flight' = [flight EXCEPT !["latest"] = None]
  BY DEF Poll, ToggleRunning, ShowLatest, Clear, SetFollow, PollEffect
<1>3. RestOk'
  <2>1. RestOk
    BY DEF StreamInv
  <2> QED
    BY <2>1 DEF Poll, ToggleRunning, ShowLatest, Clear, SetFollow, RestOk, modeVars
<1> QED
  BY <1>1, <1>2, <1>3, Refreshing, TableKept

LEMMA LoadOlderStep == ASSUME StreamInv, LoadOlder PROVE StreamInv'
<1> DEFINE g == PollEffect(flight)
<1>1. /\ UNCHANGED <<serverVars, view, tableVars, clearing, crossed>>
      /\ window # <<>> /\ more.before /\ flight' = [g EXCEPT !["older"] = Sent(view, window[1])]
      /\ running' = running /\ follow' = FALSE
  BY DEF LoadOlder
<1>2. g = flight \/ g = Refreshed(flight, view) \/ g = [flight EXCEPT !["latest"] = None]
  BY DEF PollEffect
<1> HIDE DEF g
<1>3. /\ DOMAIN g = Modes
      /\ \A m \in Modes : FlightOk(m, g[m], Matched(view), view, window, more, next, crossed)
  BY <1>2, Refreshing
<1> DEFINE f == Sent(view, window[1])
<1>4. f \in SentRequests /\ f.state = "sent" /\ f.view = view /\ f.cursor = window[1]
  <2>1. window \in Seq(1 .. MaxSeq) /\ view \in Views
    BY InvFacts
  <2>2. window[1] \in Int
    BY <1>1, <2>1, StreamAssumption
  <2> QED
    BY <2>1, <2>2 DEF Sent, SentRequests
<1> HIDE DEF f
<1>5. FlightOk("older", f, Matched(view), view, window, more, next, crossed)
  <2>1. f.state # "answered" /\ f \in SentRequests \cup Answers
    BY <1>4
  <2>2. LoadOk("older", f, Matched(view), window, more, crossed)
    BY <1>1, <1>4, <2>1 DEF LoadOk
  <2> QED
    BY <1>4, <2>1, <2>2 DEF FlightOk
<1>6. DOMAIN flight' = Modes /\ \A m \in Modes : flight'[m] = IF m = "older" THEN f ELSE g[m]
  BY <1>1, <1>3 DEF f
<1>7. \A m \in Modes : FlightOk(m, flight'[m], Matched(view), view, window, more, next, crossed)
  BY <1>3, <1>5, <1>6
<1>8. RestOk'
  BY <1>1 DEF StreamInv, RestOk
<1> QED
  BY <1>1, <1>6, <1>7, <1>8, TableKept

LEMMA LoadNewerStep == ASSUME StreamInv, LoadNewer PROVE StreamInv'
<1> DEFINE f == Sent(view, window[Len(window)])
<1>1. /\ UNCHANGED <<serverVars, view, tableVars, modeVars, clearing, crossed>>
      /\ window # <<>> /\ more.after /\ flight' = [flight EXCEPT !["newer"] = f]
  BY DEF LoadNewer
<1>2. /\ DOMAIN flight = Modes
      /\ \A m \in Modes : FlightOk(m, flight[m], Matched(view), view, window, more, next, crossed)
  BY InvFacts
<1>3. f \in SentRequests /\ f.state = "sent" /\ f.view = view /\ f.cursor = window[Len(window)]
  <2>1. window \in Seq(1 .. MaxSeq) /\ view \in Views
    BY InvFacts
  <2>2. window[Len(window)] \in Int
    BY <1>1, <2>1, StreamAssumption
  <2> QED
    BY <2>1, <2>2 DEF Sent, SentRequests
<1> HIDE DEF f
<1>4. FlightOk("newer", f, Matched(view), view, window, more, next, crossed)
  <2>1. f.state # "answered" /\ f \in SentRequests \cup Answers
    BY <1>3
  <2>2. LoadOk("newer", f, Matched(view), window, more, crossed)
    BY <1>1, <1>3, <2>1 DEF LoadOk
  <2> QED
    BY <1>3, <2>1, <2>2 DEF FlightOk
<1>5. DOMAIN flight' = Modes /\ \A m \in Modes : flight'[m] = IF m = "newer" THEN f ELSE flight[m]
  BY <1>1, <1>2
<1>6. \A m \in Modes : FlightOk(m, flight'[m], Matched(view), view, window, more, next, crossed)
  BY <1>2, <1>4, <1>5
<1>7. RestOk'
  BY <1>1 DEF StreamInv, RestOk, modeVars
<1> QED
  BY <1>1, <1>5, <1>6, <1>7, TableKept

LEMMA ChangeViewStep == ASSUME StreamInv, NEW v \in Views, ChangeView(v) PROVE StreamInv'
<1> DEFINE g == [m \in Modes |->
                   IF flight[m] = None THEN None ELSE [flight[m] EXCEPT !.stale = TRUE]]
<1>1. /\ history' = history /\ next' = next /\ view' = v /\ window' = <<>> /\ range' = <<>>
         /\ more' = NoMore
      /\ follow' = TRUE /\ crossed' = FALSE /\ running' = running /\ clearing' = clearing
      /\ flight' = Refreshed(g, v)
  BY DEF ChangeView, serverVars
<1>2. HistoryOk /\ RestOk
  BY DEF StreamInv
<1>3. HistoryOk'
  BY <1>1, <1>2 DEF HistoryOk, Matched
<1>4. FlightsOk'
  <2>1. DOMAIN flight' = Modes
    BY <1>1 DEF Refreshed
  <2>2. \A m \in Modes : flight'[m] = IF m = "latest" THEN Sent(v, 0) ELSE g[m]
    BY <1>1 DEF Refreshed
  <2>3. ASSUME NEW m \in Modes
        PROVE  FlightOk(m, flight'[m], Matched(view)', v, <<>>, NoMore, next, FALSE)
    <3>1. CASE m = "latest"
      <4> DEFINE matched == Matched(view)'
      <4>1. flight'[m] = Sent(v, 0)
        BY <2>2, <3>1
      <4> HIDE DEF matched
      <4>2. FlightOk("latest", Sent(v, 0), matched, v, <<>>, NoMore, next, FALSE)
        BY RefreshSent, Zenon
      <4> QED
        BY <3>1, <4>1, <4>2, Zenon DEF matched
    <3>2. CASE m # "latest" /\ flight[m] = None
      <4>1. flight'[m] = None
        BY <2>2, <3>2
      <4> QED
        BY <4>1, NothingFlies
    <3>3. CASE m # "latest" /\ flight[m] # None
      <4> DEFINE f == flight[m]
                 matched == Matched(view)'
      <4>1. f # None /\ FlightOk(m, f, Matched(view), view, window, more, next, crossed)
        BY <3>3, InvFacts
      <4>2. flight'[m] = [f EXCEPT !.stale = TRUE]
        BY <2>2, <3>3
      <4> HIDE DEF f, matched
      <4>3. FlightOk(m, [f EXCEPT !.stale = TRUE], matched, v, <<>>, NoMore, next, FALSE)
        BY <4>1, FlightStale, Zenon
      <4> QED
        BY <4>2, <4>3, Zenon DEF matched
    <3> QED
      BY <3>1, <3>2, <3>3
  <2> QED
    BY <1>1, <2>1, <2>3 DEF FlightsOk
<1>5. WindowOk'
  <2>1. v.limit \in Nat /\ Len(<<>>) = 0
    BY StreamAssumption
  <2>2. PartOf(Matched(view)', <<>>, <<>>, NoMore)
    BY DEF PartOf
  <2>3. ~NoMore.before /\ ~NoMore.after /\ NoMore \in Flags /\ <<>> \in Ranges
    BY DEF NoMore, Flags, Ranges
  <2> QED
    BY <1>1, <2>1, <2>2, <2>3, ShownNothing DEF WindowOk
<1>6. RestOk'
  BY <1>1, <1>2 DEF RestOk
<1> QED
  BY <1>3, <1>4, <1>5, <1>6 DEF StreamInv

(* What becomes of the other requests when the table changes.              *)
LEMMA LoadsCrossed ==
  ASSUME StreamInv, NEW m \in Modes
  PROVE  /\ DOMAIN CrossLoads(flight) = Modes
         /\ \/ tableVars' = tableVars /\ CrossLoads(flight)[m] = flight[m]
            \/ m = "latest" /\ CrossLoads(flight)[m] = flight[m]
            \/ flight[m] = None /\ CrossLoads(flight)[m] = None
            \/ flight[m] # None /\ CrossLoads(flight)[m] = [flight[m] EXCEPT !.crossed = TRUE]
<1>1. DOMAIN flight = Modes
  BY InvFacts
<1>2. CASE UNCHANGED tableVars
  BY <1>1, <1>2 DEF CrossLoads
<1>3. CASE ~UNCHANGED tableVars
  <2>1. CrossLoads(flight) = Cross(flight, {"older", "newer"})
    BY <1>3 DEF CrossLoads
  <2>2. DOMAIN Cross(flight, {"older", "newer"}) = Modes
    BY DEF Cross
  <2>3. Cross(flight, {"older", "newer"})[m] =
          IF m \in {"older", "newer"} /\ flight[m] # None
          THEN [flight[m] EXCEPT !.crossed = TRUE] ELSE flight[m]
    BY DEF Cross
  <2>4. m \in {"older", "newer"} \/ m = "latest"
    BY DEF Modes
  <2> QED
    BY <2>1, <2>2, <2>3, <2>4, Zenon
<1> QED
  BY <1>2, <1>3

LEMMA ClearedStep == ASSUME StreamInv, Cleared PROVE StreamInv'
<1>1. /\ history' = history /\ next' = next /\ view' = view /\ window' = <<>> /\ range' = <<>>
         /\ more' = NoMore
      /\ follow' = follow /\ crossed' = FALSE /\ running' = running /\ clearing' = "no"
      /\ flight' = CrossLoads(flight)
  BY DEF Cleared, serverVars, modeVars
<1>2. HistoryOk /\ RestOk
  BY DEF StreamInv
<1>3. HistoryOk'
  BY <1>1, <1>2 DEF HistoryOk, Matched
<1>4. FlightsOk'
  <2> DEFINE matched == Matched(view)
  <2>1. Matched(view)' = matched
    BY <1>1 DEF Matched
  <2> HIDE DEF matched
  <2>2. ASSUME NEW m \in Modes
        PROVE  DOMAIN flight' = Modes
               /\ FlightOk(m, flight'[m], matched, view, <<>>, NoMore, next, FALSE)
    <3> DEFINE f == flight[m]
    <3>1. FlightOk(m, f, matched, view, window, more, next, crossed)
      BY InvFacts DEF matched
    <3>2. /\ DOMAIN flight' = Modes
          /\ \/ tableVars' = tableVars /\ flight'[m] = f
             \/ m = "latest" /\ flight'[m] = f
             \/ flight'[m] = None
             \/ f # None /\ flight'[m] = [f EXCEPT !.crossed = TRUE]
      BY <1>1, LoadsCrossed
    <3> HIDE DEF f
    <3>3. CASE m = "latest" /\ flight'[m] = f
      BY <3>1, <3>2, <3>3, RefreshOfAny
    <3>4. CASE tableVars' = tableVars /\ flight'[m] = f /\ m # "latest"
      <4>1. window = <<>>
        BY <1>1, <3>4 DEF tableVars
      <4>2. ~LoadOk(m, f, matched, window, more, crossed)
        BY <4>1 DEF LoadOk
      <4> QED
        BY <3>1, <3>2, <3>4, <4>2 DEF FlightOk
    <3>5. CASE flight'[m] = None
      BY <3>2, <3>5, NothingFlies
    <3>6. CASE f # None /\ flight'[m] = [f EXCEPT !.crossed = TRUE]
      <4>1. FlightOk(m, [f EXCEPT !.crossed = TRUE], matched, view, <<>>, NoMore, next, FALSE)
        BY <3>1, <3>6, FlightCrossed, Zenon
      <4> QED
        BY <3>2, <3>6, <4>1, Zenon
    <3> QED
      BY <3>2, <3>3, <3>4, <3>5, <3>6
  <2>3. DOMAIN flight' = Modes
    BY <2>2 DEF Modes
  <2> QED
    BY <1>1, <2>1, <2>2, <2>3 DEF FlightsOk
<1>5. WindowOk'
  <2>1. view.limit \in Nat /\ Len(<<>>) = 0
    BY InvFacts
  <2>2. PartOf(Matched(view)', <<>>, <<>>, NoMore)
    BY DEF PartOf
  <2>3. ~NoMore.before /\ ~NoMore.after /\ NoMore \in Flags /\ <<>> \in Ranges
    BY DEF NoMore, Flags, Ranges
  <2> QED
    BY <1>1, <2>1, <2>2, <2>3, ShownNothing DEF WindowOk
<1>6. RestOk'
  BY <1>1, <1>2 DEF RestOk
<1> QED
  BY <1>3, <1>4, <1>5, <1>6 DEF StreamInv

(* What an answer leaves in the table, whatever crossed.                   *)
LEMMA MergedShown ==
  ASSUME NEW m \in Modes, NEW page, NEW limit \in Nat \ {0}, NEW v, NEW u \in Int,
         Shown(page, v, u), Shown(window, v, u), Len(window) <= limit
  PROVE  Shown(MergeWindow(m, page, limit), v, u) /\ Len(MergeWindow(m, page, limit)) <= limit
<1> DEFINE x == Dedupe(page, window)
           y == Dedupe(window, page)
<1>1. Shown(x, v, u) /\ Shown(y, v, u)
  BY ShownTogether
<1> HIDE DEF x, y
<1>2. MergeWindow(m, page, limit) \in
        {TrimEnd(page, limit), window, TrimStart(x, limit), TrimEnd(y, limit)}
  BY DEF MergeWindow, Modes, x, y
<1>3. Shown(TrimEnd(page, limit), v, u) /\ Len(TrimEnd(page, limit)) <= limit
  BY Trimmed
<1>4. Shown(TrimStart(x, limit), v, u) /\ Len(TrimStart(x, limit)) <= limit
  BY <1>1, Trimmed
<1>5. Shown(TrimEnd(y, limit), v, u) /\ Len(TrimEnd(y, limit)) <= limit
  BY <1>1, Trimmed
<1> QED
  BY <1>2, <1>3, <1>4, <1>5

LEMMA NextRangeType ==
  ASSUME NEW m, NEW r \in Ranges, NEW count \in Int PROVE NextRange(m, r, count) \in Ranges
<1>1. CASE count = 0 \/ r = <<>>
  BY <1>1 DEF NextRange, Ranges
<1>2. CASE ~(count = 0 \/ r = <<>>)
  <2> DEFINE a == r[1]
             b == r[2]
  <2>1. a \in Int /\ b \in Int
    BY <1>2 DEF Ranges
  <2>2. NextRange(m, r, count) = IF m = "newer" THEN <<b - count + 1, b>> ELSE <<a, a + count - 1>>
    BY <1>2 DEF NextRange
  <2> HIDE DEF a, b
  <2>3. b - count + 1 \in Int /\ a + count - 1 \in Int
    BY <2>1
  <2> QED
    BY <2>1, <2>2, <2>3 DEF Ranges
<1> QED
  BY <1>1, <1>2

(* A page that is a part of what matches, and fits.                        *)
LEMMA LatestFits ==
  ASSUME NEW matched \in Seq(1 .. MaxSeq), NEW d \in Pages, NEW limit \in Nat \ {0},
         PartOf(matched, d.events, d.range, d.more), LatestOk(d, limit),
         NEW new, new = MergeWindow("latest", d.events, limit)
  PROVE  /\ new = d.events /\ NextRange("latest", d.range, Len(new)) = d.range
         /\ (d.more.before \/ d.more.after) => Len(new) = limit
<1> DEFINE e == d.events
           r == d.range
           S == 1 .. MaxSeq
<1>1. e \in Seq(S) /\ r \in Ranges /\ Len(e) \in Nat /\ Len(e) <= limit
  BY DEF Pages, LatestOk
<1>2. AtLeast(1, Len(e) - limit + 1) = 1
  BY <1>1 DEF AtLeast
<1>3. new = SubSeq(e, 1, Len(e))
  BY <1>2 DEF MergeWindow, TrimEnd
<1> HIDE DEF e, r, S
<1>4. new = e
  BY <1>1, <1>3, SubSeqFull
<1>5. NextRange("latest", r, Len(new)) = r
  <2>1. CASE r = <<>>
    BY <2>1 DEF NextRange
  <2>2. CASE r # <<>> /\ e = <<>>
    <3>1. PartOf(matched, e, r, d.more)
      BY DEF e, r
    <3>2. r[1] \in Int /\ r[2] \in Int /\ 1 <= r[1] /\ r[1] <= r[2] /\ r[2] <= Len(matched)
          /\ e = SubSeq(matched, r[1], r[2])
      BY <1>1, <2>2, <3>1, PartRange
    <3>3. Len(e) = r[2] - r[1] + 1
      <4> DEFINE a == r[1]
                 b == r[2]
      <4> HIDE DEF a, b
      <4>1. Len(SubSeq(matched, a, b)) = IF a <= b THEN b - a + 1 ELSE 0
        BY <3>2, PartFacts DEF a, b
      <4> QED
        BY <3>2, <4>1 DEF a, b
    <3> QED
      BY <2>2, <3>2, <3>3
  <2>3. CASE r # <<>> /\ e # <<>>
    <3>1. PartOf(matched, e, r, d.more)
      BY DEF e, r
    <3>2. r[1] \in Int /\ r[2] \in Int /\ Len(e) = r[2] - r[1] + 1
      BY <1>1, <2>3, <3>1, WindowEnds
    <3>3. r = <<r[1], r[2]>>
      BY <1>1, <2>3, <3>1, PartRange
    <3>4. Len(e) # 0 /\ r[1] + Len(e) - 1 = r[2]
      BY <1>1, <2>3, <3>2
    <3>5. NextRange("latest", r, Len(e)) = <<r[1], r[1] + Len(e) - 1>>
      BY <2>3, <3>4 DEF NextRange
    <3> QED
      BY <1>4, <3>3, <3>4, <3>5
  <2> QED
    BY <2>1, <2>2, <2>3
<1>6. (d.more.before \/ d.more.after) => Len(new) = limit
  BY <1>4 DEF LatestOk, e
<1> QED
  BY <1>4, <1>5, <1>6 DEF e, r

(* A page of older events fits the window that it was asked for.           *)
LEMMA OlderFits ==
  ASSUME NEW matched \in Seq(1 .. MaxSeq), Ascending(matched), IsInjective(matched),
         NEW d \in Pages, NEW limit \in Nat \ {0},
         PartOf(matched, d.events, d.range, d.more), range \in Ranges,
         PartOf(matched, window, range, more), window # <<>>, more.before, Len(window) = limit,
         \A k \in DOMAIN matched : matched[k] < window[1] <=> d.range # <<>> /\ k <= d.range[2],
         NEW new, new = MergeWindow("older", d.events, limit)
  PROVE  PartOf(matched, new, NextRange("older", d.range, Len(new)), d.more) /\ Len(new) = limit
<1> DEFINE S == 1 .. MaxSeq
           len == Len(matched)
           a == range[1]
           b == range[2]
           r == d.range
           p == r[1]
           e == d.events
           c == a - 1
<1>1. /\ a \in Int /\ b \in Int /\ 1 <= a /\ a <= b /\ b <= len /\ a > 1
      /\ window = SubSeq(matched, a, b) /\ window[1] = matched[a] /\ b - a + 1 = limit
      /\ a \in DOMAIN matched
  <2>1. range # <<>> /\ window[1] = matched[a] /\ Len(window) = b - a + 1 /\ a \in DOMAIN matched
    BY WindowEnds
  <2>2. /\ a \in Int /\ b \in Int /\ 1 <= a /\ a <= b /\ b <= len /\ a > 1
        /\ window = SubSeq(matched, a, b)
    BY <2>1, PartRange
  <2> QED
    BY <2>1, <2>2
<1>2. matched \in Seq(S) /\ DOMAIN matched = 1 .. len /\ len \in Nat /\ r \in Ranges
      /\ \A k \in DOMAIN matched : matched[k] \in Int
  BY StreamAssumption DEF Pages
<1> HIDE DEF S, len, a, b, p
<1>3. c \in Int /\ c \in DOMAIN matched /\ c < a /\ c + 1 = a
  BY <1>1, <1>2
<1> HIDE DEF c
<1>4. matched[c] < matched[a] /\ ~(matched[a] < matched[a])
  <2>1. matched[c] < matched[a]
    BY <1>1, <1>3 DEF Ascending
  <2>2. matched[a] \in Int
    BY <1>1, <1>2
  <2> QED
    BY <2>1, <2>2
<1>5. r # <<>> /\ c <= r[2] /\ ~(a <= r[2])
  BY <1>1, <1>3, <1>4
<1> HIDE DEF r, e
<1>6. /\ p \in Int /\ r[2] \in Int /\ 1 <= p /\ p <= r[2] /\ r[2] <= len
      /\ e = SubSeq(matched, p, r[2]) /\ (d.more.before <=> p > 1) /\ (d.more.after => r[2] < len)
  <2>1. PartOf(matched, e, r, d.more)
    BY DEF e, r
  <2> QED
    BY <1>2, <1>5, <2>1, PartRange DEF p, len
<1>7. r[2] = c
  BY <1>1, <1>3, <1>5, <1>6
<1>8. e = SubSeq(matched, p, c) /\ 1 <= p /\ p <= c
  BY <1>6, <1>7
<1>9. /\ e \in Seq(S) /\ DOMAIN e = 1 .. Len(e) /\ Len(e) = c - p + 1
      /\ \A k \in 1 .. Len(e) : p + k - 1 \in DOMAIN matched /\ e[k] = matched[p + k - 1]
  <2>1. c <= Len(matched)
    BY <1>2, <1>3
  <2> QED
    BY <1>2, <1>3, <1>6, <1>8, <2>1, PartFacts
<1>10. /\ window \in Seq(S) /\ DOMAIN window = 1 .. Len(window)
       /\ \A k \in 1 .. Len(window) : a + k - 1 \in DOMAIN matched /\ window[k] = matched[a + k - 1]
  BY <1>1, <1>2, PartFacts DEF len
<1>11. ASSUME NEW i \in DOMAIN e, NEW j \in DOMAIN window PROVE e[i] # window[j]
  <2>1. p + i - 1 \in DOMAIN matched /\ a + j - 1 \in DOMAIN matched
        /\ e[i] = matched[p + i - 1] /\ window[j] = matched[a + j - 1]
    BY <1>9, <1>10
  <2>2. p + i - 1 # a + j - 1
    BY <1>1, <1>3, <1>6, <1>9, <1>10, SMTT(30)
  <2> QED
    BY <2>1, <2>2, Zenon DEF IsInjective
<1>12. Dedupe(e, window) = e \o window
  BY <1>9, <1>10, <1>11, Apart
<1>13. e \o window = SubSeq(matched, p, b)
  <2>1. p \in 1 .. Len(matched) + 1 /\ c \in p - 1 .. Len(matched) /\ b \in c .. Len(matched)
    BY <1>1, <1>2, <1>3, <1>6, <1>8 DEF len
  <2>2. SubSeq(matched, p, c) \o SubSeq(matched, c + 1, b) = SubSeq(matched, p, b)
    BY <1>2, <2>1, ConcatAdjacentSubSeq
  <2> QED
    BY <1>1, <1>3, <1>8, <2>2
<1> DEFINE q == p + limit - 1
           whole == SubSeq(matched, p, b)
<1>14. q \in Int /\ p <= q /\ q < b /\ limit <= b - p + 1
  BY <1>1, <1>3, <1>6, <1>8
<1>15. Len(whole) = b - p + 1
  BY <1>1, <1>2, <1>6, <1>8, <1>3, PartFacts DEF len
<1>16. TrimStart(whole, limit) = SubSeq(matched, p, q)
  <2>1. AtMost(Len(whole), limit) = limit
    BY <1>1, <1>6, <1>14, <1>15 DEF AtMost
  <2> DEFINE one == 1
  <2>2. p \in 1 .. Len(matched) /\ b \in 1 .. Len(matched)
        /\ one \in 1 .. b - p + 1 /\ limit \in 1 .. b - p + 1
    BY <1>1, <1>2, <1>6, <1>14 DEF len
  <2>3. p + one - 1 = p
    BY <1>6
  <2> HIDE DEF one, q
  <2>4. SubSeq(SubSeq(matched, p, b), one, limit) = SubSeq(matched, p + one - 1, p + limit - 1)
    BY <1>2, <2>2, SubSeqOfSubSeq
  <2> QED
    BY <2>1, <2>3, <2>4 DEF TrimStart, one, q
<1>17. new = SubSeq(matched, p, q)
  <2>1. e # <<>>
    <3>1. Len(e) # 0
      BY <1>3, <1>6, <1>8, <1>9
    <3>2. Len(<<>>) = 0
      OBVIOUS
    <3> QED
      BY <3>1, <3>2, Zenon
  <2>2. new = TrimStart(Dedupe(e, window), limit)
    BY <2>1 DEF MergeWindow, e
  <2> QED
    BY <1>12, <1>13, <1>16, <2>2
<1>18. Len(new) = limit
  <2>1. q <= Len(matched)
    BY <1>1, <1>14, <1>2 DEF len
  <2> HIDE DEF q
  <2>2. Len(SubSeq(matched, p, q)) = IF p <= q THEN q - p + 1 ELSE 0
    BY <1>2, <1>6, <1>14, <2>1, PartFacts
  <2>3. q - p + 1 = limit
    BY <1>6 DEF q
  <2> QED
    BY <1>14, <1>17, <2>2, <2>3
<1> HIDE DEF q
<1> DEFINE pair == <<p, q>>
<1>19. pair # <<>> /\ pair[1] = p /\ pair[2] = q
  OBVIOUS
<1>20. NextRange("older", r, Len(new)) = pair
  BY <1>5, <1>18 DEF NextRange, p, q
<1> HIDE DEF pair
<1>21. PartOf(matched, new, pair, d.more)
  <2>1. q <= len /\ q < len
    BY <1>1, <1>2, <1>14
  <2> QED
    BY <1>6, <1>14, <1>17, <1>19, <2>1, Zenon DEF PartOf, len
<1> QED
  BY <1>18, <1>20, <1>21 DEF r

(* ... and so does a page of newer ones.                                   *)
LEMMA NewerFits ==
  ASSUME NEW matched \in Seq(1 .. MaxSeq), Ascending(matched), IsInjective(matched),
         NEW d \in Pages, NEW limit \in Nat \ {0},
         PartOf(matched, d.events, d.range, d.more), range \in Ranges,
         PartOf(matched, window, range, more), window # <<>>, more.after, Len(window) = limit,
         d.range # <<>>,
         \A k \in DOMAIN matched : matched[k] <= window[Len(window)] <=> k < d.range[1],
         NEW new, new = MergeWindow("newer", d.events, limit)
  PROVE  PartOf(matched, new, NextRange("newer", d.range, Len(new)), d.more) /\ Len(new) = limit
<1> DEFINE S == 1 .. MaxSeq
           len == Len(matched)
           a == range[1]
           b == range[2]
           r == d.range
           p == r[1]
           z == r[2]
           e == d.events
           c == b + 1
<1>1. /\ a \in Int /\ b \in Int /\ 1 <= a /\ a <= b /\ b < len
      /\ window = SubSeq(matched, a, b) /\ window[Len(window)] = matched[b] /\ b - a + 1 = limit
      /\ Len(window) = b - a + 1 /\ b \in DOMAIN matched
  <2>1. range # <<>> /\ window[Len(window)] = matched[b] /\ Len(window) = b - a + 1
        /\ b \in DOMAIN matched
    BY WindowEnds
  <2>2. /\ a \in Int /\ b \in Int /\ 1 <= a /\ a <= b /\ b < len
        /\ window = SubSeq(matched, a, b)
    BY <2>1, PartRange
  <2> QED
    BY <2>1, <2>2
<1>2. matched \in Seq(S) /\ DOMAIN matched = 1 .. len /\ len \in Nat /\ r \in Ranges
      /\ \A k \in DOMAIN matched : matched[k] \in Int
  BY StreamAssumption DEF Pages
<1> HIDE DEF S, len, a, b, p, z
<1>3. c \in Int /\ c \in DOMAIN matched /\ b < c /\ b + 1 = c
  BY <1>1, <1>2
<1> HIDE DEF c
<1>4. ~(matched[c] <= matched[b]) /\ matched[b] <= matched[b]
  <2>1. matched[b] < matched[c] /\ matched[b] \in Int /\ matched[c] \in Int
    BY <1>1, <1>2, <1>3 DEF Ascending
  <2> QED
    BY <2>1
<1>5. r # <<>> /\ b < p /\ ~(c < p)
  BY <1>1, <1>3, <1>4 DEF p
<1> HIDE DEF r, e
<1>6. /\ p \in Int /\ z \in Int /\ 1 <= p /\ p <= z /\ z <= len
      /\ e = SubSeq(matched, p, z) /\ (d.more.before <=> p > 1) /\ (d.more.after => z < len)
  <2>1. PartOf(matched, e, r, d.more)
    BY DEF e, r
  <2> QED
    BY <1>2, <1>5, <2>1, PartRange DEF p, z, len
<1>7. p = c
  BY <1>1, <1>3, <1>5, <1>6
<1>8. e = SubSeq(matched, c, z) /\ 1 <= c /\ c <= z
  BY <1>6, <1>7
<1>9. /\ e \in Seq(S) /\ DOMAIN e = 1 .. Len(e) /\ Len(e) = z - c + 1
      /\ \A k \in 1 .. Len(e) : c + k - 1 \in DOMAIN matched /\ e[k] = matched[c + k - 1]
  BY <1>2, <1>3, <1>6, <1>8, PartFacts DEF len
<1>10. /\ window \in Seq(S) /\ DOMAIN window = 1 .. Len(window)
       /\ \A k \in 1 .. Len(window) : a + k - 1 \in DOMAIN matched /\ window[k] = matched[a + k - 1]
  BY <1>1, <1>2, PartFacts DEF len
<1>11. ASSUME NEW i \in DOMAIN window, NEW j \in DOMAIN e PROVE window[i] # e[j]
  <2>1. a + i - 1 \in DOMAIN matched /\ c + j - 1 \in DOMAIN matched
        /\ e[j] = matched[c + j - 1] /\ window[i] = matched[a + i - 1]
    BY <1>9, <1>10
  <2>2. a + i - 1 # c + j - 1
    BY <1>1, <1>3, <1>6, <1>9, <1>10, SMTT(30)
  <2> QED
    BY <2>1, <2>2, Zenon DEF IsInjective
<1>12. Dedupe(window, e) = window \o e
  BY <1>9, <1>10, <1>11, Apart
<1>13. window \o e = SubSeq(matched, a, z)
  <2>1. a \in 1 .. Len(matched) + 1 /\ b \in a - 1 .. Len(matched) /\ z \in b .. Len(matched)
    BY <1>1, <1>2, <1>3, <1>6, <1>8 DEF len
  <2>2. SubSeq(matched, a, b) \o SubSeq(matched, b + 1, z) = SubSeq(matched, a, z)
    BY <1>2, <2>1, ConcatAdjacentSubSeq
  <2> QED
    BY <1>1, <1>3, <1>8, <2>2
<1> DEFINE q == z - limit + 1
           whole == SubSeq(matched, a, z)
           first == (z - a + 1) - limit + 1
<1>14. q \in Int /\ q <= z /\ a < q /\ limit <= z - a + 1 /\ first \in Int /\ first > 1
       /\ a + first - 1 = q
  BY <1>1, <1>3, <1>6, <1>8
<1>15. Len(whole) = z - a + 1
  BY <1>1, <1>2, <1>6, <1>8, <1>3, PartFacts DEF len
<1>16. TrimEnd(whole, limit) = SubSeq(matched, q, z)
  <2>1. AtLeast(1, Len(whole) - limit + 1) = first
    BY <1>1, <1>6, <1>14, <1>15 DEF AtLeast
  <2>2. a \in 1 .. Len(matched) /\ z \in 1 .. Len(matched)
        /\ first \in 1 .. z - a + 1 /\ z - a + 1 \in 1 .. z - a + 1
    BY <1>1, <1>2, <1>6, <1>14 DEF len
  <2>3. a + (z - a + 1) - 1 = z
    BY <1>1, <1>6
  <2> HIDE DEF first, q
  <2>4. SubSeq(SubSeq(matched, a, z), first, z - a + 1) = SubSeq(matched, a + first - 1,
        a + (z - a + 1) - 1)
    BY <1>2, <2>2, SubSeqOfSubSeq
  <2> QED
    BY <1>14, <1>15, <2>1, <2>3, <2>4 DEF TrimEnd
<1>17. new = SubSeq(matched, q, z)
  <2>1. e # <<>>
    <3>1. Len(e) # 0
      BY <1>3, <1>6, <1>8, <1>9
    <3>2. Len(<<>>) = 0
      OBVIOUS
    <3> QED
      BY <3>1, <3>2, Zenon
  <2>2. new = TrimEnd(Dedupe(window, e), limit)
    BY <2>1 DEF MergeWindow, e
  <2> QED
    BY <1>12, <1>13, <1>16, <2>2
<1>18. Len(new) = limit
  <2>1. 1 <= q /\ z <= Len(matched) /\ z - q + 1 = limit
    BY <1>1, <1>6, <1>14 DEF len
  <2> HIDE DEF q
  <2>2. Len(SubSeq(matched, q, z)) = IF q <= z THEN z - q + 1 ELSE 0
    BY <1>2, <1>6, <1>14, <2>1, PartFacts
  <2> QED
    BY <1>14, <1>17, <2>1, <2>2
<1> HIDE DEF q
<1> DEFINE pair == <<q, z>>
<1>19. pair # <<>> /\ pair[1] = q /\ pair[2] = z
  OBVIOUS
<1>20. NextRange("newer", r, Len(new)) = pair
  BY <1>5, <1>18 DEF NextRange, z, q
<1> HIDE DEF pair
<1>21. PartOf(matched, new, pair, d.more)
  <2>1. 1 <= q /\ q > 1 /\ p > 1
    BY <1>1, <1>3, <1>6, <1>7, <1>14
  <2> QED
    BY <1>6, <1>14, <1>17, <1>19, <2>1, Zenon DEF PartOf, len
<1> QED
  BY <1>18, <1>20, <1>21 DEF r

LEMMA StaleStep ==
  ASSUME StreamInv, NEW m \in Modes, Deliver(m), flight[m].stale
  PROVE  StreamInv'
<1>1. flight' = [flight EXCEPT ![m] = None]
      /\ UNCHANGED <<serverVars, view, tableVars, modeVars, clearing, crossed>>
  BY DEF Deliver
<1>2. /\ DOMAIN flight = Modes
      /\ \A k \in Modes : FlightOk(k, flight[k], Matched(view), view, window, more, next, crossed)
  BY InvFacts
<1>3. DOMAIN flight' = Modes /\ \A k \in Modes : flight'[k] = IF k = m THEN None ELSE flight[k]
  BY <1>1, <1>2
<1>4. \A k \in Modes : FlightOk(k, flight'[k], Matched(view), view, window, more, next, crossed)
  BY <1>2, <1>3, NothingFlies
<1>5. RestOk'
  BY <1>1 DEF RestOk, StreamInv, modeVars
<1> QED
  BY <1>1, <1>3, <1>4, <1>5, TableKept

LEMMA FreshStep ==
  ASSUME StreamInv, NEW m \in Modes, Deliver(m), ~flight[m].stale
  PROVE  StreamInv'
<1> DEFINE f == flight[m]
           d == f.data
           matched == Matched(view)
           limit == view.limit
<1>1. /\ f.state = "answered" /\ history' = history /\ next' = next /\ view' = view
      /\ running' = running /\ follow' = follow /\ clearing' = clearing
      /\ window' = MergeWindow(m, d.events, f.view.limit)
            /\ range' = NextRange(m, d.range, Len(window'))
      /\ more' = d.more /\ crossed' = (f.crossed \/ (m # "latest" /\ crossed))
      /\ flight' = [CrossLoads(flight) EXCEPT ![m] = None]
  BY DEF Deliver, Apply, serverVars, modeVars
<1>2. /\ matched \in Seq(1 .. MaxSeq) /\ Ascending(matched) /\ Shown(matched, view, next)
      /\ limit \in Nat \ {0} /\ Shown(window, view, next) /\ next \in Int
      /\ FlightOk(m, f, matched, view, window, more, next, crossed)
  BY InvFacts
<1>3. IsInjective(matched)
  BY <1>2 DEF Shown
<1>4. HistoryOk /\ WindowOk /\ RestOk
  BY DEF StreamInv
<1>5. /\ Len(window) <= limit /\ range \in Ranges /\ more \in Flags
      /\ ~crossed => /\ PartOf(matched, window, range, more)
                     /\ more.before \/ more.after => Len(window) = limit
  BY <1>4 DEF WindowOk
<1>6. Matched(view)' = matched
  BY <1>1 DEF Matched
<1>7. ~f.stale
  OBVIOUS
<1> HIDE DEF f, matched, limit
<1>8. f # None
  BY <1>1 DEF None
<1>9. /\ f \in SentRequests \cup Answers /\ f.view = view /\ Shown(d.events, view, next)
      /\ ~f.crossed =>
           /\ PartOf(matched, d.events, d.range, d.more)
           /\ m = "latest" => LatestOk(d, limit)
           /\ m # "latest" => LoadOk(m, f, matched, window, more, crossed)
  BY <1>1, <1>2, <1>7, <1>8 DEF FlightOk, limit
<1>10. d \in Pages /\ d.range \in Ranges /\ d.more \in Flags /\ f.crossed \in BOOLEAN
  <2>1. d \in Pages /\ f.crossed \in BOOLEAN
    BY <1>1, <1>9, FlightTyped
  <2> HIDE DEF d
  <2> QED
    BY <2>1 DEF Pages
<1> HIDE DEF d
<1>11. window' = MergeWindow(m, d.events, limit)
  BY <1>1, <1>9 DEF limit
<1> DEFINE new == MergeWindow(m, d.events, limit)
<1>12. Shown(new, view, next) /\ Len(new) <= limit
  BY <1>2, <1>5, <1>9, MergedShown
<1>13. NextRange(m, d.range, Len(new)) \in Ranges
  <2>1. new \in Seq(1 .. MaxSeq)
    BY <1>12 DEF Shown
  <2> HIDE DEF new
  <2>2. Len(new) \in Int
    BY <2>1
  <2> QED
    BY <1>10, <2>2, NextRangeType
<1>14. ASSUME ~f.crossed, m = "latest" \/ ~crossed
       PROVE  /\ PartOf(matched, new, NextRange(m, d.range, Len(new)), d.more)
              /\ (d.more.before \/ d.more.after) => Len(new) = limit
  <2>1. PartOf(matched, d.events, d.range, d.more)
    BY <1>9, <1>14
  <2>2. CASE m = "latest"
    <3>1. LatestOk(d, limit)
      BY <1>9, <1>14, <2>2
    <3>2. new = MergeWindow("latest", d.events, limit)
      BY <2>2
    <3> HIDE DEF new
    <3>3. /\ new = d.events /\ NextRange("latest", d.range, Len(new)) = d.range
          /\ (d.more.before \/ d.more.after) => Len(new) = limit
      BY <1>2, <1>10, <2>1, <3>1, <3>2, LatestFits
    <3>4. NextRange(m, d.range, Len(new)) = d.range
      BY <2>2, <3>3
    <3> QED
      BY <2>1, <3>3, <3>4, Zenon
  <2>3. CASE m = "older"
    <3>1. ~crossed /\ LoadOk(m, f, matched, window, more, crossed)
      BY <1>9, <1>14, <2>3
    <3>2. /\ window # <<>> /\ more.before
          /\ \A k \in DOMAIN matched : matched[k] < window[1] <=> d.range # <<>> /\ k <= d.range[2]
      BY <1>1, <2>3, <3>1 DEF LoadOk, d
    <3>3. PartOf(matched, window, range, more) /\ Len(window) = limit
      BY <1>5, <3>1, <3>2
    <3>4. new = MergeWindow("older", d.events, limit)
      BY <2>3
    <3> HIDE DEF new
    <3>5. PartOf(matched, new, NextRange("older", d.range, Len(new)), d.more) /\ Len(new) = limit
      BY <1>2, <1>3, <1>5, <1>10, <2>1, <3>2, <3>3, <3>4, OlderFits
    <3> QED
      BY <2>3, <3>5, Zenon
  <2>4. CASE m = "newer"
    <3>1. ~crossed /\ LoadOk(m, f, matched, window, more, crossed)
      BY <1>9, <1>14, <2>4
    <3>2. /\ window # <<>> /\ more.after /\ d.range # <<>>
          /\ \A k \in DOMAIN matched : matched[k] <= window[Len(window)] <=> k < d.range[1]
      BY <1>1, <2>4, <3>1 DEF LoadOk, d
    <3>3. PartOf(matched, window, range, more) /\ Len(window) = limit
      BY <1>5, <3>1, <3>2
    <3>4. new = MergeWindow("newer", d.events, limit)
      BY <2>4
    <3> HIDE DEF new
    <3>5. PartOf(matched, new, NextRange("newer", d.range, Len(new)), d.more) /\ Len(new) = limit
      BY <1>2, <1>3, <1>5, <1>10, <2>1, <3>2, <3>3, <3>4, NewerFits
    <3> QED
      BY <2>4, <3>5, Zenon
  <2> QED
    BY <2>2, <2>3, <2>4 DEF Modes
<1> DEFINE ordinals == NextRange(m, d.range, Len(new))
<1>15. window' = new /\ range' = ordinals /\ more' = d.more
  BY <1>1, <1>11
<1> HIDE DEF new, ordinals
<1>16. WindowOk'
  <2>1. ~crossed' => ~f.crossed /\ (m = "latest" \/ ~crossed)
    BY <1>1
  <2>2. ~crossed' => /\ PartOf(matched, new, ordinals, d.more)
                     /\ (d.more.before \/ d.more.after) => Len(new) = limit
    BY <1>14, <2>1 DEF ordinals
  <2>3. ordinals \in Ranges
    BY <1>13 DEF ordinals
  <2> QED
    BY <1>1, <1>6, <1>10, <1>12, <1>15, <2>2, <2>3 DEF WindowOk, limit
<1>17. FlightsOk'
  <2>1. ASSUME NEW k \in Modes
        PROVE  DOMAIN CrossLoads(flight) = Modes
               /\ (k # m => FlightOk(k, CrossLoads(flight)[k], matched, view, new, d.more, next,
                     crossed'))
    <3> DEFINE g == flight[k]
               h == CrossLoads(flight)[k]
    <3>1. /\ DOMAIN CrossLoads(flight) = Modes
          /\ \/ tableVars' = tableVars /\ h = g
             \/ k = "latest" /\ h = g
             \/ h = None
             \/ g # None /\ h = [g EXCEPT !.crossed = TRUE]
      BY LoadsCrossed
    <3>2. FlightOk(k, g, matched, view, window, more, next, crossed)
      BY InvFacts DEF matched
    <3> HIDE DEF g, h
    <3> SUFFICES ASSUME k # m PROVE FlightOk(k, h, matched, view, new, d.more, next, crossed')
      BY <3>1 DEF h
    <3>3. CASE k = "latest" /\ h = g
      BY <3>2, <3>3, RefreshOfAny
    <3>4. CASE h = None
      BY <3>4, NothingFlies
    <3>5. CASE g # None /\ h = [g EXCEPT !.crossed = TRUE]
      <4>1. FlightOk(k, [g EXCEPT !.crossed = TRUE], matched, view, new, d.more, next, crossed')
        BY <3>2, <3>5, FlightCrossed, Zenon
      <4> QED
        BY <3>5, <4>1, Zenon
    <3>6. CASE tableVars' = tableVars /\ h = g /\ k # "latest"
      <4>1. new = window /\ d.more = more
        BY <1>15, <3>6 DEF tableVars
      <4>2. CASE crossed => crossed'
        <5>1. FlightOk(k, g, matched, view, window, more, next, crossed')
          BY <3>2, <4>2, FlightExcused
        <5> QED
          BY <3>6, <4>1, <5>1, Zenon
      <4>3. CASE ~(crossed => crossed')
        <5>1. m = "latest" /\ ~f.crossed
          BY <1>1, <4>3
        <5>2. ~more.after
          BY <1>9, <4>1, <5>1 DEF LatestOk
        <5>3. LoadOk(k, g, matched, window, more, crossed)
              => LoadOk(k, g, matched, window, more, crossed')
          BY <5>2 DEF LoadOk
        <5>4. FlightOk(k, g, matched, view, window, more, next, crossed')
          BY <3>2, <5>3 DEF FlightOk
        <5> QED
          BY <3>6, <4>1, <5>4, Zenon
      <4> QED
        BY <4>2, <4>3
    <3> QED
      BY <3>1, <3>3, <3>4, <3>5, <3>6
  <2>2. DOMAIN flight' = Modes
        /\ \A k \in Modes : flight'[k] = IF k = m THEN None ELSE CrossLoads(flight)[k]
    BY <1>1, <2>1
  <2>3. ASSUME NEW k \in Modes PROVE FlightOk(k, flight'[k], matched, view, new, d.more, next,
               crossed')
    <3>1. CASE k = m
      BY <2>2, <3>1, NothingFlies
    <3>2. CASE k # m
      BY <2>1, <2>2, <3>2
    <3> QED
      BY <3>1, <3>2
  <2> QED
    BY <1>1, <1>6, <1>15, <2>2, <2>3 DEF FlightsOk
<1>18. HistoryOk'
  BY <1>1, <1>4 DEF HistoryOk, Matched
<1>19. RestOk'
  <2>1. crossed' \in BOOLEAN
    BY <1>1
  <2> QED
    BY <1>1, <1>4, <2>1 DEF RestOk
<1> QED
  BY <1>16, <1>17, <1>18, <1>19 DEF StreamInv

-----------------------------------------------------------------------------
(* The table never leaves the invariant: whatever is answered late, out of *)
(* order, for another table or not at all, a window that nothing crossed   *)
(* is a part of what matches, as long as it may be when there is more.     *)
THEOREM StreamInvariance == Spec => []StreamInv
<1>1. StreamInv /\ [Next]_vars => StreamInv'
  <2> SUFFICES ASSUME StreamInv, [Next]_vars PROVE StreamInv'
    OBVIOUS
  <2>1. CASE Capture
    BY <2>1, CaptureStep
  <2>2. CASE Lose
    BY <2>2, LoseStep
  <2>3. CASE ServerClears
    BY <2>3, ServerClearsStep
  <2>4. ASSUME NEW m \in Modes, Answer(m) \/ Deliver(m) \/ Fail(m) PROVE StreamInv'
    BY <2>4, AnswerStep, StaleStep, FreshStep, FailStep
  <2>5. CASE Poll \/ ToggleRunning \/ ShowLatest \/ Clear \/ \E on \in BOOLEAN : SetFollow(on)
    BY <2>5, UserStep
  <2>6. CASE LoadOlder
    BY <2>6, LoadOlderStep
  <2>7. CASE LoadNewer
    BY <2>7, LoadNewerStep
  <2>8. CASE Cleared
    BY <2>8, ClearedStep
  <2>9. ASSUME NEW v \in Views, ChangeView(v) PROVE StreamInv'
    BY <2>9, ChangeViewStep
  <2>10. CASE UNCHANGED vars
    BY <2>10 DEF vars, serverVars, tableVars, modeVars, StreamInv, HistoryOk, FlightsOk, WindowOk,
       RestOk, Matched
  <2> QED
    BY <2>1, <2>2, <2>3, <2>4, <2>5, <2>6, <2>7, <2>8, <2>9, <2>10 DEF Next
<1> QED
  BY <1>1, InitInv, PTL DEF Spec

(* Type correctness: the history, the window, its limit and the requests   *)
(* under way.                                                              *)
THEOREM StreamTypeCorrect == Spec => []TypeOK
<1>1. StreamInv => TypeOK
  <2> SUFFICES ASSUME StreamInv PROVE TypeOK
    OBVIOUS
  <2>1. /\ history \in Seq(1 .. MaxSeq) /\ next \in 1 .. MaxSeq + 1 /\ view \in Views
        /\ window \in Seq(1 .. MaxSeq) /\ DOMAIN flight = Modes /\ Shown(window, view, next)
    BY InvFacts
  <2>2. WindowOk /\ RestOk
    BY DEF StreamInv
  <2>3. range = <<>> \/ (range \in Seq(Int) /\ Len(range) = 2)
    <3>1. CASE range \in Int \X Int
      <4>1. PICK a \in Int, b \in Int : range = <<a, b>>
        BY <3>1
      <4> QED
        BY <4>1
    <3> QED
      BY <2>2, <3>1 DEF WindowOk, Ranges
  <2> QED
    BY <2>1, <2>2, <2>3 DEF TypeOK, WindowOk, RestOk, Shown, Flags
<1> QED
  BY <1>1, StreamInvariance, PTL

(* An event that the filters of now would not let through is never shown,  *)
(* whatever was under way when they changed (the generation is what keeps  *)
(* it out).                                                                *)
THEOREM FiltersCorrect == Spec => []FiltersHold
<1>1. StreamInv => FiltersHold
  <2> SUFFICES ASSUME StreamInv PROVE FiltersHold
    OBVIOUS
  <2>1. \A k \in DOMAIN window : window[k] \in view.match
    BY InvFacts DEF Shown
  <2> QED
    BY <2>1, SetOfSeq DEF FiltersHold
<1> QED
  BY <1>1, StreamInvariance, PTL

(* The table shows a part of what matches, without a gap and in order, and *)
(* the positions it gives are those of its first and its last event.       *)
THEOREM WindowCorrect == Spec => []WindowIsWhatItSays
<1>1. StreamInv => WindowIsWhatItSays
  BY DEF StreamInv, WindowOk, WindowIsWhatItSays, PartOf
<1> QED
  BY <1>1, StreamInvariance, PTL

(* The table offers older events exactly when there are some, and newer    *)
(* ones only when there are some, by what the last page said although the  *)
(* window was merged and trimmed since: it is trimmed only when it is      *)
(* full.                                                                   *)
THEOREM NoDeadEndCorrect == Spec => []NoDeadEnd
<1>1. StreamInv => NoDeadEnd
  BY DEF StreamInv, WindowOk, NoDeadEnd, PartOf
<1> QED
  BY <1>1, StreamInvariance, PTL
=============================================================================
