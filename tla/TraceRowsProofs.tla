--------------------------- MODULE TraceRowsProofs --------------------------
(***************************************************************************)
(* Calls and their replies, for every interleaving of the hooks, every     *)
(* loss and every set of programs.  Two facts carry it: a debug id is on   *)
(* one call and on one reply at most, wherever they are between the hook   *)
(* and the histories; and what a store keeps beside its history is what    *)
(* the history says.                                                       *)
(***************************************************************************)
EXTENDS TraceRows, Decoder, FiniteSetTheorems, SequenceTheorems, WellFoundedInduction, TLAPS

-----------------------------------------------------------------------------
(* Ids.                                                                    *)

Directions == {"call", "oneway", "reply"}
Stamps == [at : Nat, dir : Directions, id : Nat, to : Nat, iface : Nat]
Events == [seq : Nat \ {0}, at : Nat, dir : Directions, id : Nat, to : Nat, iface : Nat, lost : Nat]

(* Only calls have an id, and only replies say which call they answer.     *)
Marked(e) == /\ e.id # 0 => e.dir = "call"
             /\ e.to # 0 => e.dir = "reply"

Told == {mcp.history, webui.history, tui.history}

BinderOk ==
  /\ issued \in Nat /\ clock \in Nat /\ emitted \in Nat /\ missed \in Nat
  /\ inCall \subseteq [id : 1 .. issued, iface : Nat]
  /\ unanswered \subseteq 1 .. issued
  /\ stamped \subseteq Stamps /\ \A s \in stamped : Marked(s)
  /\ \A h \in Told : h \in Seq(Events) /\ \A k \in DOMAIN h : Marked(h[k])

(* The ids whose call, or reply, has not been through the hook.            *)
Coming(field) == IF field = "id" THEN {c.id : c \in inCall} ELSE unanswered

(* No two events carry one id, and none an id that is still to come.       *)
CarriedOnce(field, last, coming, stamps, told) ==
  /\ \A s \in stamps : s[field] # 0 =>
       /\ s[field] <= last /\ s[field] \notin coming
       /\ \A t \in stamps : t[field] = s[field] => t = s
  /\ \A h \in told : \A k \in DOMAIN h : h[k][field] # 0 =>
       /\ h[k][field] <= last /\ h[k][field] \notin coming
       /\ \A s \in stamps : s[field] # h[k][field]
       /\ \A j \in DOMAIN h : h[j][field] = h[k][field] => j = k

Once(field) == CarriedOnce(field, issued, Coming(field), stamped, Told)

IdsInv ==
  /\ BinderOk
  /\ \A c, d \in inCall : c.id = d.id => c = d
  /\ Once("id") /\ Once("to")

-----------------------------------------------------------------------------
(* What the stores keep.                                                   *)

(* Event k of a history is a transaction that goes by key x.               *)
Names(h, k, x) == k \in DOMAIN h /\ h[k].dir # "reply" /\ Key(h[k]) = x
Replies(h, n, x) == n \in DOMAIN h /\ h[n].dir = "reply" /\ h[n].to = x

SummaryOf(e) == [name |-> NameOf(e.iface), at |-> e.at]

(* The summaries are those of the last transactions of their keys.         *)
SummariesOf(h, sums) ==
  /\ \A k \in DOMAIN h : h[k].dir # "reply" => Key(h[k]) \in DOMAIN sums
  /\ \A x \in DOMAIN sums : \E k \in DOMAIN h :
       /\ Names(h, k, x) /\ sums[x] = SummaryOf(h[k])
       /\ \A j \in DOMAIN h : Names(h, j, x) => j <= k

(* The latencies are those of the last replies that came after a           *)
(* transaction of that key, and count from the last one before them.       *)
LatenciesOf(h, lats) ==
  /\ \A m, n \in DOMAIN h : m < n /\ h[n].dir = "reply" /\ Names(h, m, h[n].to) => h[n].to \in DOMAIN lats
  /\ \A x \in DOMAIN lats : \E m, n \in DOMAIN h :
       /\ m < n /\ Names(h, m, x) /\ Replies(h, n, x)
       /\ lats[x] = Max({0, h[n].at - h[m].at})
       /\ \A j \in DOMAIN h : Names(h, j, x) /\ j < n => j <= m
       /\ \A j \in DOMAIN h : Replies(h, j, x) => j <= n

StoreInv(s) ==
  /\ {"history", "summaries", "latencies"} \subseteq DOMAIN s
  /\ SummariesOf(s.history, s.summaries)
  /\ LatenciesOf(s.history, s.latencies)

(* The TUI keeps the calls with an id.                                     *)
TuiInv ==
  /\ \A k \in DOMAIN tui.history : tui.history[k].id # 0 => tui.history[k].id \in DOMAIN tui.summaries
  /\ \A x \in DOMAIN tui.summaries : \E k \in DOMAIN tui.history :
       /\ x # 0 /\ tui.history[k].id = x
       /\ tui.summaries[x] = SummaryOf(tui.history[k])

(* Every history is in the order of the numbers, whatever was lost of it.  *)
Ordered(told, last) ==
  \A h \in told : \A k \in DOMAIN h :
    h[k].seq <= last /\ \A j \in DOMAIN h : j < k => h[j].seq < h[k].seq

(* What the MCP server counts and finds its events by.                     *)
McpInv ==
  /\ DOMAIN mcp = DOMAIN Mcp!New
  /\ DOMAIN mcp.index = {mcp.history[k].seq : k \in DOMAIN mcp.history}
  /\ \A k \in DOMAIN mcp.history : mcp.index[mcp.history[k].seq] = k - 1
  /\ mcp.lost = LostIn(mcp.history)
  /\ IF mcp.history = <<>> THEN mcp.oldest = None /\ mcp.newest = None
     ELSE mcp.oldest = Head(mcp.history).seq /\ mcp.newest = Last(mcp.history).seq

RowsInv ==
  /\ IdsInv /\ Ordered(Told, emitted)
  /\ StoreInv(mcp) /\ StoreInv(webui) /\ TuiInv /\ McpInv

-----------------------------------------------------------------------------
(* Induction by sets: Nat is well-founded.                                 *)
LEMMA SetInduction ==
  ASSUME NEW T \in SUBSET Nat, 0 \in T, \A n \in T : n + 1 \in T
  PROVE  \A n \in Nat : n \in T
<1> SUFFICES ASSUME Nat \ T # {} PROVE FALSE
  OBVIOUS
<1> DEFINE R == OpToRel(<, Nat)
<1>1. IsWellFoundedOn(R, Nat)
  BY NatLessThanWellFounded
<1>2. \A x, y \in Nat : x < y => <<x, y>> \in R
  BY DEF OpToRel
<1> HIDE DEF R
<1>3. PICK m \in Nat \ T : \A y \in Nat \ T : ~(<<y, m>> \in R)
  BY <1>1, WFMin
<1>4. m # 0 /\ m - 1 \in Nat /\ m - 1 < m
  BY <1>3
<1>5. m - 1 \in T
  <2>1. <<m - 1, m>> \in R
    BY <1>2, <1>4
  <2> QED
    BY <1>3, <1>4, <2>1
<1> QED
  BY <1>3, <1>4, <1>5

(* The events lost of a history, event by event.                           *)
LossAt(f, h, n) == IF n = 0 THEN 0 ELSE f[n - 1] + h[n].lost
IsLoss(f, h, m) == f = [n \in 0 .. m |-> LossAt(f, h, n)]

LEMMA LossExists == \A h : \A m \in Nat : \E f : IsLoss(f, h, m)
<1> SUFFICES ASSUME NEW h PROVE \A m \in Nat : \E f : IsLoss(f, h, m)
  OBVIOUS
<1> DEFINE T == {m \in Nat : \E f : IsLoss(f, h, m)}
<1>1. 0 \in T
  <2>1. IsLoss([n \in 0 .. 0 |-> 0], h, 0)
    BY DEF IsLoss, LossAt
  <2> QED
    BY <2>1
<1>2. ASSUME NEW m \in T PROVE m + 1 \in T
  <2>1. PICK f : IsLoss(f, h, m)
    BY <1>2
  <2> DEFINE g == [n \in 0 .. m + 1 |-> IF n = m + 1 THEN LossAt(f, h, n) ELSE f[n]]
  <2>2. ASSUME NEW n \in 0 .. m + 1 PROVE g[n] = LossAt(g, h, n)
    <3>1. CASE n = 0
      BY <2>1, <3>1 DEF IsLoss, LossAt
    <3>2. CASE n # 0
      <4>1. g[n - 1] = f[n - 1]
        BY <3>2
      <4>2. LossAt(g, h, n) = LossAt(f, h, n)
        BY <4>1 DEF LossAt
      <4>3. n # m + 1 => f[n] = LossAt(f, h, n)
        BY <2>1 DEF IsLoss
      <4> QED
        BY <4>2, <4>3
    <3> QED
      BY <3>1, <3>2
  <2>3. IsLoss(g, h, m + 1)
    BY <2>2 DEF IsLoss
  <2> HIDE DEF g
  <2> QED
    BY <2>3
<1> HIDE DEF T
<1>3. \A m \in Nat : m \in T
  BY <1>1, <1>2, SetInduction DEF T
<1> QED
  BY <1>3 DEF T

(* The first events of two histories that agree on them lost the same.     *)
LEMMA SameLoss ==
  ASSUME NEW m \in Nat, NEW f, NEW g, NEW h, NEW l, NEW p \in Nat, p <= m,
         IsLoss(f, h, p), IsLoss(g, l, m), \A n \in 1 .. p : l[n] = h[n]
  PROVE  f[p] = g[p]
<1> DEFINE T == {n \in Nat : n <= p => f[n] = g[n]}
<1>1. 0 \in T
  BY DEF IsLoss, LossAt
<1>2. ASSUME NEW n \in T PROVE n + 1 \in T
  <2> SUFFICES ASSUME n + 1 <= p PROVE f[n + 1] = g[n + 1]
    OBVIOUS
  <2>1. n \in Nat /\ f[n] = g[n] /\ h[n + 1] = l[n + 1] /\ n + 1 # 0 /\ (n + 1) - 1 = n
    BY <1>2
  <2>2. n + 1 \in 0 .. p /\ n + 1 \in 0 .. m
    BY <2>1
  <2>3. f[n + 1] = LossAt(f, h, n + 1) /\ g[n + 1] = LossAt(g, l, n + 1)
    BY <2>2 DEF IsLoss
  <2> QED
    BY <2>1, <2>3 DEF LossAt
<1> HIDE DEF T
<1>3. p \in T
  BY <1>1, <1>2, SetInduction DEF T
<1> QED
  BY <1>3 DEF T

LEMMA LossOf ==
  ASSUME NEW h, Len(h) \in Nat
  PROVE  \E f : IsLoss(f, h, Len(h)) /\ LostIn(h) = f[Len(h)]
<1> DEFINE f == CHOOSE g : IsLoss(g, h, Len(h))
<1>1. IsLoss(f, h, Len(h))
  BY LossExists
<1>2. LostIn(h) = f[Len(h)]
  BY DEF LostIn, IsLoss, LossAt
<1> QED
  BY <1>1, <1>2

LEMMA LossGrows ==
  ASSUME NEW h \in Seq(Events), NEW e \in Events
  PROVE  LostIn(<<>>) = 0 /\ LostIn(Append(h, e)) = LostIn(h) + e.lost
<1> DEFINE g == Append(h, e)
           m == Len(h)
<1>1. m \in Nat /\ Len(g) = m + 1 /\ g[m + 1] = e /\ \A n \in 1 .. m : g[n] = h[n]
  OBVIOUS
<1>2. LostIn(<<>>) = 0
  <2>1. Len(<<>>) = 0
    OBVIOUS
  <2>2. PICK f : IsLoss(f, <<>>, 0) /\ LostIn(<<>>) = f[0]
    BY <2>1, LossOf
  <2> QED
    BY <2>2 DEF IsLoss, LossAt
<1> HIDE DEF g, m
<1>3. PICK a : IsLoss(a, h, m) /\ LostIn(h) = a[m]
  BY <1>1, LossOf DEF m
<1>4. PICK b : IsLoss(b, g, m + 1) /\ LostIn(g) = b[m + 1]
  BY <1>1, LossOf
<1>5. b[m + 1] = b[m] + e.lost
  <2>1. b[m + 1] = LossAt(b, g, m + 1)
    BY <1>1, <1>4 DEF IsLoss
  <2> QED
    BY <1>1, <2>1 DEF LossAt
<1>6. a[m] = b[m]
  BY <1>1, <1>3, <1>4, SameLoss
<1> QED
  BY <1>2, <1>3, <1>4, <1>5, <1>6 DEF g

-----------------------------------------------------------------------------
(* What an event adds to a history changes what is kept accordingly.       *)

LEMMA Appended ==
  ASSUME NEW h \in Seq(Events), NEW e \in Events
  PROVE  /\ Append(h, e) \in Seq(Events) /\ Len(h) \in Nat
         /\ DOMAIN h = 1 .. Len(h) /\ DOMAIN Append(h, e) = 1 .. Len(h) + 1
         /\ \A k \in DOMAIN h : Append(h, e)[k] = h[k]
         /\ Append(h, e)[Len(h) + 1] = e
OBVIOUS

LEMMA TransactionNoted ==
  ASSUME NEW h \in Seq(Events), NEW e \in Events, e.dir # "reply",
         NEW sums, SummariesOf(h, sums)
  PROVE  SummariesOf(Append(h, e), Put(sums, Key(e), SummaryOf(e)))
<1> DEFINE g == Append(h, e)
           new == Put(sums, Key(e), SummaryOf(e))
           last == Len(h) + 1
<1>1. /\ Len(h) \in Nat /\ DOMAIN h = 1 .. Len(h) /\ DOMAIN g = 1 .. last
      /\ (\A k \in DOMAIN h : g[k] = h[k]) /\ g[last] = e
  BY Appended
<1>2. /\ DOMAIN new = DOMAIN sums \cup {Key(e)} /\ new[Key(e)] = SummaryOf(e)
      /\ \A y \in DOMAIN sums : y # Key(e) => new[y] = sums[y]
  BY DEF Put
<1> HIDE DEF g, new
<1>3. ASSUME NEW k \in DOMAIN g, g[k].dir # "reply" PROVE Key(g[k]) \in DOMAIN new
  <2>1. CASE k = last
    BY <1>1, <1>2, <2>1
  <2>2. CASE k # last
    BY <1>1, <1>2, <1>3, <2>2 DEF SummariesOf
  <2> QED
    BY <2>1, <2>2
<1>4. ASSUME NEW x \in DOMAIN new
      PROVE  \E k \in DOMAIN g : /\ Names(g, k, x) /\ new[x] = SummaryOf(g[k])
                                 /\ \A j \in DOMAIN g : Names(g, j, x) => j <= k
  <2>1. CASE x = Key(e)
    <3>1. Names(g, last, x) /\ new[x] = SummaryOf(g[last])
      BY <1>1, <1>2, <2>1 DEF Names
    <3> QED
      BY <1>1, <3>1
  <2>2. CASE x # Key(e)
    <3>1. x \in DOMAIN sums /\ new[x] = sums[x]
      BY <1>2, <2>2
    <3>2. PICK k \in DOMAIN h : /\ Names(h, k, x) /\ sums[x] = SummaryOf(h[k])
                                /\ \A j \in DOMAIN h : Names(h, j, x) => j <= k
      BY <3>1 DEF SummariesOf
    <3>3. k \in DOMAIN g /\ Names(g, k, x) /\ new[x] = SummaryOf(g[k])
      BY <1>1, <3>1, <3>2 DEF Names
    <3>4. \A j \in DOMAIN g : Names(g, j, x) => j \in DOMAIN h /\ Names(h, j, x)
      BY <1>1, <2>2 DEF Names
    <3> QED
      BY <3>2, <3>3, <3>4
  <2> QED
    BY <2>1, <2>2
<1> QED
  BY <1>3, <1>4 DEF SummariesOf, g, new

LEMMA ReplyLeavesSummaries ==
  ASSUME NEW h \in Seq(Events), NEW e \in Events, e.dir = "reply",
         NEW sums, SummariesOf(h, sums)
  PROVE  SummariesOf(Append(h, e), sums)
<1> DEFINE g == Append(h, e)
<1>1. /\ Len(h) \in Nat /\ DOMAIN h = 1 .. Len(h) /\ DOMAIN g = 1 .. Len(h) + 1
      /\ (\A k \in DOMAIN h : g[k] = h[k]) /\ g[Len(h) + 1] = e
  BY Appended
<1> HIDE DEF g
<1>2. \A k \in DOMAIN g : g[k].dir # "reply" => k \in DOMAIN h /\ g[k] = h[k]
  BY <1>1
<1>3. \A k, x : Names(g, k, x) <=> Names(h, k, x)
  BY <1>1, <1>2 DEF Names
<1>4. ASSUME NEW x \in DOMAIN sums
      PROVE  \E k \in DOMAIN g : /\ Names(g, k, x) /\ sums[x] = SummaryOf(g[k])
                                 /\ \A j \in DOMAIN g : Names(g, j, x) => j <= k
  <2>1. PICK k \in DOMAIN h : /\ Names(h, k, x) /\ sums[x] = SummaryOf(h[k])
                              /\ \A j \in DOMAIN h : Names(h, j, x) => j <= k
    BY DEF SummariesOf
  <2>2. k \in DOMAIN g /\ g[k] = h[k]
    BY <1>1
  <2>3. \A j \in DOMAIN g : Names(g, j, x) => j <= k
    BY <1>3, <2>1 DEF Names
  <2> QED
    BY <1>3, <2>1, <2>2, <2>3
<1>5. \A k \in DOMAIN g : g[k].dir # "reply" => Key(g[k]) \in DOMAIN sums
  BY <1>2 DEF SummariesOf
<1> QED
  BY <1>4, <1>5 DEF SummariesOf, g

LEMMA TransactionLeavesLatencies ==
  ASSUME NEW h \in Seq(Events), NEW e \in Events, e.dir # "reply",
         NEW lats, LatenciesOf(h, lats)
  PROVE  LatenciesOf(Append(h, e), lats)
<1> DEFINE g == Append(h, e)
<1>1. /\ Len(h) \in Nat /\ DOMAIN h = 1 .. Len(h) /\ DOMAIN g = 1 .. Len(h) + 1
      /\ (\A k \in DOMAIN h : g[k] = h[k]) /\ g[Len(h) + 1] = e
  BY Appended
<1> HIDE DEF g
<1>2. \A n, x : Replies(g, n, x) <=> Replies(h, n, x)
  BY <1>1 DEF Replies
<1>3. \A k \in DOMAIN h : \A x : Names(g, k, x) <=> Names(h, k, x)
  BY <1>1 DEF Names
<1>4. ASSUME NEW m \in DOMAIN g, NEW n \in DOMAIN g,
             m < n, g[n].dir = "reply", Names(g, m, g[n].to)
      PROVE  g[n].to \in DOMAIN lats
  <2>1. n \in DOMAIN h /\ g[n] = h[n]
    BY <1>1, <1>4
  <2>2. m \in DOMAIN h
    BY <1>1, <1>4, <2>1
  <2> QED
    BY <1>3, <1>4, <2>1, <2>2 DEF LatenciesOf
<1>5. ASSUME NEW x \in DOMAIN lats
      PROVE  \E m, n \in DOMAIN g :
               /\ m < n /\ Names(g, m, x) /\ Replies(g, n, x)
               /\ lats[x] = Max({0, g[n].at - g[m].at})
               /\ \A j \in DOMAIN g : Names(g, j, x) /\ j < n => j <= m
               /\ \A j \in DOMAIN g : Replies(g, j, x) => j <= n
  <2>1. PICK m \in DOMAIN h, n \in DOMAIN h :
               /\ m < n /\ Names(h, m, x) /\ Replies(h, n, x)
               /\ lats[x] = Max({0, h[n].at - h[m].at})
               /\ \A j \in DOMAIN h : Names(h, j, x) /\ j < n => j <= m
               /\ \A j \in DOMAIN h : Replies(h, j, x) => j <= n
    BY DEF LatenciesOf
  <2>2. m \in DOMAIN g /\ n \in DOMAIN g /\ g[m] = h[m] /\ g[n] = h[n]
    BY <1>1
  <2>3. Names(g, m, x) /\ Replies(g, n, x)
    BY <1>2, <1>3, <2>1
  <2>4. \A j \in DOMAIN g : Names(g, j, x) /\ j < n => j <= m
    BY <1>1, <1>3, <2>1
  <2>5. \A j \in DOMAIN g : Replies(g, j, x) => j <= n
    BY <1>2, <2>1 DEF Replies
  <2> QED
    BY <2>1, <2>2, <2>3, <2>4, <2>5
<1> QED
  BY <1>4, <1>5 DEF LatenciesOf, g

(* A reply to a transaction the summaries know.                            *)
LEMMA AnswerNoted ==
  ASSUME NEW h \in Seq(Events), NEW e \in Events, e.dir = "reply",
         NEW sums, SummariesOf(h, sums), e.to \in DOMAIN sums,
         NEW lats, LatenciesOf(h, lats)
  PROVE  LatenciesOf(Append(h, e), Put(lats, e.to, Max({0, e.at - sums[e.to].at})))
<1> DEFINE g == Append(h, e)
           last == Len(h) + 1
           new == Put(lats, e.to, Max({0, e.at - sums[e.to].at}))
<1>1. /\ Len(h) \in Nat /\ DOMAIN h = 1 .. Len(h) /\ DOMAIN g = 1 .. last
      /\ (\A k \in DOMAIN h : g[k] = h[k]) /\ g[last] = e
  BY Appended
<1>2. /\ DOMAIN new = DOMAIN lats \cup {e.to} /\ new[e.to] = Max({0, e.at - sums[e.to].at})
      /\ \A y \in DOMAIN lats : y # e.to => new[y] = lats[y]
  BY DEF Put
<1> HIDE DEF g, new
<1>3. \A k, x : Names(g, k, x) <=> Names(h, k, x)
  BY <1>1 DEF Names
<1>4. \A k \in DOMAIN h : \A x : Replies(g, k, x) <=> Replies(h, k, x)
  BY <1>1 DEF Replies
<1>5. ASSUME NEW m \in DOMAIN g, NEW n \in DOMAIN g,
             m < n, g[n].dir = "reply", Names(g, m, g[n].to)
      PROVE  g[n].to \in DOMAIN new
  <2>1. CASE n = last
    BY <1>1, <1>2, <2>1
  <2>2. CASE n # last
    <3>1. n \in DOMAIN h /\ m \in DOMAIN h /\ g[n] = h[n]
      BY <1>1, <1>5, <2>2
    <3> QED
      BY <1>2, <1>3, <1>5, <3>1 DEF LatenciesOf
  <2> QED
    BY <2>1, <2>2
<1>6. ASSUME NEW x \in DOMAIN new
      PROVE  \E m, n \in DOMAIN g :
               /\ m < n /\ Names(g, m, x) /\ Replies(g, n, x)
               /\ new[x] = Max({0, g[n].at - g[m].at})
               /\ \A j \in DOMAIN g : Names(g, j, x) /\ j < n => j <= m
               /\ \A j \in DOMAIN g : Replies(g, j, x) => j <= n
  <2>1. CASE x = e.to
    <3>1. PICK m \in DOMAIN h : /\ Names(h, m, x) /\ sums[x] = SummaryOf(h[m])
                                /\ \A j \in DOMAIN h : Names(h, j, x) => j <= m
      BY <2>1 DEF SummariesOf
    <3>2. m \in DOMAIN g /\ last \in DOMAIN g /\ m < last /\ g[m] = h[m]
      BY <1>1, <3>1
    <3>3. Names(g, m, x) /\ Replies(g, last, x)
      BY <1>1, <1>3, <2>1, <3>1, <3>2 DEF Replies
    <3>4. new[x] = Max({0, g[last].at - g[m].at})
      BY <1>1, <1>2, <2>1, <3>1, <3>2 DEF SummaryOf
    <3>5. \A j \in DOMAIN g : Names(g, j, x) /\ j < last => j <= m
      BY <1>3, <3>1 DEF Names
    <3>6. \A j \in DOMAIN g : Replies(g, j, x) => j <= last
      BY <1>1
    <3> QED
      BY <3>2, <3>3, <3>4, <3>5, <3>6
  <2>2. CASE x # e.to
    <3>1. x \in DOMAIN lats /\ new[x] = lats[x]
      BY <1>2, <2>2
    <3>2. PICK m \in DOMAIN h, n \in DOMAIN h :
               /\ m < n /\ Names(h, m, x) /\ Replies(h, n, x)
               /\ lats[x] = Max({0, h[n].at - h[m].at})
               /\ \A j \in DOMAIN h : Names(h, j, x) /\ j < n => j <= m
               /\ \A j \in DOMAIN h : Replies(h, j, x) => j <= n
      BY <3>1 DEF LatenciesOf
    <3>3. m \in DOMAIN g /\ n \in DOMAIN g /\ g[m] = h[m] /\ g[n] = h[n]
      BY <1>1
    <3>4. Names(g, m, x) /\ Replies(g, n, x)
      BY <1>3, <1>4, <3>2
    <3>5. \A j \in DOMAIN g : Names(g, j, x) /\ j < n => j <= m
      BY <1>3, <3>2 DEF Names
    <3>6. \A j \in DOMAIN g : Replies(g, j, x) => j \in DOMAIN h
      BY <1>1, <2>2 DEF Replies
    <3>7. \A j \in DOMAIN g : Replies(g, j, x) => j <= n
      BY <1>4, <3>2, <3>6
    <3> QED
      BY <3>1, <3>2, <3>3, <3>4, <3>5, <3>7
  <2> QED
    BY <2>1, <2>2
<1> QED
  BY <1>5, <1>6 DEF LatenciesOf, g, new

(* A reply to a transaction they do not know: there is none.               *)
LEMMA StrayReplyLeavesLatencies ==
  ASSUME NEW h \in Seq(Events), NEW e \in Events, e.dir = "reply",
         NEW sums, SummariesOf(h, sums), e.to \notin DOMAIN sums,
         NEW lats, LatenciesOf(h, lats)
  PROVE  LatenciesOf(Append(h, e), lats)
<1> DEFINE g == Append(h, e)
           last == Len(h) + 1
<1>1. /\ Len(h) \in Nat /\ DOMAIN h = 1 .. Len(h) /\ DOMAIN g = 1 .. last
      /\ (\A k \in DOMAIN h : g[k] = h[k]) /\ g[last] = e
  BY Appended
<1> HIDE DEF g
<1>2. \A k, x : Names(g, k, x) <=> Names(h, k, x)
  BY <1>1 DEF Names
<1>3. \A k : ~Names(h, k, e.to)
  BY DEF SummariesOf, Names
<1>4. \A k \in DOMAIN h : \A x : Replies(g, k, x) <=> Replies(h, k, x)
  BY <1>1 DEF Replies
<1>5. ASSUME NEW m \in DOMAIN g, NEW n \in DOMAIN g,
             m < n, g[n].dir = "reply", Names(g, m, g[n].to)
      PROVE  g[n].to \in DOMAIN lats
  <2>1. n # last
    BY <1>1, <1>2, <1>3, <1>5
  <2>2. n \in DOMAIN h /\ m \in DOMAIN h /\ g[n] = h[n]
    BY <1>1, <1>5, <2>1
  <2> QED
    BY <1>2, <1>5, <2>2 DEF LatenciesOf
<1>6. ASSUME NEW x \in DOMAIN lats
      PROVE  \E m, n \in DOMAIN g :
               /\ m < n /\ Names(g, m, x) /\ Replies(g, n, x)
               /\ lats[x] = Max({0, g[n].at - g[m].at})
               /\ \A j \in DOMAIN g : Names(g, j, x) /\ j < n => j <= m
               /\ \A j \in DOMAIN g : Replies(g, j, x) => j <= n
  <2>1. PICK m \in DOMAIN h, n \in DOMAIN h :
             /\ m < n /\ Names(h, m, x) /\ Replies(h, n, x)
             /\ lats[x] = Max({0, h[n].at - h[m].at})
             /\ \A j \in DOMAIN h : Names(h, j, x) /\ j < n => j <= m
             /\ \A j \in DOMAIN h : Replies(h, j, x) => j <= n
    BY DEF LatenciesOf
  <2>2. x # e.to
    BY <1>3, <2>1
  <2>3. m \in DOMAIN g /\ n \in DOMAIN g /\ g[m] = h[m] /\ g[n] = h[n]
    BY <1>1
  <2>4. Names(g, m, x) /\ Replies(g, n, x)
    BY <1>2, <1>4, <2>1
  <2>5. \A j \in DOMAIN g : Names(g, j, x) /\ j < n => j <= m
    BY <1>2, <2>1 DEF Names
  <2>6. \A j \in DOMAIN g : Replies(g, j, x) => j \in DOMAIN h
    BY <1>1, <2>2 DEF Replies
  <2>7. \A j \in DOMAIN g : Replies(g, j, x) => j <= n
    BY <1>4, <2>1, <2>6
  <2> QED
    BY <2>1, <2>3, <2>4, <2>5, <2>7
<1> QED
  BY <1>5, <1>6 DEF LatenciesOf, g

-----------------------------------------------------------------------------
(* The two stores take an event alike.                                     *)

LEMMA MaxOfZero ==
  ASSUME NEW a \in Int
  PROVE  Max({0, a}) = IF a > 0 THEN a ELSE 0
<1>1. \A x \in {0, a} : x = (IF a > 0 THEN a ELSE 0) <=> \A y \in {0, a} : x >= y
  OBVIOUS
<1> QED
  BY <1>1 DEF Max

(* Both know an event and what a reply answers by the same definitions.    *)
LEMMA SameRows ==
  /\ \A e : Mcp!Key(e) = Key(e) /\ Webui!Key(e) = Key(e)
  /\ \A i : Mcp!NameOf(i) = NameOf(i) /\ Webui!NameOf(i) = NameOf(i)
  /\ \A f, k, v : Mcp!Put(f, k, v) = Put(f, k, v) /\ Webui!Put(f, k, v) = Put(f, k, v)
  /\ \A f, k, v : Mcp!Get(f, k, v) = Get(f, k, v) /\ Webui!Get(f, k, v) = Get(f, k, v)
  /\ Mcp!None = None /\ Webui!None = None
  /\ Mcp!EmptyMap = EmptyMap /\ Webui!EmptyMap = EmptyMap
  /\ \A s, e : /\ Mcp!ReplyLatency(s, e) = ReplyLatency(s, e)
               /\ Webui!ReplyLatency(s, e) = ReplyLatency(s, e)
               /\ Mcp!ReplyName(s, e) = ReplyName(s, e)
               /\ Webui!ReplyName(s, e) = ReplyName(s, e)
<1>1. \A e : Mcp!Key(e) = Key(e) /\ Webui!Key(e) = Key(e)
  BY DEF Key, Mcp!Key, Webui!Key
<1>2. \A i : Mcp!NameOf(i) = NameOf(i) /\ Webui!NameOf(i) = NameOf(i)
  BY DEF NameOf, Mcp!NameOf, Webui!NameOf
<1>3. \A f, k, v : Mcp!Put(f, k, v) = Put(f, k, v) /\ Webui!Put(f, k, v) = Put(f, k, v)
  BY DEF Put, Mcp!Put, Webui!Put
<1>4. \A f, k, v : Mcp!Get(f, k, v) = Get(f, k, v) /\ Webui!Get(f, k, v) = Get(f, k, v)
  BY DEF Get, Mcp!Get, Webui!Get
<1>5. Mcp!None = None /\ Webui!None = None
  BY DEF None, Mcp!None, Webui!None
<1>6. Mcp!EmptyMap = EmptyMap /\ Webui!EmptyMap = EmptyMap
  BY <1>5 DEF EmptyMap, Mcp!EmptyMap, Webui!EmptyMap
<1>7. \A S : Mcp!Max(S) = Max(S) /\ Webui!Max(S) = Max(S)
  BY DEF Max, Mcp!Max, Webui!Max
<1>8. \A s, e : Mcp!ReplyLatency(s, e) = ReplyLatency(s, e) /\ Webui!ReplyLatency(s, e) = ReplyLatency(s, e)
  BY <1>5, <1>7 DEF ReplyLatency, Known, Mcp!ReplyLatency, Mcp!Known, Webui!ReplyLatency, Webui!Known
<1>9. \A s, e : Mcp!ReplyName(s, e) = ReplyName(s, e) /\ Webui!ReplyName(s, e) = ReplyName(s, e)
  BY DEF ReplyName, Known, ReplyTo, Mcp!ReplyName, Mcp!Known, Mcp!ReplyTo,
         Webui!ReplyName, Webui!Known, Webui!ReplyTo
<1> QED
  BY <1>1, <1>2, <1>3, <1>4, <1>5, <1>6, <1>8, <1>9

(* What both do with their summaries and latencies.                        *)
Takes(s, e, t) ==
  /\ {"history", "summaries", "latencies"} \subseteq DOMAIN t
  /\ t.history = Append(s.history, e)
  /\ t.summaries = IF e.dir # "reply" THEN Put(s.summaries, Key(e), SummaryOf(e)) ELSE s.summaries
  /\ t.latencies = IF e.dir = "reply" /\ ReplyLatency(s, e) # None
                   THEN Put(s.latencies, e.to, ReplyLatency(s, e)) ELSE s.latencies

LEMMA StoresTake ==
  ASSUME NEW s, {"history", "summaries", "latencies"} \subseteq DOMAIN s, NEW e
  PROVE  Takes(s, e, Mcp!Push(s, e)) /\ Takes(s, e, Webui!Push(s, e))
<1>1. ASSUME NEW stored, DOMAIN stored = DOMAIN s,
             stored.history = Append(s.history, e),
             stored.summaries = s.summaries, stored.latencies = s.latencies,
             NEW t,
             t = CASE e.dir # "reply" ->
                        [stored EXCEPT !.summaries = Put(@, Key(e), SummaryOf(e))]
                   [] e.dir = "reply" /\ ReplyLatency(s, e) # None ->
                        [stored EXCEPT !.latencies = Put(@, e.to, ReplyLatency(s, e))]
                   [] OTHER -> stored
      PROVE  Takes(s, e, t)
  BY <1>1 DEF Takes
<1>2. Takes(s, e, Mcp!Push(s, e))
  <2> DEFINE stored == [s EXCEPT !.history = Append(@, e),
                                 !.index   = Mcp!Put(@, e.seq, Len(s.history)),
                                 !.lost    = @ + e.lost,
                                 !.oldest  = IF @ = Mcp!None THEN e.seq ELSE @,
                                 !.newest  = e.seq]
  <2>1. /\ DOMAIN stored = DOMAIN s /\ stored.history = Append(s.history, e)
        /\ stored.summaries = s.summaries /\ stored.latencies = s.latencies
    OBVIOUS
  <2>2. Mcp!Push(s, e) =
          CASE e.dir # "reply" ->
                 [stored EXCEPT !.summaries = Put(@, Key(e), SummaryOf(e))]
            [] e.dir = "reply" /\ ReplyLatency(s, e) # None ->
                 [stored EXCEPT !.latencies = Put(@, e.to, ReplyLatency(s, e))]
            [] OTHER -> stored
    BY SameRows DEF Mcp!Push, SummaryOf
  <2> HIDE DEF stored
  <2> QED
    BY <1>1, <2>1, <2>2
<1>3. Takes(s, e, Webui!Push(s, e))
  <2> DEFINE stored == [s EXCEPT !.history = Append(@, e), !.lost = @ + e.lost]
  <2>1. /\ DOMAIN stored = DOMAIN s /\ stored.history = Append(s.history, e)
        /\ stored.summaries = s.summaries /\ stored.latencies = s.latencies
    OBVIOUS
  <2>2. Webui!Push(s, e) = Webui!Observe(stored, e)
    BY DEF Webui!Push
  <2> HIDE DEF stored
  <2>3. ReplyLatency(stored, e) = ReplyLatency(s, e)
    BY <2>1 DEF ReplyLatency, Known
  <2>4. Webui!Push(s, e) =
          CASE e.dir # "reply" ->
                 [stored EXCEPT !.summaries = Put(@, Key(e), SummaryOf(e))]
            [] e.dir = "reply" /\ ReplyLatency(s, e) # None ->
                 [stored EXCEPT !.latencies = Put(@, e.to, ReplyLatency(s, e))]
            [] OTHER -> stored
    BY <2>2, <2>3, SameRows DEF Webui!Observe, SummaryOf
  <2> QED
    BY <1>1, <2>1, <2>4
<1> QED
  BY <1>2, <1>3

LEMMA TakenIsSound ==
  ASSUME NEW s, StoreInv(s), s.history \in Seq(Events), NEW e \in Events, NEW t, Takes(s, e, t)
  PROVE  StoreInv(t)
<1>1. SummariesOf(s.history, s.summaries) /\ LatenciesOf(s.history, s.latencies)
  BY DEF StoreInv
<1>2. CASE e.dir # "reply"
  BY <1>1, <1>2, TransactionNoted, TransactionLeavesLatencies DEF StoreInv, Takes
<1>3. CASE e.dir = "reply" /\ e.to \in DOMAIN s.summaries
  <2> DEFINE age == e.at - s.summaries[e.to].at
  <2>1. PICK k \in DOMAIN s.history : s.summaries[e.to] = SummaryOf(s.history[k])
    BY <1>1, <1>3 DEF SummariesOf
  <2>2. s.history[k] \in Events
    BY <2>1
  <2>3. age \in Int
    BY <2>1, <2>2 DEF Events, SummaryOf
  <2>4. ReplyLatency(s, e) = Max({0, age}) /\ ReplyLatency(s, e) # None
    BY <1>3, <2>3, MaxOfZero DEF ReplyLatency, Known, None
  <2>5. t.latencies = Put(s.latencies, e.to, Max({0, age})) /\ t.summaries = s.summaries
    BY <1>3, <2>4 DEF Takes
  <2>6. LatenciesOf(t.history, t.latencies)
    BY <1>1, <1>3, <2>5, AnswerNoted DEF Takes
  <2>7. SummariesOf(t.history, t.summaries)
    BY <1>1, <1>3, <2>5, ReplyLeavesSummaries DEF Takes
  <2> QED
    BY <2>6, <2>7 DEF StoreInv, Takes
<1>4. CASE e.dir = "reply" /\ e.to \notin DOMAIN s.summaries
  <2>1. t.latencies = s.latencies /\ t.summaries = s.summaries
    BY <1>4 DEF Takes, ReplyLatency, Known
  <2>2. LatenciesOf(t.history, t.latencies)
    BY <1>1, <1>4, <2>1, StrayReplyLeavesLatencies DEF Takes
  <2>3. SummariesOf(t.history, t.summaries)
    BY <1>1, <1>4, <2>1, ReplyLeavesSummaries DEF Takes
  <2> QED
    BY <2>2, <2>3 DEF StoreInv, Takes
<1> QED
  BY <1>2, <1>3, <1>4

LEMMA NewIsSound == StoreInv(Mcp!New) /\ StoreInv(Webui!New)
<1>1. ASSUME NEW s, s.history = <<>>, s.summaries = EmptyMap, s.latencies = EmptyMap,
             {"history", "summaries", "latencies"} \subseteq DOMAIN s
      PROVE  StoreInv(s)
  <2>1. DOMAIN s.history = {} /\ DOMAIN s.summaries = {} /\ DOMAIN s.latencies = {}
    BY <1>1 DEF EmptyMap
  <2> QED
    BY <1>1, <2>1 DEF StoreInv, SummariesOf, LatenciesOf
<1>2. Mcp!New.history = <<>> /\ Mcp!New.summaries = EmptyMap /\ Mcp!New.latencies = EmptyMap
      /\ {"history", "summaries", "latencies"} \subseteq DOMAIN Mcp!New
  BY SameRows DEF Mcp!New
<1>3. Webui!New.history = <<>> /\ Webui!New.summaries = EmptyMap /\ Webui!New.latencies = EmptyMap
      /\ {"history", "summaries", "latencies"} \subseteq DOMAIN Webui!New
  BY SameRows DEF Webui!New
<1> QED
  BY <1>1, <1>2, <1>3

-----------------------------------------------------------------------------
(* Steps of Binder and the hook.                                           *)

(* Ids are given and read, and no event is stamped.                        *)
LEMMA StillOnce ==
  ASSUME NEW field \in {"id", "to"}, NEW last \in Nat, NEW later \in Nat, later >= last,
         NEW coming, NEW remaining, \A x \in remaining : x \in coming \/ x > last,
         NEW stamps \in SUBSET Stamps, NEW told \in SUBSET Seq(Events),
         CarriedOnce(field, last, coming, stamps, told)
  PROVE  CarriedOnce(field, later, remaining, stamps, told)
<1>1. \A s \in stamps : s[field] \in Nat
  BY DEF Stamps
<1>2. \A h \in told : \A k \in DOMAIN h : h[k][field] \in Nat
  <2> SUFFICES ASSUME NEW h \in told, NEW k \in DOMAIN h PROVE h[k][field] \in Nat
    OBVIOUS
  <2>1. h[k] \in Events
    OBVIOUS
  <2> QED
    BY <2>1 DEF Events
<1>3. \A n \in Nat : n <= last /\ n \notin coming => n <= later /\ n \notin remaining
  OBVIOUS
<1> QED
  BY <1>1, <1>2, <1>3 DEF CarriedOnce

(* A new stamp carries an id that was still to come, or none.              *)
LEMMA StampedOnce ==
  ASSUME NEW field \in {"id", "to"}, NEW last \in Nat, NEW later \in Nat, later >= last,
         NEW coming, NEW remaining, \A x \in remaining : x \in coming \/ x > last,
         NEW stamps \in SUBSET Stamps, NEW told \in SUBSET Seq(Events),
         CarriedOnce(field, last, coming, stamps, told),
         NEW new \in Stamps,
         new[field] # 0 => new[field] \in coming /\ new[field] <= last /\ new[field] \notin remaining
  PROVE  CarriedOnce(field, later, remaining, stamps \cup {new}, told)
<1>1. CarriedOnce(field, later, remaining, stamps, told)
  BY StillOnce
<1>2. new[field] \in Nat
  BY DEF Stamps
<1>3. new[field] # 0 => \A s \in stamps : s[field] # new[field]
  BY DEF CarriedOnce
<1>4. new[field] # 0 => \A h \in told : \A k \in DOMAIN h : h[k][field] # new[field]
  BY DEF CarriedOnce
<1> QED
  BY <1>1, <1>2, <1>3, <1>4 DEF CarriedOnce

(* An event is told with what its stamp carried, or lost; a history is     *)
(* as it was, empty, or longer by this event.                              *)
LEMMA ToldOnce ==
  ASSUME NEW field \in {"id", "to"}, NEW last, NEW coming,
         NEW stamps, NEW told \in SUBSET Seq(Events),
         CarriedOnce(field, last, coming, stamps, told),
         NEW s \in stamps, NEW e \in Events, e[field] = s[field],
         NEW now, \A g \in now : g \in told \/ g = <<>> \/ \E h \in told : g = Append(h, e)
  PROVE  CarriedOnce(field, last, coming, stamps \ {s}, now)
<1>1. ASSUME NEW t \in stamps \ {s}, t[field] # 0
      PROVE  /\ t[field] <= last /\ t[field] \notin coming
             /\ \A u \in stamps \ {s} : u[field] = t[field] => u = t
  BY <1>1 DEF CarriedOnce
<1>2. ASSUME NEW g \in now, NEW k \in DOMAIN g, g[k][field] # 0
      PROVE  /\ g[k][field] <= last /\ g[k][field] \notin coming
             /\ \A t \in stamps \ {s} : t[field] # g[k][field]
             /\ \A j \in DOMAIN g : g[j][field] = g[k][field] => j = k
  <2>1. CASE g \in told
    BY <1>2, <2>1 DEF CarriedOnce
  <2>2. CASE g = <<>>
    BY <1>2, <2>2
  <2>3. CASE \E h \in told : g = Append(h, e)
    <3>1. PICK h \in told : g = Append(h, e)
      BY <2>3
    <3>2. /\ Len(h) \in Nat /\ DOMAIN h = 1 .. Len(h) /\ DOMAIN g = 1 .. Len(h) + 1
          /\ (\A j \in DOMAIN h : g[j] = h[j]) /\ g[Len(h) + 1] = e
      BY <3>1, Appended
    <3>3. \A j \in DOMAIN h : h[j][field] # 0 => h[j][field] # e[field]
      BY DEF CarriedOnce
    <3>4. CASE k = Len(h) + 1
      <4>1. g[k][field] = s[field]
        BY <3>2, <3>4
      <4>2. \A j \in DOMAIN g : g[j][field] = g[k][field] => j = k
        BY <1>2, <3>2, <3>3, <3>4
      <4> QED
        BY <1>2, <4>1, <4>2 DEF CarriedOnce
    <3>5. CASE k # Len(h) + 1
      <4>1. k \in DOMAIN h /\ g[k] = h[k]
        BY <3>2, <3>5
      <4>2. \A j \in DOMAIN g : g[j][field] = g[k][field] => j \in DOMAIN h /\ g[j] = h[j]
        BY <1>2, <3>2, <3>3, <4>1
      <4> QED
        BY <1>2, <4>1, <4>2 DEF CarriedOnce
    <3> QED
      BY <3>4, <3>5
  <2> QED
    BY <2>1, <2>2, <2>3
<1> QED
  BY <1>1, <1>2 DEF CarriedOnce

(* The same without an event: histories are as they were, or empty.        *)
LEMMA ClearedOnce ==
  ASSUME NEW field, NEW last, NEW coming, NEW stamps, NEW told,
         CarriedOnce(field, last, coming, stamps, told),
         NEW now, \A g \in now : g \in told \/ g = <<>>
  PROVE  CarriedOnce(field, last, coming, stamps, now)
BY DEF CarriedOnce

LEMMA NoneTold == <<>> \in Seq(Events) /\ \A k \in DOMAIN <<>> : Marked(<<>>[k])
OBVIOUS

LEMMA ToldIsSeqs == ASSUME BinderOk PROVE Told \in SUBSET Seq(Events)
BY DEF BinderOk

LEMMA IfacesGiven ==
  ASSUME NEW last \in Nat, last < MaxId
  PROVE  IfaceOf[last + 1] \in Nat
<1>1. MaxId \in Nat /\ Ifaces \subseteq Nat /\ IfaceOf \in [1 .. MaxId -> Ifaces]
  BY RowsAssumption
<1>2. last + 1 \in 1 .. MaxId
  BY <1>1
<1> QED
  BY <1>1, <1>2

LEMMA CallBegins ==
  ASSUME IdsInv, NEW traced \in BOOLEAN, BeginCall(traced)
  PROVE  IdsInv'
<1> DEFINE new == [id |-> issued + 1, iface |-> IfaceOf[issued + 1]]
<1>1. /\ issued' = issued + 1 /\ issued < MaxId /\ issued \in Nat
      /\ inCall' = inCall \/ inCall' = inCall \cup {new}
      /\ unanswered' = unanswered \cup {issued + 1}
      /\ stamped' = stamped /\ Told' = Told
      /\ UNCHANGED <<clock, emitted, missed>>
  BY DEF BeginCall, NextId, IdsInv, BinderOk, ringVars, stores, Told
<1>2. IfaceOf[issued + 1] \in Nat
  BY <1>1, IfacesGiven
<1>3. BinderOk'
  <2>1. new \in [id : 1 .. issued', iface : Nat] /\ 1 .. issued \subseteq 1 .. issued'
    BY <1>1, <1>2
  <2>2. inCall' \subseteq [id : 1 .. issued', iface : Nat]
    BY <1>1, <2>1 DEF IdsInv, BinderOk
  <2>3. unanswered' \subseteq 1 .. issued'
    BY <1>1, <2>1 DEF IdsInv, BinderOk
  <2> QED
    BY <1>1, <2>2, <2>3 DEF IdsInv, BinderOk
<1>4. \A c, d \in inCall' : c.id = d.id => c = d
  <2>1. \A c \in inCall : c.id # issued + 1
    BY <1>1 DEF IdsInv, BinderOk
  <2> QED
    BY <1>1, <2>1 DEF IdsInv
<1>5. ASSUME NEW field \in {"id", "to"} PROVE Once(field)'
  <2>1. \A x \in Coming(field)' : x \in Coming(field) \/ x > issued
    BY <1>1 DEF Coming
  <2>2. CarriedOnce(field, issued, Coming(field), stamped, Told) /\ stamped \in SUBSET Stamps
    BY DEF IdsInv, Once, BinderOk
  <2>3. CarriedOnce(field, issued + 1, Coming(field)', stamped, Told)
    BY <1>1, <2>1, <2>2, StillOnce, ToldIsSeqs DEF IdsInv
  <2> QED
    BY <1>1, <2>3 DEF Once
<1> QED
  BY <1>3, <1>4, <1>5 DEF IdsInv

(* A hook stamps an event: it takes the id of its call, or of the call it  *)
(* answers, from those to come.                                            *)
LEMMA HookStamps ==
  ASSUME IdsInv, NEW new \in Stamps, Marked(new),
         stamped' = stamped \cup {new}, Told' = Told,
         clock' \in Nat, emitted' = emitted, missed' = missed,
         issued' \in Nat, issued' >= issued,
         inCall' \subseteq inCall, unanswered' \subseteq unanswered,
         new.id # 0 => new.id \in Coming("id") /\ new.id \notin Coming("id")',
         new.to # 0 => new.to \in Coming("to") /\ new.to \notin Coming("to")'
  PROVE  IdsInv'
<1>1. issued \in Nat /\ stamped \in SUBSET Stamps /\ Told \in SUBSET Seq(Events)
  BY DEF IdsInv, BinderOk
<1>2. 1 .. issued \subseteq 1 .. issued'
  BY <1>1
<1>3. BinderOk'
  <2>1. inCall' \subseteq [id : 1 .. issued', iface : Nat]
    BY <1>2 DEF IdsInv, BinderOk
  <2>2. unanswered' \subseteq 1 .. issued'
    BY <1>2 DEF IdsInv, BinderOk
  <2>3. stamped' \subseteq Stamps /\ \A s \in stamped' : Marked(s)
    BY DEF IdsInv, BinderOk
  <2>4. \A h \in Told' : h \in Seq(Events) /\ \A k \in DOMAIN h : Marked(h[k])
    BY DEF IdsInv, BinderOk
  <2>5. emitted' \in Nat /\ missed' \in Nat
    BY DEF IdsInv, BinderOk
  <2> QED
    BY <2>1, <2>2, <2>3, <2>4, <2>5 DEF BinderOk
<1>4. \A c, d \in inCall' : c.id = d.id => c = d
  BY DEF IdsInv
<1>5. ASSUME NEW field \in {"id", "to"} PROVE Once(field)'
  <2>1. \A x \in Coming(field)' : x \in Coming(field) \/ x > issued
    BY DEF Coming
  <2>2. \A x \in Coming(field) : x <= issued
    <3>1. \A c \in inCall : c.id \in 1 .. issued
      BY DEF IdsInv, BinderOk
    <3>2. unanswered \subseteq 1 .. issued
      BY DEF IdsInv, BinderOk
    <3> QED
      BY <1>1, <3>1, <3>2 DEF Coming
  <2>3. new[field] # 0 => /\ new[field] \in Coming(field) /\ new[field] <= issued
                          /\ new[field] \notin Coming(field)'
    BY <2>2
  <2>4. CarriedOnce(field, issued, Coming(field), stamped, Told)
    BY DEF IdsInv, Once
  <2>5. CarriedOnce(field, issued', Coming(field)', stamped \cup {new}, Told)
    BY <1>1, <2>1, <2>3, <2>4, StampedOnce
  <2> QED
    BY <2>5 DEF Once
<1> QED
  BY <1>3, <1>4, <1>5 DEF IdsInv

LEMMA CallEnds ==
  ASSUME IdsInv, NEW c \in inCall, NEW id \in 0 .. MaxId, EndCall(c, id)
  PROVE  IdsInv'
<1> DEFINE new == [at |-> clock + 1, dir |-> "call", id |-> id, to |-> 0, iface |-> c.iface]
<1>1. /\ issued' = issued /\ unanswered' = unanswered /\ Told' = Told
      /\ inCall' = inCall \ {c} /\ stamped' = stamped \cup {new} /\ clock' = clock + 1
      /\ id \in {c.id, 0} /\ UNCHANGED <<emitted, missed>>
  BY DEF EndCall, Stamp, ringVars, stores, Told
<1>2. c.id \in 1 .. issued /\ c.iface \in Nat /\ issued \in Nat /\ clock \in Nat
  BY DEF IdsInv, BinderOk
<1>3. new \in Stamps /\ Marked(new) /\ new.id = id /\ new.to = 0
  BY <1>1, <1>2 DEF Stamps, Directions, Marked
<1>4. c.id \in Coming("id") /\ c.id \notin Coming("id")'
  BY <1>1 DEF Coming, IdsInv
<1> HIDE DEF new
<1> QED
  BY <1>1, <1>2, <1>3, <1>4, HookStamps

LEMMA OnewayStep == ASSUME IdsInv, Oneway PROVE IdsInv'
<1> DEFINE new == [at |-> clock + 1, dir |-> "oneway", id |-> 0, to |-> 0, iface |-> IfaceOf[issued + 1]]
<1>1. issued < MaxId /\ issued \in Nat /\ clock \in Nat
  BY DEF Oneway, NextId, IdsInv, BinderOk
<1>2. /\ issued' = issued + 1 /\ unanswered' = unanswered /\ Told' = Told
      /\ inCall' = inCall /\ stamped' = stamped \cup {new} /\ clock' = clock + 1
      /\ UNCHANGED <<emitted, missed>>
  BY DEF Oneway, NextId, Stamp, ringVars, stores, Told
<1>3. IfaceOf[issued + 1] \in Nat
  BY <1>1, IfacesGiven
<1>4. new \in Stamps /\ Marked(new) /\ new.id = 0 /\ new.to = 0
  BY <1>1, <1>3 DEF Stamps, Directions, Marked
<1> HIDE DEF new
<1> QED
  BY <1>1, <1>2, <1>4, HookStamps

LEMMA ReplyStep ==
  ASSUME IdsInv, NEW id \in unanswered, NEW to \in 0 .. MaxId, Reply(id, to)
  PROVE  IdsInv'
<1> DEFINE new == [at |-> clock + 1, dir |-> "reply", id |-> 0, to |-> to, iface |-> 0]
<1>1. /\ issued' = issued + 1 /\ unanswered' = unanswered \ {id} /\ Told' = Told
      /\ inCall' = inCall /\ stamped' = stamped \cup {new} /\ clock' = clock + 1
      /\ to \in {id, 0} /\ UNCHANGED <<emitted, missed>>
  BY DEF Reply, NextId, Stamp, ringVars, stores, Told
<1>2. id \in 1 .. issued /\ issued \in Nat /\ clock \in Nat
  BY DEF IdsInv, BinderOk
<1>3. new \in Stamps /\ Marked(new) /\ new.id = 0 /\ new.to = to
  BY <1>1, <1>2 DEF Stamps, Directions, Marked
<1>4. id \in Coming("to") /\ id \notin Coming("to")'
  BY <1>1 DEF Coming
<1> HIDE DEF new
<1> QED
  BY <1>1, <1>2, <1>3, <1>4, HookStamps

-----------------------------------------------------------------------------
(* Steps of the stores.                                                    *)

LEMMA EmitKeepsIds ==
  ASSUME IdsInv, NEW s \in stamped, NEW e \in Events, Marked(e), e.id = s.id, e.to = s.to,
         stamped' = stamped \ {s},
         UNCHANGED <<issued, inCall, unanswered, clock>>, emitted' \in Nat, missed' \in Nat,
         \A g \in Told' : g \in Told \/ g = <<>> \/ \E h \in Told : g = Append(h, e)
  PROVE  IdsInv'
<1>1. BinderOk'
  <2>1. ASSUME NEW g \in Told'
        PROVE  g \in Seq(Events) /\ \A k \in DOMAIN g : Marked(g[k])
    <3>1. CASE g \in Told
      BY <3>1 DEF IdsInv, BinderOk
    <3>2. CASE g = <<>>
      BY <3>2
    <3>3. CASE \E h \in Told : g = Append(h, e)
      <4>1. PICK h \in Told : g = Append(h, e)
        BY <3>3
      <4>2. h \in Seq(Events) /\ \A k \in DOMAIN h : Marked(h[k])
        BY DEF IdsInv, BinderOk
      <4> QED
        BY <4>1, <4>2, Appended
    <3> QED
      BY <2>1, <3>1, <3>2, <3>3
  <2>2. stamped' \subseteq Stamps /\ \A t \in stamped' : Marked(t)
    BY DEF IdsInv, BinderOk
  <2>3. issued' = issued /\ clock' = clock /\ inCall' = inCall /\ unanswered' = unanswered
    OBVIOUS
  <2> QED
    BY <2>1, <2>2, <2>3 DEF IdsInv, BinderOk
<1>2. ASSUME NEW field \in {"id", "to"} PROVE Once(field)'
  <2>1. Coming(field)' = Coming(field)
    BY DEF Coming
  <2>2. CarriedOnce(field, issued, Coming(field), stamped, Told) /\ e[field] = s[field]
    BY DEF IdsInv, Once
  <2>3. CarriedOnce(field, issued, Coming(field), stamped \ {s}, Told')
    BY <2>2, ToldIsSeqs, ToldOnce DEF IdsInv
  <2> QED
    BY <2>1, <2>3 DEF Once
<1> QED
  BY <1>1, <1>2 DEF IdsInv

LEMMA ClearKeepsIds ==
  ASSUME IdsInv, UNCHANGED binderVars, UNCHANGED ringVars,
         \A g \in Told' : g \in Told \/ g = <<>>
  PROVE  IdsInv'
<1>1. UNCHANGED <<issued, inCall, unanswered, clock, stamped, emitted, missed>>
  BY DEF binderVars, ringVars
<1>2. BinderOk'
  <2>1. \A g \in Told' : g \in Seq(Events) /\ \A k \in DOMAIN g : Marked(g[k])
    BY NoneTold DEF IdsInv, BinderOk
  <2> QED
    BY <1>1, <2>1 DEF IdsInv, BinderOk
<1>3. ASSUME NEW field \in {"id", "to"} PROVE Once(field)'
  <2>1. Coming(field)' = Coming(field)
    BY <1>1 DEF Coming
  <2>2. CarriedOnce(field, issued, Coming(field), stamped, Told')
    BY ClearedOnce DEF IdsInv, Once
  <2> QED
    BY <1>1, <2>1, <2>2 DEF Once
<1> QED
  BY <1>1, <1>2, <1>3 DEF IdsInv

(* The event that is built from a stamp.                                   *)
EventOf(s) == [seq |-> emitted + 1, at |-> s.at, dir |-> s.dir, id |-> s.id, to |-> s.to,
               iface |-> s.iface, lost |-> missed]

LEMMA EventIsSound ==
  ASSUME IdsInv, NEW s \in stamped
  PROVE  EventOf(s) \in Events /\ Marked(EventOf(s)) /\ EventOf(s).id = s.id /\ EventOf(s).to = s.to
<1>1. s \in Stamps /\ Marked(s) /\ emitted \in Nat /\ missed \in Nat
  BY DEF IdsInv, BinderOk
<1> QED
  BY <1>1 DEF EventOf, Events, Stamps, Marked

LEMMA TuiTakes ==
  ASSUME TuiInv, tui.history \in Seq(Events), NEW e \in Events, Marked(e), tui' = TuiPush(tui, e)
  PROVE  TuiInv'
<1> DEFINE h == tui.history
           g == Append(h, e)
           last == Len(h) + 1
<1>1. /\ Len(h) \in Nat /\ DOMAIN h = 1 .. Len(h) /\ DOMAIN g = 1 .. last
      /\ (\A k \in DOMAIN h : g[k] = h[k]) /\ g[last] = e
  BY Appended
<1>2. tui'.history = g
  BY DEF TuiPush
<1>3. tui'.summaries = IF e.id = 0 THEN tui.summaries ELSE Put(tui.summaries, e.id, SummaryOf(e))
  BY DEF TuiPush, Marked, SummaryOf
<1> HIDE DEF g
<1>4. \A k \in DOMAIN g : g[k].id # 0 => g[k].id \in DOMAIN tui'.summaries
  <2>1. \A x \in DOMAIN tui.summaries : x \in DOMAIN tui'.summaries
    BY <1>3 DEF Put
  <2>2. e.id # 0 => e.id \in DOMAIN tui'.summaries
    BY <1>3 DEF Put
  <2> QED
    BY <1>1, <2>1, <2>2 DEF TuiInv
<1>5. ASSUME NEW x \in DOMAIN tui'.summaries
      PROVE  \E k \in DOMAIN g : x # 0 /\ g[k].id = x /\ tui'.summaries[x] = SummaryOf(g[k])
  <2>1. CASE e.id # 0 /\ x = e.id
    <3>1. tui'.summaries[x] = SummaryOf(e)
      BY <1>3, <2>1 DEF Put
    <3> QED
      BY <1>1, <2>1, <3>1
  <2>2. CASE ~(e.id # 0 /\ x = e.id)
    <3>1. x \in DOMAIN tui.summaries /\ tui'.summaries[x] = tui.summaries[x]
      BY <1>3, <1>5, <2>2 DEF Put
    <3>2. PICK k \in DOMAIN h : x # 0 /\ h[k].id = x /\ tui.summaries[x] = SummaryOf(h[k])
      BY <3>1 DEF TuiInv
    <3> QED
      BY <1>1, <3>1, <3>2
  <2> QED
    BY <2>1, <2>2
<1> QED
  BY <1>2, <1>4, <1>5 DEF TuiInv

(* The order of the numbers, when some of the histories take an event.     *)
LEMMA OrderIsKept ==
  ASSUME NEW last \in Nat, NEW told \in SUBSET Seq(Events), Ordered(told, last),
         NEW e \in Events, e.seq = last + 1, NEW later,
         \A g \in later : g \in told \/ g = <<>> \/ \E h \in told : g = Append(h, e)
  PROVE  Ordered(later, last + 1)
<1> SUFFICES ASSUME NEW g \in later, NEW k \in DOMAIN g
             PROVE  g[k].seq <= last + 1 /\ \A j \in DOMAIN g : j < k => g[j].seq < g[k].seq
  BY DEF Ordered
<1>1. \A h \in told : \A i \in DOMAIN h : h[i].seq \in Nat /\ h[i].seq <= last
  <2>1. \A h \in told : \A i \in DOMAIN h : h[i] \in Events
    OBVIOUS
  <2> QED
    BY <2>1 DEF Events, Ordered
<1>2. CASE g \in told
  BY <1>1, <1>2 DEF Ordered
<1>3. CASE \E h \in told : g = Append(h, e)
  <2>1. PICK h \in told : g = Append(h, e)
    BY <1>3
  <2>2. /\ Len(h) \in Nat /\ DOMAIN h = 1 .. Len(h) /\ DOMAIN g = 1 .. Len(h) + 1
        /\ (\A i \in DOMAIN h : g[i] = h[i]) /\ g[Len(h) + 1] = e
    BY <2>1, Appended
  <2>3. CASE k = Len(h) + 1
    <3>1. \A j \in DOMAIN g : j < k => j \in DOMAIN h /\ g[j].seq < g[k].seq
      BY <1>1, <2>2, <2>3
    <3> QED
      BY <2>2, <2>3, <3>1
  <2>4. CASE k # Len(h) + 1
    <3>1. k \in DOMAIN h /\ g[k] = h[k]
      BY <2>2, <2>4
    <3>2. \A j \in DOMAIN g : j < k => j \in DOMAIN h /\ g[j] = h[j]
      BY <2>2, <3>1
    <3> QED
      BY <1>1, <3>1, <3>2 DEF Ordered
  <2> QED
    BY <2>3, <2>4
<1> QED
  BY <1>2, <1>3

LEMMA OrderIsKeptByAll ==
  ASSUME NEW last, NEW told, Ordered(told, last), NEW later,
         \A g \in later : g \in told \/ g = <<>>
  PROVE  Ordered(later, last)
BY DEF Ordered

(* What Mcp!Push does beside the summaries and latencies.                  *)
LEMMA McpCounts ==
  ASSUME NEW s, DOMAIN s = DOMAIN Mcp!New, NEW e
  PROVE  LET t == Mcp!Push(s, e)
         IN  /\ DOMAIN t = DOMAIN Mcp!New /\ t.history = Append(s.history, e)
             /\ t.index = Put(s.index, e.seq, Len(s.history))
             /\ t.lost = s.lost + e.lost /\ t.newest = e.seq
             /\ t.oldest = IF s.oldest = None THEN e.seq ELSE s.oldest
<1> DEFINE stored == [s EXCEPT !.history = Append(@, e),
                               !.index   = Mcp!Put(@, e.seq, Len(s.history)),
                               !.lost    = @ + e.lost,
                               !.oldest  = IF @ = Mcp!None THEN e.seq ELSE @,
                               !.newest  = e.seq]
           t == Mcp!Push(s, e)
<1>1. DOMAIN Mcp!New = {"history", "index", "summaries", "latencies", "lost", "oldest", "newest"}
  BY DEF Mcp!New
<1>2. /\ DOMAIN stored = DOMAIN s /\ stored.history = Append(s.history, e)
      /\ stored.index = Put(s.index, e.seq, Len(s.history))
      /\ stored.lost = s.lost + e.lost /\ stored.newest = e.seq
      /\ stored.oldest = IF s.oldest = None THEN e.seq ELSE s.oldest
  BY <1>1, SameRows
<1>3. \/ t = stored
      \/ \E v : t = [stored EXCEPT !.summaries = v]
      \/ \E v : t = [stored EXCEPT !.latencies = v]
  BY DEF Mcp!Push
<1> HIDE DEF stored, t
<1>4. /\ DOMAIN t = DOMAIN stored /\ t.history = stored.history /\ t.index = stored.index
      /\ t.lost = stored.lost /\ t.newest = stored.newest /\ t.oldest = stored.oldest
  <2>1. {"history", "index", "lost", "oldest", "newest"} \subseteq DOMAIN stored
    BY <1>1, <1>2
  <2>2. CASE \E v : t = [stored EXCEPT !.summaries = v]
    BY <2>1, <2>2
  <2>3. CASE \E v : t = [stored EXCEPT !.latencies = v]
    BY <2>1, <2>3
  <2> QED
    BY <1>3, <2>2, <2>3
<1> QED
  BY <1>2, <1>4 DEF t

LEMMA McpIsKept ==
  ASSUME IdsInv, Ordered(Told, emitted), McpInv, NEW e \in Events, e.seq = emitted + 1,
         mcp' = mcp \/ mcp' = Mcp!Push(mcp, e)
  PROVE  McpInv'
<1>1. CASE mcp' = mcp
  BY <1>1 DEF McpInv
<1>2. CASE mcp' = Mcp!Push(mcp, e)
  <2> DEFINE h == mcp.history
             g == Append(h, e)
             n == Len(h)
  <2>1. h \in Seq(Events) /\ h \in Told /\ emitted \in Nat
    BY DEF Told, IdsInv, BinderOk
  <2>2. /\ n \in Nat /\ DOMAIN h = 1 .. n /\ DOMAIN g = 1 .. n + 1 /\ (\A k \in DOMAIN h : g[k] = h[k])
        /\ g[n + 1] = e /\ g \in Seq(Events)
    BY <2>1, Appended
  <2>3. /\ DOMAIN mcp' = DOMAIN Mcp!New /\ mcp'.history = g
        /\ mcp'.index = Put(mcp.index, e.seq, n)
        /\ mcp'.lost = mcp.lost + e.lost /\ mcp'.newest = e.seq
        /\ mcp'.oldest = IF mcp.oldest = None THEN e.seq ELSE mcp.oldest
    BY <1>2, McpCounts DEF McpInv
  <2>4. \A k \in DOMAIN h : h[k].seq # e.seq
    <3>1. \A k \in DOMAIN h : h[k] \in Events /\ h[k].seq <= emitted
      BY <2>1 DEF Ordered
    <3> QED
      BY <2>1, <3>1 DEF Events
  <2>5. Last(g) = e /\ g # <<>> /\ (h # <<>> => Head(g) = Head(h)) /\ (h = <<>> => Head(g) = e)
    <3>1. Len(g) = n + 1 /\ Head(g) = g[1]
      BY <2>1, <2>2
    <3>2. h # <<>> => 1 \in DOMAIN h /\ Head(h) = h[1]
      BY <2>1, <2>2
    <3>3. h = <<>> => n = 0
      OBVIOUS
    <3>4. g # <<>>
      BY <2>1
    <3> HIDE DEF h, g, n
    <3> QED
      BY <2>2, <3>1, <3>2, <3>3, <3>4 DEF Last
  <2>6. LostIn(g) = LostIn(h) + e.lost
    BY <2>1, LossGrows
  <2>7. DOMAIN mcp.index = {h[k].seq : k \in DOMAIN h} /\ \A k \in DOMAIN h : mcp.index[h[k].seq] = k - 1
    BY DEF McpInv
  <2>8. /\ mcp.lost = LostIn(h)
        /\ IF h = <<>> THEN mcp.oldest = None
           ELSE mcp.oldest = Head(h).seq /\ Head(h) \in Events
    BY <2>1 DEF McpInv
  <2> HIDE DEF h, g, n
  <2>9. DOMAIN mcp'.index = {g[k].seq : k \in DOMAIN g}
    <3>1. DOMAIN mcp'.index = DOMAIN mcp.index \cup {e.seq}
      BY <2>3 DEF Put
    <3>2. {g[k].seq : k \in DOMAIN g} = {h[k].seq : k \in DOMAIN h} \cup {e.seq}
      <4>1. \A k \in DOMAIN g : k \in DOMAIN h \/ k = n + 1
        BY <2>2
      <4>2. n + 1 \in DOMAIN g /\ \A k \in DOMAIN h : k \in DOMAIN g
        BY <2>2
      <4> QED
        BY <2>2, <4>1, <4>2
    <3> QED
      BY <2>7, <3>1, <3>2
  <2>10. ASSUME NEW k \in DOMAIN g PROVE mcp'.index[g[k].seq] = k - 1
    <3>1. CASE k \in DOMAIN h
      <4>1. g[k].seq = h[k].seq /\ h[k].seq # e.seq /\ h[k].seq \in DOMAIN mcp.index
        BY <2>2, <2>4, <2>7, <3>1
      <4> QED
        BY <2>3, <2>7, <3>1, <4>1 DEF Put
    <3>2. CASE k \notin DOMAIN h
      <4>1. k = n + 1 /\ n = k - 1
        BY <2>2, <3>2
      <4> QED
        BY <2>2, <2>3, <4>1 DEF Put
    <3> QED
      BY <3>1, <3>2
  <2>11. mcp'.oldest = Head(g).seq
    BY <2>3, <2>5, <2>8 DEF Events, None
  <2> QED
    BY <2>3, <2>5, <2>6, <2>8, <2>9, <2>10, <2>11 DEF McpInv
<1> QED
  BY <1>1, <1>2

LEMMA NewMcp == (mcp = Mcp!New => McpInv) /\ (mcp' = Mcp!New => McpInv')
<1>1. /\ Mcp!New.history = <<>> /\ Mcp!New.index = EmptyMap /\ Mcp!New.lost = 0
      /\ Mcp!New.oldest = None /\ Mcp!New.newest = None
  BY SameRows DEF Mcp!New
<1>2. LostIn(<<>>) = 0
  <2>1. Len(<<>>) = 0
    OBVIOUS
  <2>2. PICK f : IsLoss(f, <<>>, 0) /\ LostIn(<<>>) = f[0]
    BY <2>1, LossOf
  <2> QED
    BY <2>2 DEF IsLoss, LossAt
<1>3. DOMAIN <<>> = {} /\ DOMAIN EmptyMap = {}
  BY DEF EmptyMap
<1> QED
  BY <1>1, <1>2, <1>3 DEF McpInv

LEMMA EmitStep ==
  ASSUME RowsInv, NEW s \in stamped, Emit(s)
  PROVE  RowsInv'
<1> DEFINE e == EventOf(s)
<1>1. /\ stamped' = stamped \ {s} /\ emitted' = emitted + 1
      /\ UNCHANGED <<issued, inCall, unanswered, clock>>
      /\ \/ missed' = missed + 1 /\ UNCHANGED <<mcp, webui, tui>>
         \/ /\ missed' = 0
            /\ mcp' = mcp \/ mcp' = Mcp!Push(mcp, e)
            /\ webui' = webui \/ webui' = Webui!Push(webui, e)
            /\ tui' = tui \/ tui' = TuiPush(tui, e)
  BY DEF Emit, EventOf, stores
<1>2. e \in Events /\ Marked(e) /\ e.id = s.id /\ e.to = s.to /\ e.seq = emitted + 1
  BY EventIsSound DEF RowsInv, EventOf
<1>3. Takes(mcp, e, Mcp!Push(mcp, e)) /\ Takes(webui, e, Webui!Push(webui, e))
  BY StoresTake DEF RowsInv, StoreInv
<1>4. mcp.history \in Seq(Events) /\ webui.history \in Seq(Events) /\ tui.history \in Seq(Events)
  BY DEF RowsInv, IdsInv, BinderOk, Told
<1> HIDE DEF e
<1>5. StoreInv(mcp)'
  BY <1>1, <1>2, <1>3, <1>4, TakenIsSound DEF RowsInv, StoreInv
<1>6. StoreInv(webui)'
  BY <1>1, <1>2, <1>3, <1>4, TakenIsSound DEF RowsInv, StoreInv
<1>7. TuiInv'
  <2>1. CASE tui' = tui
    BY <2>1 DEF RowsInv, TuiInv
  <2>2. CASE tui' = TuiPush(tui, e)
    BY <1>2, <1>4, <2>2, TuiTakes DEF RowsInv
  <2> QED
    BY <1>1, <2>1, <2>2
<1>8. McpInv'
  <2>1. mcp' = mcp \/ mcp' = Mcp!Push(mcp, e)
    BY <1>1
  <2> QED
    BY <1>2, <2>1, McpIsKept DEF RowsInv
<1>9. IdsInv' /\ Ordered(Told, emitted)'
  <2>1. emitted' \in Nat /\ missed' \in Nat
    BY <1>1 DEF RowsInv, IdsInv, BinderOk
  <2>2. mcp'.history \in {mcp.history, Append(mcp.history, e)}
    BY <1>1, <1>3 DEF Takes
  <2>3. webui'.history \in {webui.history, Append(webui.history, e)}
    BY <1>1, <1>3 DEF Takes
  <2>4. tui'.history \in {tui.history, Append(tui.history, e)}
    BY <1>1 DEF TuiPush
  <2>5. \A g \in Told' : g \in Told \/ g = <<>> \/ \E h \in Told : g = Append(h, e)
    BY <2>2, <2>3, <2>4 DEF Told
  <2>6. emitted \in Nat /\ Told \in SUBSET Seq(Events)
    BY ToldIsSeqs DEF RowsInv, IdsInv, BinderOk
  <2>7. Ordered(Told', emitted + 1)
    BY <1>2, <2>5, <2>6, OrderIsKept DEF RowsInv
  <2> QED
    BY <1>1, <1>2, <2>1, <2>5, <2>7, EmitKeepsIds DEF RowsInv
<1> QED
  BY <1>5, <1>6, <1>7, <1>8, <1>9 DEF RowsInv

LEMMA McpClearStep == ASSUME RowsInv, McpClear PROVE RowsInv'
<1>1. mcp' = Mcp!New /\ UNCHANGED <<binderVars, ringVars, webui, tui>> /\ emitted' = emitted
  BY DEF McpClear, Mcp!Clear, ringVars
<1>2. mcp'.history = <<>> /\ StoreInv(mcp')
  BY <1>1, NewIsSound DEF Mcp!New
<1>3. \A g \in Told' : g \in Told \/ g = <<>>
  BY <1>1, <1>2 DEF Told
<1>4. IdsInv' /\ Ordered(Told, emitted)'
  BY <1>1, <1>3, ClearKeepsIds, OrderIsKeptByAll DEF RowsInv
<1>5. StoreInv(mcp)' /\ StoreInv(webui)' /\ TuiInv'
  BY <1>1, <1>2 DEF RowsInv, StoreInv, TuiInv
<1>6. McpInv'
  BY <1>1, NewMcp
<1> QED
  BY <1>4, <1>5, <1>6 DEF RowsInv

LEMMA WebuiClearStep == ASSUME RowsInv, WebuiClear PROVE RowsInv'
<1>1. webui' = Webui!New /\ UNCHANGED <<binderVars, ringVars, mcp, tui>> /\ emitted' = emitted
  BY DEF WebuiClear, Webui!Clear, ringVars
<1>2. webui'.history = <<>> /\ StoreInv(webui')
  BY <1>1, NewIsSound DEF Webui!New
<1>3. \A g \in Told' : g \in Told \/ g = <<>>
  BY <1>1, <1>2 DEF Told
<1>4. IdsInv' /\ Ordered(Told, emitted)'
  BY <1>1, <1>3, ClearKeepsIds, OrderIsKeptByAll DEF RowsInv
<1>5. StoreInv(mcp)' /\ StoreInv(webui)' /\ TuiInv'
  BY <1>1, <1>2 DEF RowsInv, StoreInv, TuiInv
<1>6. McpInv'
  BY <1>1 DEF RowsInv, McpInv
<1> QED
  BY <1>4, <1>5, <1>6 DEF RowsInv

LEMMA RowsInit == Init => RowsInv
<1> SUFFICES ASSUME Init PROVE RowsInv
  OBVIOUS
<1>1. mcp = Mcp!New /\ webui = Webui!New /\ StoreInv(mcp) /\ StoreInv(webui)
  BY NewIsSound DEF Init
<1>2. mcp.history = <<>> /\ webui.history = <<>> /\ tui.history = <<>>
  BY DEF Init, Mcp!New, Webui!New
<1>3. TuiInv
  BY <1>2 DEF Init, TuiInv, EmptyMap
<1>4. \A h \in Told : h = <<>>
  BY <1>2 DEF Told
<1>5. BinderOk
  <2>1. issued \in Nat
    BY RowsAssumption DEF Init
  <2>2. \A h \in Told : h \in Seq(Events) /\ \A k \in DOMAIN h : Marked(h[k])
    BY <1>4, NoneTold
  <2> QED
    BY <2>1, <2>2 DEF Init, BinderOk
<1>6. ASSUME NEW field PROVE Once(field)
  BY <1>4 DEF Init, Once, CarriedOnce
<1>7. IdsInv
  BY <1>5, <1>6 DEF Init, IdsInv
<1>8. Ordered(Told, emitted)
  BY <1>4 DEF Ordered
<1>9. McpInv
  BY <1>1, NewMcp
<1> QED
  BY <1>1, <1>3, <1>7, <1>8, <1>9 DEF RowsInv

LEMMA RowsStep == RowsInv /\ [Next]_vars => RowsInv'
<1> SUFFICES ASSUME RowsInv, [Next]_vars PROVE RowsInv'
  OBVIOUS
<1>1. ASSUME IdsInv', UNCHANGED stores, UNCHANGED ringVars PROVE RowsInv'
  <2>1. Ordered(Told, emitted)' /\ McpInv'
    BY <1>1 DEF stores, ringVars, RowsInv, Told, McpInv
  <2> QED
    BY <1>1, <2>1 DEF stores, RowsInv, StoreInv, TuiInv
<1>2. CASE Oneway
  <2>1. UNCHANGED stores /\ UNCHANGED ringVars
    BY <1>2 DEF Oneway
  <2> QED
    BY <1>1, <1>2, <2>1, OnewayStep DEF RowsInv
<1>3. CASE \E traced \in BOOLEAN : BeginCall(traced)
  <2>1. UNCHANGED stores /\ UNCHANGED ringVars
    BY <1>3 DEF BeginCall
  <2> QED
    BY <1>1, <1>3, <2>1, CallBegins DEF RowsInv
<1>4. CASE \E c \in inCall, id \in 0 .. MaxId : EndCall(c, id)
  <2>1. UNCHANGED stores /\ UNCHANGED ringVars
    BY <1>4 DEF EndCall
  <2> QED
    BY <1>1, <1>4, <2>1, CallEnds DEF RowsInv
<1>5. CASE \E id \in unanswered, to \in 0 .. MaxId : Reply(id, to)
  <2>1. UNCHANGED stores /\ UNCHANGED ringVars
    BY <1>5 DEF Reply
  <2> QED
    BY <1>1, <1>5, <2>1, ReplyStep DEF RowsInv
<1>6. CASE \E s \in stamped : Emit(s)
  BY <1>6, EmitStep
<1>7. CASE McpClear
  BY <1>7, McpClearStep
<1>8. CASE WebuiClear
  BY <1>8, WebuiClearStep
<1>9. CASE UNCHANGED vars
  <2>1. IdsInv'
    BY <1>9 DEF vars, binderVars, ringVars, stores, RowsInv, IdsInv, BinderOk, Once, Coming, Told
  <2> QED
    BY <1>1, <1>9, <2>1 DEF vars
<1> QED
  BY <1>2, <1>3, <1>4, <1>5, <1>6, <1>7, <1>8, <1>9 DEF Next

(* Ids are carried once from the hook to the histories, and every program  *)
(* keeps beside its history what the history says.                         *)
THEOREM RowsInvariance == Spec => []RowsInv
<1> QED
  BY RowsInit, RowsStep, PTL DEF Spec

-----------------------------------------------------------------------------
(* What is shown of a history.                                             *)

(* A history of one of the programs.                                       *)
Sound(s) == StoreInv(s) /\ s.history \in Told

LEMMA CallIsOnce ==
  ASSUME IdsInv, NEW h \in Told, NEW x, x # 0
  PROVE  \A j, k \in CallsOf(h, x) : j = k
BY DEF CallsOf, IdsInv, Once, CarriedOnce

LEMMA ReplyIsOnce ==
  ASSUME IdsInv, NEW h \in Told, NEW x, x # 0
  PROVE  \A j, k : Replies(h, j, x) /\ Replies(h, k, x) => j = k
BY DEF Replies, IdsInv, Once, CarriedOnce

LEMMA NamesAreCalls ==
  ASSUME IdsInv, NEW h \in Told, NEW x, x # 0, MistakenFor(h, x) = {}
  PROVE  \A k : Names(h, k, x) <=> k \in CallsOf(h, x)
<1>1. \A k \in DOMAIN h : Marked(h[k])
  BY DEF IdsInv, BinderOk
<1> QED
  BY <1>1 DEF Names, CallsOf, MistakenFor, Key, Marked

LEMMA CallIsNoted ==
  ASSUME IdsInv, NEW s, Sound(s), NEW x, x # 0, MistakenFor(s.history, x) = {}
  PROVE  /\ x \in DOMAIN s.summaries <=> CallsOf(s.history, x) # {}
         /\ \A k \in CallsOf(s.history, x) : s.summaries[x] = SummaryOf(s.history[k])
<1>1. \A k : Names(s.history, k, x) <=> k \in CallsOf(s.history, x)
  BY NamesAreCalls DEF Sound
<1>2. SummariesOf(s.history, s.summaries)
  BY DEF Sound, StoreInv
<1>3. \A k \in CallsOf(s.history, x) : Names(s.history, k, x) /\ x \in DOMAIN s.summaries
  BY <1>1, <1>2 DEF SummariesOf, Names
<1>4. ASSUME x \in DOMAIN s.summaries
      PROVE  \E k \in CallsOf(s.history, x) : s.summaries[x] = SummaryOf(s.history[k])
  BY <1>1, <1>2, <1>4 DEF SummariesOf
<1> QED
  BY <1>3, <1>4, CallIsOnce DEF Sound

LEMMA NamedByItsCall ==
  ASSUME IdsInv, NEW s, Sound(s), NEW r, r.to # 0, MistakenFor(s.history, r.to) = {}
  PROVE  ReplyName(s, r) = NameOfCall(s.history, r.to)
<1>1. CASE CallsOf(s.history, r.to) = {}
  BY <1>1, CallIsNoted DEF ReplyName, Known, NameOfCall
<1>2. CASE CallsOf(s.history, r.to) # {}
  <2> DEFINE k == CHOOSE c \in CallsOf(s.history, r.to) : TRUE
  <2>1. k \in CallsOf(s.history, r.to)
    BY <1>2
  <2>2. r.to \in DOMAIN s.summaries /\ s.summaries[r.to] = SummaryOf(s.history[k])
    BY <2>1, CallIsNoted
  <2> QED
    BY <1>2, <2>2 DEF ReplyName, Known, NameOfCall, SummaryOf
<1> QED
  BY <1>1, <1>2

LEMMA NamedByTheTui ==
  ASSUME IdsInv, TuiInv, NEW r, r.dir = "reply", r.to # 0
  PROVE  TuiName(tui, r) = NameOfCall(tui.history, r.to)
<1> DEFINE h == tui.history
<1>1. h \in Told /\ \A k \in DOMAIN h : Marked(h[k])
  BY DEF Told, IdsInv, BinderOk
<1>2. TuiName(tui, r) = ReplyName(tui, r)
  BY DEF TuiName
<1>3. \A k \in DOMAIN h : h[k].id = r.to => k \in CallsOf(h, r.to)
  BY <1>1 DEF CallsOf, Marked
<1>4. CASE CallsOf(h, r.to) = {}
  <2>1. r.to \notin DOMAIN tui.summaries
    BY <1>3, <1>4 DEF TuiInv
  <2> QED
    BY <1>2, <1>4, <2>1 DEF ReplyName, Known, NameOfCall
<1>5. CASE CallsOf(h, r.to) # {}
  <2> DEFINE k == CHOOSE c \in CallsOf(h, r.to) : TRUE
  <2>1. k \in CallsOf(h, r.to)
    BY <1>5
  <2>2. r.to \in DOMAIN tui.summaries
    BY <2>1 DEF CallsOf, TuiInv
  <2>3. PICK j \in DOMAIN h : h[j].id = r.to /\ tui.summaries[r.to] = SummaryOf(h[j])
    BY <2>2 DEF TuiInv
  <2>4. j = k
    BY <1>1, <1>3, <2>1, <2>3, CallIsOnce
  <2> QED
    BY <1>2, <1>5, <2>2, <2>3, <2>4 DEF ReplyName, Known, NameOfCall, SummaryOf
<1> QED
  BY <1>4, <1>5

(* The rows of both servers.                                               *)
LatencyShown(s, e) == IF e.dir = "reply" THEN ReplyLatency(s, e) ELSE Get(s.latencies, Key(e), None)
NameShown(s, e) == IF e.dir = "reply" THEN ReplyName(s, e) ELSE NameOf(e.iface)

LEMMA RowsShow ==
  ASSUME NEW s, NEW e
  PROVE  /\ Mcp!Row(s, e).name = NameShown(s, e) /\ Mcp!Row(s, e).latency = LatencyShown(s, e)
         /\ Mcp!Row(s, e).status = Status(e, LatencyShown(s, e), McpSlow)
         /\ Webui!Row(s, e).name = NameShown(s, e) /\ Webui!Row(s, e).latency = LatencyShown(s, e)
         /\ Webui!Row(s, e).status = Status(e, LatencyShown(s, e), WebuiSlow)
<1>1. \A x, l, slow : /\ Mcp!Status(x, l, slow) = Status(x, l, slow)
                     /\ Webui!Status(x, l, slow) = Status(x, l, slow)
  BY DEF Status, Mcp!Status, Webui!Status
<1>2. /\ Mcp!Row(s, e).name = NameShown(s, e) /\ Mcp!Row(s, e).latency = LatencyShown(s, e)
      /\ Mcp!Row(s, e).status = Status(e, LatencyShown(s, e), McpSlow)
  BY <1>1, SameRows DEF Mcp!Row, NameShown, LatencyShown
<1>3. /\ Webui!Row(s, e).name = NameShown(s, e) /\ Webui!Row(s, e).latency = LatencyShown(s, e)
      /\ Webui!Row(s, e).status = Status(e, LatencyShown(s, e), WebuiSlow)
  BY <1>1, SameRows DEF Webui!Row, NameShown, LatencyShown
<1> QED
  BY <1>2, <1>3

LEMMA RowAtK ==
  \A s : \A k \in DOMAIN s.history : /\ Mcp!Rows(s)[k] = Mcp!Row(s, s.history[k])
                                   /\ Webui!Rows(s)[k] = Webui!Row(s, s.history[k])
BY DEF Mcp!Rows, Webui!Rows

(* A reply is never shown under the interface of another call.             *)
THEOREM RepliesCorrect == Spec => []RepliesNameTheirCall
<1>1. ASSUME RowsInv PROVE RepliesNameTheirCall
  <2>1. IdsInv /\ TuiInv /\ Sound(mcp) /\ Sound(webui)
    BY <1>1 DEF RowsInv, Sound, Told
  <2>2. ASSUME NEW k \in DOMAIN tui.history,
               tui.history[k].dir = "reply", tui.history[k].to # 0
        PROVE  TuiName(tui, tui.history[k]) = NameOfCall(tui.history, tui.history[k].to)
    BY <2>1, <2>2, NamedByTheTui
  <2>3. ASSUME NEW k \in DOMAIN mcp.history,
               mcp.history[k].dir = "reply", mcp.history[k].to # 0,
               MistakenFor(mcp.history, mcp.history[k].to) = {}
        PROVE  Mcp!Rows(mcp)[k].name = NameOfCall(mcp.history, mcp.history[k].to)
    BY <2>1, <2>3, NamedByItsCall, RowsShow, RowAtK DEF NameShown
  <2>4. ASSUME NEW k \in DOMAIN webui.history,
               webui.history[k].dir = "reply", webui.history[k].to # 0,
               MistakenFor(webui.history, webui.history[k].to) = {}
        PROVE  Webui!Rows(webui)[k].name = NameOfCall(webui.history, webui.history[k].to)
    BY <2>1, <2>4, NamedByItsCall, RowsShow, RowAtK DEF NameShown
  <2> QED
    BY <2>2, <2>3, <2>4 DEF RepliesNameTheirCall
<1> QED
  BY <1>1, RowsInvariance, PTL

-----------------------------------------------------------------------------
(* Latencies.                                                              *)

LEMMA LatenciesAreRight ==
  ASSUME IdsInv, NEW s, Sound(s), NEW rows,
         \A k \in DOMAIN s.history : rows[k].latency = LatencyShown(s, s.history[k])
  PROVE  LatenciesMatch(s.history, rows)
<1> DEFINE h == s.history
<1>1. h \in Seq(Events) /\ LatenciesOf(h, s.latencies) /\ \A k \in DOMAIN h : Marked(h[k])
  BY DEF Sound, StoreInv, IdsInv, BinderOk
<1>2. DOMAIN h = 1 .. Len(h) /\ Len(h) \in Nat
  BY <1>1
<1>3. ASSUME NEW k \in DOMAIN h, NEW n \in DOMAIN h,
             k \in CallsOf(h, h[n].to), h[n].dir = "reply", h[n].to # 0,
             MistakenFor(h, h[n].to) = {}
      PROVE  /\ rows[n].latency = Max({0, h[n].at - h[k].at})
             /\ rows[k].latency = IF k < n THEN rows[n].latency ELSE None
  <2> DEFINE x == h[n].to
  <2>1. h[k].dir = "call" /\ h[k].id = x /\ Key(h[k]) = x
    BY <1>3 DEF CallsOf, Key
  <2>2. x \in DOMAIN s.summaries /\ s.summaries[x] = SummaryOf(h[k])
    BY <1>3, CallIsNoted
  <2>3. rows[n].latency = Max({0, h[n].at - h[k].at})
    BY <1>3, <2>2 DEF LatencyShown, ReplyLatency, Known, SummaryOf
  <2>4. rows[k].latency = IF x \in DOMAIN s.latencies THEN s.latencies[x] ELSE None
    BY <2>1 DEF LatencyShown, Get
  <2>5. h \in Told
    BY DEF Sound
  <2>6. Names(h, k, x) /\ Replies(h, n, x)
    BY <1>3, <2>1 DEF Names, Replies
  <2>7. \A j : Names(h, j, x) => j = k
    BY <1>3, <2>5, NamesAreCalls, CallIsOnce
  <2>8. \A j : Replies(h, j, x) => j = n
    BY <1>3, <2>5, <2>6, ReplyIsOnce
  <2>9. ASSUME x \in DOMAIN s.latencies
        PROVE  k < n /\ s.latencies[x] = Max({0, h[n].at - h[k].at})
    <3>1. PICK m \in DOMAIN h, p \in DOMAIN h :
            m < p /\ Names(h, m, x) /\ Replies(h, p, x) /\ s.latencies[x] = Max({0, h[p].at - h[m].at})
      BY <1>1, <2>9 DEF LatenciesOf
    <3> QED
      BY <2>7, <2>8, <3>1
  <2>10. k < n => x \in DOMAIN s.latencies
    BY <1>1, <1>3, <2>6 DEF LatenciesOf
  <2> QED
    BY <2>3, <2>4, <2>9, <2>10
<1>4. ASSUME NEW k \in DOMAIN h, h[k].dir # "reply", rows[k].latency # None
      PROVE  \E n \in DOMAIN h : h[n].dir = "reply" /\ h[n].to = Key(h[k])
  <2>1. Key(h[k]) \in DOMAIN s.latencies
    BY <1>4 DEF LatencyShown, Get
  <2> QED
    BY <1>1, <2>1 DEF LatenciesOf, Replies
<1> QED
  BY <1>3, <1>4 DEF LatenciesMatch

(* A call and its reply show one latency in either server.                 *)
THEOREM LatenciesCorrect == Spec => []LatenciesAgree
<1>1. ASSUME RowsInv PROVE LatenciesAgree
  <2>1. IdsInv /\ Sound(mcp) /\ Sound(webui)
    BY <1>1 DEF RowsInv, Sound, Told
  <2>2. LatenciesMatch(mcp.history, Mcp!Rows(mcp))
    BY <2>1, LatenciesAreRight, RowsShow, RowAtK
  <2>3. LatenciesMatch(webui.history, Webui!Rows(webui))
    BY <2>1, LatenciesAreRight, RowsShow, RowAtK
  <2> QED
    BY <2>2, <2>3 DEF LatenciesAgree
<1> QED
  BY <1>1, RowsInvariance, PTL

-----------------------------------------------------------------------------
(* Two stores of one history.                                              *)

LEMMA OneSummary ==
  ASSUME NEW h \in Seq(Events), NEW a, NEW b, SummariesOf(h, a), SummariesOf(h, b)
  PROVE  DOMAIN a = DOMAIN b /\ \A x \in DOMAIN a : a[x] = b[x]
<1>1. DOMAIN h = 1 .. Len(h) /\ Len(h) \in Nat
  OBVIOUS
<1>2. DOMAIN a = DOMAIN b
  BY DEF SummariesOf, Names
<1>3. ASSUME NEW x \in DOMAIN a PROVE a[x] = b[x]
  <2>1. PICK j \in DOMAIN h : Names(h, j, x) /\ a[x] = SummaryOf(h[j])
                              /\ \A i \in DOMAIN h : Names(h, i, x) => i <= j
    BY DEF SummariesOf
  <2>2. PICK k \in DOMAIN h : Names(h, k, x) /\ b[x] = SummaryOf(h[k])
                              /\ \A i \in DOMAIN h : Names(h, i, x) => i <= k
    BY <1>2 DEF SummariesOf
  <2>3. j <= k /\ k <= j
    BY <2>1, <2>2
  <2> QED
    BY <1>1, <2>1, <2>2, <2>3
<1> QED
  BY <1>2, <1>3

LEMMA OneLatency ==
  ASSUME NEW h \in Seq(Events), NEW a, NEW b, LatenciesOf(h, a), LatenciesOf(h, b)
  PROVE  DOMAIN a = DOMAIN b /\ \A x \in DOMAIN a : a[x] = b[x] /\ a[x] \in Int
<1>1. DOMAIN h = 1 .. Len(h) /\ Len(h) \in Nat
  OBVIOUS
<1>2. DOMAIN a = DOMAIN b
  <2>1. ASSUME NEW c, NEW d, LatenciesOf(h, c), LatenciesOf(h, d), NEW x \in DOMAIN c
        PROVE  x \in DOMAIN d
    <3>1. PICK m \in DOMAIN h, n \in DOMAIN h : m < n /\ Names(h, m, x) /\ Replies(h, n, x)
      BY <2>1 DEF LatenciesOf
    <3>2. h[n].dir = "reply" /\ h[n].to = x
      BY <3>1 DEF Replies
    <3> QED
      BY <2>1, <3>1, <3>2 DEF LatenciesOf
  <2>2. \A x \in DOMAIN a : x \in DOMAIN b
    BY <2>1
  <2>3. \A x \in DOMAIN b : x \in DOMAIN a
    BY <2>1
  <2> QED
    BY <2>2, <2>3
<1>3. ASSUME NEW x \in DOMAIN a PROVE a[x] = b[x] /\ a[x] \in Int
  <2>1. PICK i \in DOMAIN h, j \in DOMAIN h :
          /\ i < j /\ Names(h, i, x) /\ Replies(h, j, x) /\ a[x] = Max({0, h[j].at - h[i].at})
          /\ \A p \in DOMAIN h : Names(h, p, x) /\ p < j => p <= i
          /\ \A p \in DOMAIN h : Replies(h, p, x) => p <= j
    BY DEF LatenciesOf
  <2>2. PICK m \in DOMAIN h, n \in DOMAIN h :
          /\ m < n /\ Names(h, m, x) /\ Replies(h, n, x) /\ b[x] = Max({0, h[n].at - h[m].at})
          /\ \A p \in DOMAIN h : Names(h, p, x) /\ p < n => p <= m
          /\ \A p \in DOMAIN h : Replies(h, p, x) => p <= n
    BY <1>2 DEF LatenciesOf
  <2>3. j = n
    <3>1. j <= n /\ n <= j
      BY <2>1, <2>2
    <3> QED
      BY <1>1, <3>1
  <2>4. i = m
    <3>1. i <= m /\ m <= i
      BY <2>1, <2>2, <2>3
    <3> QED
      BY <1>1, <3>1
  <2>5. h[i] \in Events /\ h[j] \in Events
    OBVIOUS
  <2>6. h[j].at - h[i].at \in Int
    BY <2>5 DEF Events
  <2>7. a[x] \in Int
    BY <2>1, <2>6, MaxOfZero
  <2> QED
    BY <2>1, <2>2, <2>3, <2>4, <2>7
<1> QED
  BY <1>2, <1>3

(* The two servers, which came to their events apart, tell the same of the *)
(* same history.                                                           *)
THEOREM FrontEndsCorrect == Spec => []FrontEndsAgree
<1>1. ASSUME RowsInv, mcp.history = webui.history, NEW k \in DOMAIN mcp.history
      PROVE  LET m == Mcp!Row(mcp, mcp.history[k])
                 w == Webui!Row(webui, webui.history[k])
             IN  /\ m.name = w.name /\ m.latency = w.latency
                 /\ (m.status = "error") = (w.status = "error")
                 /\ m.status = "slow" => w.status = "slow"
  <2> DEFINE h == mcp.history
             e == h[k]
  <2>1. h \in Seq(Events) /\ StoreInv(mcp) /\ StoreInv(webui)
    BY <1>1 DEF RowsInv, IdsInv, BinderOk, Told
  <2>2. /\ DOMAIN mcp.summaries = DOMAIN webui.summaries
        /\ \A x \in DOMAIN mcp.summaries : mcp.summaries[x] = webui.summaries[x]
    BY <1>1, <2>1, OneSummary DEF StoreInv
  <2>3. /\ DOMAIN mcp.latencies = DOMAIN webui.latencies
        /\ \A x \in DOMAIN mcp.latencies :
             mcp.latencies[x] = webui.latencies[x] /\ mcp.latencies[x] \in Int
    BY <1>1, <2>1, OneLatency DEF StoreInv
  <2>4. e \in Events
    BY <2>1
  <2>5. NameShown(mcp, e) = NameShown(webui, e)
    BY <2>2 DEF NameShown, ReplyName, Known
  <2>6. LatencyShown(mcp, e) = LatencyShown(webui, e)
    BY <2>2, <2>3 DEF LatencyShown, ReplyLatency, Known, Get
  <2>7. LatencyShown(mcp, e) \in Int
    <3>1. CASE e.dir = "reply" /\ e.to \in DOMAIN mcp.summaries
      <4>1. PICK j \in DOMAIN h : mcp.summaries[e.to] = SummaryOf(h[j])
        BY <2>1, <3>1 DEF StoreInv, SummariesOf
      <4>2. h[j] \in Events
        BY <2>1
      <4>3. e.at - mcp.summaries[e.to].at \in Int
        BY <2>4, <4>1, <4>2 DEF Events, SummaryOf
      <4> QED
        BY <3>1, <4>3, MaxOfZero DEF LatencyShown, ReplyLatency, Known
    <3>2. CASE e.dir = "reply" /\ e.to \notin DOMAIN mcp.summaries
      BY <3>2 DEF LatencyShown, ReplyLatency, Known, None
    <3>3. CASE e.dir # "reply"
      BY <2>3, <3>3 DEF LatencyShown, Get, None
    <3> QED
      BY <3>1, <3>2, <3>3
  <2>8. McpSlow \in Nat /\ WebuiSlow \in Nat /\ WebuiSlow <= McpSlow
    BY RowsAssumption
  <2> DEFINE m == Mcp!Row(mcp, mcp.history[k])
             w == Webui!Row(webui, webui.history[k])
             l == LatencyShown(mcp, e)
  <2>9. /\ m.name = NameShown(mcp, e) /\ m.latency = l /\ m.status = Status(e, l, McpSlow)
        /\ w.name = NameShown(mcp, e) /\ w.latency = l /\ w.status = Status(e, l, WebuiSlow)
    BY <1>1, <2>5, <2>6, RowsShow
  <2> HIDE DEF m, w, l, e
  <2>10. m.status = "slow" => w.status = "slow"
    BY <2>7, <2>8, <2>9 DEF Status, l
  <2>11. (m.status = "error") = (w.status = "error")
    BY <2>9 DEF Status
  <2> QED
    BY <2>9, <2>10, <2>11 DEF m, w
<1>2. RowsInv => FrontEndsAgree
  BY <1>1 DEF FrontEndsAgree
<1> QED
  BY <1>2, RowsInvariance, PTL

-----------------------------------------------------------------------------
(* Ordinals: how many of a set of row numbers are not above one.           *)

Upto(P, k) == {j \in P : j <= k}
Ordinal(P, k) == Cardinality(Upto(P, k))

LEMMA InUpto ==
  ASSUME NEW P, NEW k
  PROVE  \A j : j \in Upto(P, k) <=> j \in P /\ j <= k
BY DEF Upto

LEMMA UptoIsFinite ==
  ASSUME NEW N \in Nat, NEW P \in SUBSET (1 .. N), NEW k
  PROVE  IsFiniteSet(Upto(P, k)) /\ Ordinal(P, k) \in Nat
<1>1. IsFiniteSet(1 .. N)
  BY FS_Interval
<1>2. IsFiniteSet(Upto(P, k))
  BY <1>1, FS_Subset DEF Upto
<1> QED
  BY <1>2, FS_CardinalityType DEF Ordinal

LEMMA OrdinalSteps ==
  ASSUME NEW N \in Nat, NEW P \in SUBSET (1 .. N), NEW k \in Nat
  PROVE  /\ Ordinal(P, 0) = 0
         /\ k + 1 \in P => Ordinal(P, k + 1) = Ordinal(P, k) + 1
         /\ k + 1 \notin P => Ordinal(P, k + 1) = Ordinal(P, k)
         /\ Ordinal(P, N) = Cardinality(P)
<1>0. \A j \in P : j \in Nat /\ j # 0 /\ j <= N
  OBVIOUS
<1>1. Upto(P, 0) = {} /\ Upto(P, N) = P
  <2>0. \A j \in P : ~(j <= 0)
    BY <1>0
  <2>1. \A j : j \in Upto(P, 0) => FALSE
    BY <2>0, InUpto
  <2>2. \A j : j \in Upto(P, N) <=> j \in P
    BY <1>0, InUpto
  <2> QED
    BY <2>1, <2>2
<1>2. IsFiniteSet(Upto(P, k)) /\ k + 1 \notin Upto(P, k)
  <2>1. ~(k + 1 <= k)
    OBVIOUS
  <2> QED
    BY <2>1, InUpto, UptoIsFinite
<1>3. k + 1 \in P => Upto(P, k + 1) = Upto(P, k) \cup {k + 1}
  <2>1. \A j \in Nat : j <= k + 1 <=> j <= k \/ j = k + 1
    OBVIOUS
  <2> QED
    BY <1>0, <2>1 DEF Upto
<1>4. k + 1 \notin P => Upto(P, k + 1) = Upto(P, k)
  <2>1. \A j \in Nat : j <= k + 1 <=> j <= k \/ j = k + 1
    OBVIOUS
  <2> QED
    BY <1>0, <2>1 DEF Upto
<1>5. Ordinal(P, 0) = 0 /\ Ordinal(P, N) = Cardinality(P)
  BY <1>1, FS_EmptySet DEF Ordinal
<1>6. k + 1 \in P => Ordinal(P, k + 1) = Ordinal(P, k) + 1
  BY <1>2, <1>3, FS_AddElement DEF Ordinal
<1>7. k + 1 \notin P => Ordinal(P, k + 1) = Ordinal(P, k)
  BY <1>4 DEF Ordinal
<1> QED
  BY <1>5, <1>6, <1>7

LEMMA OrdinalsGrow ==
  ASSUME NEW N \in Nat, NEW P \in SUBSET (1 .. N), NEW i \in Nat, NEW k \in Nat, i <= k
  PROVE  Ordinal(P, i) <= Ordinal(P, k)
<1>1. Upto(P, i) \subseteq Upto(P, k)
  <2>1. \A j \in P : j \in Nat /\ (j <= i => j <= k)
    OBVIOUS
  <2> QED
    BY <2>1, InUpto
<1> QED
  BY <1>1, UptoIsFinite, FS_Subset DEF Ordinal

(* The ordinals of the members go up one by one.                           *)
LEMMA MemberOrdinals ==
  ASSUME NEW N \in Nat, NEW P \in SUBSET (1 .. N), NEW k \in P
  PROVE  /\ k - 1 \in Nat /\ Ordinal(P, k) = Ordinal(P, k - 1) + 1
         /\ \A j \in P : j < k => Ordinal(P, j) < Ordinal(P, k)
<1>1. k \in Nat /\ k - 1 \in Nat /\ (k - 1) + 1 = k
  OBVIOUS
<1>2. Ordinal(P, k) = Ordinal(P, k - 1) + 1
  BY <1>1, OrdinalSteps, ZenonT(60)
<1>3. ASSUME NEW j \in P, j < k PROVE Ordinal(P, j) < Ordinal(P, k)
  <2>1. j \in Nat /\ j <= k - 1
    BY <1>1, <1>3
  <2>2. Ordinal(P, j) <= Ordinal(P, k - 1)
    BY <1>1, <2>1, OrdinalsGrow
  <2>3. Ordinal(P, j) \in Nat /\ Ordinal(P, k - 1) \in Nat
    BY UptoIsFinite
  <2> QED
    BY <1>2, <2>2, <2>3
<1> QED
  BY <1>1, <1>2, <1>3

(* Whatever has been counted was counted at a member.                      *)
LEMMA OrdinalOfMember ==
  ASSUME NEW N \in Nat, NEW P \in SUBSET (1 .. N), NEW k \in Nat, NEW i \in Nat,
         Ordinal(P, i) < Ordinal(P, k)
  PROVE  \E j \in P : i < j /\ j <= k /\ Ordinal(P, j) = Ordinal(P, i) + 1
<1> DEFINE T == {n \in Nat : Ordinal(P, i) < Ordinal(P, n) =>
                   \E j \in P : i < j /\ j <= n /\ Ordinal(P, j) = Ordinal(P, i) + 1}
<1>1. 0 \in T
  <2>1. Ordinal(P, 0) = 0 /\ Ordinal(P, i) \in Nat
    BY OrdinalSteps, UptoIsFinite
  <2> QED
    BY <2>1
<1>2. ASSUME NEW n \in T PROVE n + 1 \in T
  <2>1. SUFFICES ASSUME Ordinal(P, i) < Ordinal(P, n + 1)
                 PROVE  \E j \in P : i < j /\ j <= n + 1 /\ Ordinal(P, j) = Ordinal(P, i) + 1
    OBVIOUS
  <2>2. CASE Ordinal(P, i) < Ordinal(P, n)
    BY <1>2, <2>2
  <2>3. CASE ~(Ordinal(P, i) < Ordinal(P, n))
    <3>1. n \in Nat /\ Ordinal(P, i) \in Nat /\ Ordinal(P, n) \in Nat /\ Ordinal(P, n + 1) \in Nat
      BY UptoIsFinite
    <3>2. n + 1 \in P /\ Ordinal(P, n + 1) = Ordinal(P, n) + 1
      BY <2>1, <2>3, <3>1, OrdinalSteps
    <3>3. Ordinal(P, n + 1) = Ordinal(P, i) + 1
      BY <2>1, <2>3, <3>1, <3>2
    <3>4. i < n + 1
      <4>1. CASE n + 1 <= i
        <5>1. Ordinal(P, n + 1) <= Ordinal(P, i)
          BY <4>1, OrdinalsGrow, n + 1 \in Nat
        <5> QED
          BY <2>1, <3>1, <5>1
      <4> QED
        BY <3>1, <4>1
    <3> QED
      BY <3>2, <3>3, <3>4
  <2> QED
    BY <2>2, <2>3
<1> HIDE DEF T
<1>3. k \in T
  BY <1>1, <1>2, SetInduction DEF T
<1> QED
  BY <1>3 DEF T

LEMMA LastMember ==
  ASSUME NEW N \in Nat, NEW P \in SUBSET (1 .. N), NEW k \in Nat, Ordinal(P, k) # 0
  PROVE  \E j \in P : j <= k /\ Ordinal(P, j) = Ordinal(P, k)
<1> DEFINE T == {n \in Nat : Ordinal(P, n) # 0 => \E j \in P : j <= n /\ Ordinal(P, j) = Ordinal(P, n)}
<1>1. 0 \in T
  BY OrdinalSteps
<1>2. ASSUME NEW n \in T PROVE n + 1 \in T
  <2>1. CASE n + 1 \in P
    <3>1. n + 1 <= n + 1
      OBVIOUS
    <3> QED
      BY <2>1, <3>1
  <2>2. CASE n + 1 \notin P
    <3>1. Ordinal(P, n + 1) = Ordinal(P, n)
      BY <2>2, OrdinalSteps
    <3> QED
      BY <1>2, <3>1
  <2> QED
    BY <2>1, <2>2
<1> HIDE DEF T
<1>3. k \in T
  BY <1>1, <1>2, SetInduction DEF T
<1> QED
  BY <1>3 DEF T

-----------------------------------------------------------------------------
(* What a page holds after some of the rows: rows that are let through and *)
(* match the request, with ordinals in sequence; up to the last of them,   *)
(* or, behind a cursor, from the first.                                    *)

Item(rows, P, k) == [ordinal |-> Ordinal(P, k), row |-> rows[k]]
Items(rows, P, N) == {Item(rows, P, k) : k \in 1 .. N}

(* The rows a request matches, up to one.                                  *)
Matching(rows, P, req, n) == {k \in P : k <= n /\ RequestMatches(req, rows[k].seq)}

Holds(page, rows, P, req, limit, N, n) ==
  /\ page.matched = Ordinal(P, n)
  /\ page.rows \in Seq(Items(rows, P, N)) /\ Len(page.rows) <= limit
  /\ \A i \in 1 .. Len(page.rows) :
       /\ page.rows[i].ordinal = page.rows[1].ordinal + (i - 1)
       /\ \E k \in Matching(rows, P, req, n) : page.rows[i] = Item(rows, P, k)
  /\ \A k \in Matching(rows, P, req, n) :
       /\ page.rows # <<>>
       /\ IF req.kind = "after"
            THEN /\ page.rows[1].ordinal <= Ordinal(P, k)
                 /\ Len(page.rows) < limit =>
                      Ordinal(P, k) <= page.rows[Len(page.rows)].ordinal
            ELSE Ordinal(P, k) <= page.rows[Len(page.rows)].ordinal

Requests == [kind : {"latest", "before", "after"}, seq : Int]
RowsOk(rows, N) ==
  /\ Len(rows) = N
  /\ \A k \in 1 .. N : rows[k].seq \in Nat
  /\ \A j, k \in 1 .. N : j < k => rows[j].seq < rows[k].seq

(* A request for what lies before a cursor matches a beginning, one for    *)
(* what lies behind it an end.                                             *)
LEMMA RequestsCut ==
  ASSUME NEW N \in Nat, NEW rows, RowsOk(rows, N), NEW req \in Requests,
         NEW j \in 1 .. N, NEW k \in 1 .. N, j < k
  PROVE  /\ req.kind # "after" /\ RequestMatches(req, rows[k].seq) =>
              RequestMatches(req, rows[j].seq)
         /\ req.kind = "after" /\ RequestMatches(req, rows[j].seq) =>
              RequestMatches(req, rows[k].seq)
<1>1. rows[j].seq \in Int /\ rows[k].seq \in Int /\ rows[j].seq < rows[k].seq /\ req.seq \in Int
  BY DEF RowsOk, Requests
<1>2. req.kind \in {"latest", "before", "after"}
  BY DEF Requests
<1>3. CASE req.kind = "latest"
  BY <1>3 DEF RequestMatches
<1>4. CASE req.kind = "before"
  BY <1>1, <1>4 DEF RequestMatches
<1>5. CASE req.kind = "after"
  BY <1>1, <1>5 DEF RequestMatches
<1> QED
  BY <1>2, <1>3, <1>4, <1>5

(* A row that is let through and matches comes right after the last row of *)
(* the page, if the page is to take it.                                    *)
LEMMA NextToThePage ==
  ASSUME NEW N \in Nat, NEW P \in SUBSET (1 .. N), NEW rows, RowsOk(rows, N),
         NEW req \in Requests, NEW limit \in Nat \ {0}, NEW n \in 0 .. N - 1,
         NEW page, Holds(page, rows, P, req, limit, N, n), page.rows # <<>>,
         n + 1 \in P, RequestMatches(req, rows[n + 1].seq),
         req.kind = "after" => Len(page.rows) < limit
  PROVE  page.rows[Len(page.rows)].ordinal = Ordinal(P, n)
<1> DEFINE last == page.rows[Len(page.rows)]
<1>1. page.rows \in Seq(Items(rows, P, N)) /\ Len(page.rows) \in 1 .. Len(page.rows)
  BY DEF Holds
<1>2. PICK k \in Matching(rows, P, req, n) : last = Item(rows, P, k)
  BY <1>1 DEF Holds
<1>3. k \in P /\ k <= n /\ RequestMatches(req, rows[k].seq) /\ k \in 1 .. N /\ k \in Nat /\ n \in Nat
  BY DEF Matching
<1>4. last.ordinal = Ordinal(P, k) /\ Ordinal(P, k) <= Ordinal(P, n)
  <2>1. Item(rows, P, k).ordinal = Ordinal(P, k)
    BY DEF Item
  <2>2. Ordinal(P, k) <= Ordinal(P, n)
    BY <1>3, OrdinalsGrow
  <2> QED
    BY <1>2, <2>1, <2>2
<1>5. Ordinal(P, k) \in Nat /\ Ordinal(P, n) \in Nat
  BY UptoIsFinite
<1>6. CASE Ordinal(P, k) < Ordinal(P, n)
  <2>1. PICK j \in P : k < j /\ j <= n /\ Ordinal(P, j) = Ordinal(P, k) + 1
    BY <1>3, <1>6, OrdinalOfMember
  <2>2. j \in 1 .. N /\ n + 1 \in 1 .. N /\ j < n + 1
    BY <1>3, <2>1
  <2>3. RequestMatches(req, rows[j].seq)
    BY <1>3, <2>1, <2>2, RequestsCut
  <2>4. j \in Matching(rows, P, req, n)
    BY <2>1, <2>3 DEF Matching
  <2>5. Ordinal(P, j) <= last.ordinal
    BY <2>4 DEF Holds
  <2> QED
    BY <1>4, <1>5, <2>1, <2>5
<1> QED
  BY <1>4, <1>5, <1>6

LEMMA NothingNew ==
  ASSUME NEW N \in Nat, NEW P \in SUBSET (1 .. N), NEW rows, NEW req, NEW n \in Nat,
         NEW m \in Nat, m = n + 1,
         m \in P => ~RequestMatches(req, rows[m].seq)
  PROVE  Matching(rows, P, req, m) = Matching(rows, P, req, n)
<1>1. \A k \in P : k \in Nat /\ (k <= m <=> k <= n \/ k = m)
  OBVIOUS
<1> QED
  BY <1>1 DEF Matching

LEMMA OneNew ==
  ASSUME NEW N \in Nat, NEW P \in SUBSET (1 .. N), NEW rows, NEW req, NEW n \in Nat,
         NEW m \in Nat, m = n + 1,
         m \in P, RequestMatches(req, rows[m].seq)
  PROVE  \A k : k \in Matching(rows, P, req, m) <=> k \in Matching(rows, P, req, n) \/ k = m
<1>1. \A k \in P : k \in Nat /\ (k <= m <=> k <= n \/ k = m)
  OBVIOUS
<1> QED
  BY <1>1 DEF Matching

(* A row that the page does not take.                                      *)
LEMMA RowPasses ==
  ASSUME NEW N \in Nat, NEW P \in SUBSET (1 .. N), NEW rows, NEW req, NEW limit,
         NEW n \in Nat, NEW m \in Nat, m = n + 1, NEW page, Holds(page, rows, P, req, limit, N, n),
         m \in P => ~RequestMatches(req, rows[m].seq),
         NEW new, new.rows = page.rows, new.matched = Ordinal(P, m)
  PROVE  Holds(new, rows, P, req, limit, N, m)
<1>1. Matching(rows, P, req, m) = Matching(rows, P, req, n)
  BY NothingNew
<1> QED
  BY <1>1 DEF Holds

LEMMA SumsAgree ==
  ASSUME NEW b \in Nat, NEW l \in Nat
  PROVE  /\ (b + (l - 1)) + 1 = b + ((l + 1) - 1)
         /\ b <= b + ((l + 1) - 1)
         /\ b + ((l + 1) - 1) = (b + (2 - 1)) + (l - 1)
OBVIOUS

Longer(t, s, e) == t = Append(s, e)
Newest(s, t, limit) == s = IF Len(t) > limit THEN Tail(t) ELSE t

LEMMA RowIsTaken ==
  ASSUME NEW N \in Nat, NEW P \in SUBSET (1 .. N), NEW rows, RowsOk(rows, N),
         NEW req \in Requests, NEW limit \in Nat \ {0}, NEW n \in 0 .. N - 1, NEW m \in Nat, m = n + 1,
         NEW page, Holds(page, rows, P, req, limit, N, n),
         m \in P, RequestMatches(req, rows[m].seq),
         req.kind = "after" => Len(page.rows) < limit,
         NEW t \in Seq(Items(rows, P, N)), Longer(t, page.rows, Item(rows, P, m)),
         NEW new, new.matched = Ordinal(P, m), Newest(new.rows, t, limit)
  PROVE  Holds(new, rows, P, req, limit, N, m)
<1> DEFINE old == page.rows
           len == Len(old)
<1>0. n \in Nat /\ n + 1 \in P
  OBVIOUS
<1>1. /\ old \in Seq(Items(rows, P, N)) /\ len \in Nat /\ len <= limit
      /\ Len(t) = len + 1 /\ t[len + 1] = Item(rows, P, m)
      /\ \A i \in 1 .. len : t[i] = old[i]
  BY DEF Holds, Longer
<1>2. /\ Item(rows, P, m).ordinal = Ordinal(P, m) /\ Ordinal(P, m) = Ordinal(P, n) + 1
      /\ Ordinal(P, m) \in Nat /\ Ordinal(P, n) \in Nat
  <2>1. Ordinal(P, n + 1) = Ordinal(P, n) + 1
    BY <1>0, OrdinalSteps
  <2> QED
    BY <2>1, UptoIsFinite DEF Item
<1>3. old # <<>> => old[len].ordinal = Ordinal(P, n)
  BY NextToThePage
<1>4. old # <<>> <=> len # 0
  BY <1>1
<1>5. \A k : k \in Matching(rows, P, req, m) <=> k \in Matching(rows, P, req, n) \/ k = m
  BY <1>0, OneNew
<1>6. \A i \in 1 .. len : /\ old[i].ordinal = old[1].ordinal + (i - 1)
                         /\ \E k \in Matching(rows, P, req, n) : old[i] = Item(rows, P, k)
  BY DEF Holds
<1>7. \A k \in Matching(rows, P, req, n) :
        /\ old # <<>>
        /\ IF req.kind = "after"
             THEN /\ old[1].ordinal <= Ordinal(P, k)
                  /\ len < limit => Ordinal(P, k) <= old[len].ordinal
             ELSE Ordinal(P, k) <= old[len].ordinal
  BY DEF Holds
<1>8. /\ \A k : Ordinal(P, k) \in Nat
      /\ \A k \in Matching(rows, P, req, n) : Ordinal(P, k) <= Ordinal(P, n)
  <2>1. \A k \in Matching(rows, P, req, n) : k \in Nat /\ k <= n
    BY DEF Matching
  <2> QED
    BY <2>1, UptoIsFinite, OrdinalsGrow, n \in Nat
<1>9. \A i \in 1 .. len : old[i].ordinal \in Nat
  <2>1. \A k : Item(rows, P, k).ordinal \in Nat
    BY <1>8 DEF Item
  <2> QED
    BY <1>6, <2>1
<1> HIDE DEF old, len
<1>10. \A i \in 1 .. len + 1 : /\ t[i].ordinal = t[1].ordinal + (i - 1)
                              /\ t[i].ordinal \in Nat
                              /\ \E k \in Matching(rows, P, req, m) : t[i] = Item(rows, P, k)
  <2> SUFFICES ASSUME NEW i \in 1 .. len + 1
               PROVE  /\ t[i].ordinal = t[1].ordinal + (i - 1) /\ t[i].ordinal \in Nat
                      /\ \E k \in Matching(rows, P, req, m) : t[i] = Item(rows, P, k)
    OBVIOUS
  <2>1. CASE i \in 1 .. len
    <3>1. t[i] = old[i] /\ t[1] = old[1]
      BY <1>1, <2>1
    <3> QED
      BY <1>5, <1>6, <1>9, <2>1, <3>1
  <2>2. CASE i = len + 1
    <3>1. t[i] = Item(rows, P, m) /\ m \in Matching(rows, P, req, m)
      BY <1>1, <1>5, <2>2
    <3>2. CASE len = 0
      BY <1>2, <1>8, <2>2, <3>1, <3>2
    <3>3. CASE len # 0
      <4>1. len \in 1 .. len /\ t[1] = old[1]
        BY <1>1, <3>3
      <4>2. old[1].ordinal + (len - 1) = Ordinal(P, n)
        BY <1>3, <1>4, <1>6, <3>3, <4>1
      <4>3. old[1].ordinal \in Nat
        BY <1>1, <1>9, <3>3
      <4> QED
        <5>1. t[i].ordinal = old[1].ordinal + (len - 1) + 1
          BY <1>2, <3>1, <4>2
        <5>2. t[i].ordinal = t[1].ordinal + (i - 1)
          <6>1. (old[1].ordinal + (len - 1)) + 1 = old[1].ordinal + ((len + 1) - 1)
            BY <1>1, <4>3, SumsAgree
          <6> QED
            BY <2>2, <4>1, <5>1, <6>1
        <5> QED
          BY <1>2, <3>1, <5>2
    <3> QED
      BY <3>2, <3>3
  <2> QED
    BY <1>1, <2>1, <2>2
<1> DEFINE ord == Ordinal(P, n)
<1>11. t[len + 1].ordinal = ord + 1 /\ Ordinal(P, m) = ord + 1 /\ ord \in Nat
  BY <1>1, <1>2
<1>14. \A k \in Matching(rows, P, req, m) : Ordinal(P, k) \in Nat /\ Ordinal(P, k) <= ord + 1
  <2>1. \A k \in Matching(rows, P, req, n) : Ordinal(P, k) <= ord
    BY <1>8
  <2> QED
    BY <1>5, <1>8, <1>11, <2>1
<1> HIDE DEF ord
<1>12. CASE Len(t) <= limit
  <2>1. new.rows = t
    BY <1>1, <1>12 DEF Newest
  <2>2. ASSUME NEW k \in Matching(rows, P, req, m)
        PROVE  /\ t[1].ordinal <= Ordinal(P, k) \/ req.kind # "after"
               /\ Ordinal(P, k) <= t[len + 1].ordinal
    <3>0. Ordinal(P, k) <= t[len + 1].ordinal
      BY <1>11, <1>14
    <3>1. CASE k = m
      <4>1. t[1].ordinal <= t[len + 1].ordinal
        <5>1. 1 \in 1 .. len + 1 /\ len + 1 \in 1 .. len + 1
          BY <1>1
        <5>2. t[1].ordinal \in Nat /\ t[len + 1].ordinal = t[1].ordinal + ((len + 1) - 1)
          BY <1>10, <5>1
        <5> QED
          BY <1>1, <5>2, SumsAgree
      <4> QED
        BY <1>11, <3>0, <3>1, <4>1
    <3>2. CASE k \in Matching(rows, P, req, n)
      <4>1. old # <<>> /\ len # 0 /\ t[1] = old[1]
        BY <1>1, <1>4, <1>7, <3>2
      <4> QED
        BY <1>7, <3>0, <3>2, <4>1
    <3> QED
      BY <1>5, <3>1, <3>2
  <2>3. t # <<>> /\ Len(new.rows) = len + 1
    <3>1. t # <<>>
      <4> SUFFICES ASSUME t = <<>> PROVE FALSE
        OBVIOUS
      <4>1. Len(t) = 0
        OBVIOUS
      <4> QED
        BY <1>1, <4>1
    <3> QED
      BY <1>1, <2>1, <3>1
  <2> QED
    BY <1>1, <1>10, <1>12, <2>1, <2>2, <2>3 DEF Holds
<1>13. CASE Len(t) > limit
  <2> DEFINE u == Tail(t)
  <2>1. /\ new.rows = u /\ u \in Seq(Items(rows, P, N)) /\ Len(u) = len
        /\ \A i \in 1 .. len : u[i] = t[i + 1]
    BY <1>1, <1>13 DEF Newest
  <2>2. len = limit /\ len # 0 /\ req.kind # "after"
    BY <1>1, <1>13 DEF len, old
  <2> HIDE DEF u
  <2>3. ASSUME NEW i \in 1 .. len
        PROVE  /\ u[i].ordinal = u[1].ordinal + (i - 1)
               /\ \E k \in Matching(rows, P, req, m) : u[i] = Item(rows, P, k)
    <3>1. u[i] = t[i + 1] /\ u[1] = t[2] /\ i + 1 \in 1 .. len + 1 /\ 2 \in 1 .. len + 1
          /\ 1 \in 1 .. len + 1
      BY <1>1, <2>1, <2>2
    <3>2. /\ t[i + 1].ordinal = t[1].ordinal + ((i + 1) - 1)
          /\ t[2].ordinal = t[1].ordinal + (2 - 1) /\ t[1].ordinal \in Nat
      BY <1>10, <3>1
    <3>3. u[i].ordinal = u[1].ordinal + (i - 1)
      <4>1. t[1].ordinal + ((i + 1) - 1) = (t[1].ordinal + (2 - 1)) + (i - 1)
        BY <3>2, i \in Nat, SumsAgree
      <4> QED
        BY <3>1, <3>2, <4>1
    <3> QED
      BY <1>10, <3>1, <3>3
  <2>4. u[len] = t[len + 1] /\ u # <<>>
    BY <1>1, <2>1, <2>2
  <2>5. \A k \in Matching(rows, P, req, m) : Ordinal(P, k) <= u[len].ordinal
    BY <1>11, <1>14, <2>4
  <2> QED
    BY <1>1, <2>1, <2>2, <2>3, <2>4, <2>5 DEF Holds
<1> QED
  BY <1>1, <1>12, <1>13

(* What a page is once all rows have been read.                            *)
Step(g, rows, P, req, limit, n) ==
  IF n = 0 THEN NoPage
  ELSE IF n \in P THEN ExtendPage(g[n - 1], rows[n], req, limit)
  ELSE g[n - 1]
IsPage(f, rows, P, req, limit, m) == f = [n \in 0 .. m |-> Step(f, rows, P, req, limit, n)]

LEMMA PagesExist ==
  ASSUME NEW rows, NEW P, NEW req, NEW limit
  PROVE  \A m \in Nat : \E f : IsPage(f, rows, P, req, limit, m)
<1> DEFINE T == {m \in Nat : \E f : IsPage(f, rows, P, req, limit, m)}
<1>1. 0 \in T
  <2>1. IsPage([n \in 0 .. 0 |-> NoPage], rows, P, req, limit, 0)
    BY DEF IsPage, Step
  <2> QED
    BY <2>1
<1>2. ASSUME NEW m \in T PROVE m + 1 \in T
  <2>1. PICK f : IsPage(f, rows, P, req, limit, m)
    BY <1>2
  <2> DEFINE g == [n \in 0 .. m + 1 |-> IF n = m + 1 THEN Step(f, rows, P, req, limit, n) ELSE f[n]]
  <2>2. ASSUME NEW n \in 0 .. m + 1 PROVE g[n] = Step(g, rows, P, req, limit, n)
    <3>1. CASE n = 0
      BY <2>1, <3>1 DEF IsPage, Step
    <3>2. CASE n # 0
      <4>1. g[n - 1] = f[n - 1]
        BY <3>2
      <4>2. Step(g, rows, P, req, limit, n) = Step(f, rows, P, req, limit, n)
        BY <4>1 DEF Step
      <4>3. n # m + 1 => f[n] = Step(f, rows, P, req, limit, n)
        BY <2>1 DEF IsPage
      <4> QED
        BY <4>2, <4>3
    <3> QED
      BY <3>1, <3>2
  <2>3. IsPage(g, rows, P, req, limit, m + 1)
    BY <2>2 DEF IsPage
  <2> HIDE DEF g
  <2> QED
    BY <2>3
<1> HIDE DEF T
<1>3. \A m \in Nat : m \in T
  BY <1>1, <1>2, SetInduction DEF T
<1> QED
  BY <1>3 DEF T

LEMMA RowRead ==
  ASSUME NEW N \in Nat, NEW P \in SUBSET (1 .. N), NEW rows, RowsOk(rows, N),
         NEW req \in Requests, NEW limit \in Nat \ {0}, NEW n \in 0 .. N - 1, NEW m \in Nat, m = n + 1,
         NEW page, Holds(page, rows, P, req, limit, N, n), m \in P
  PROVE  Holds(ExtendPage(page, rows[m], req, limit), rows, P, req, limit, N, m)
<1> DEFINE new == ExtendPage(page, rows[m], req, limit)
           t == Append(page.rows, Item(rows, P, m))
<1>0. n \in Nat /\ n + 1 \in P /\ m \in 1 .. N
  OBVIOUS
<1>1. page.matched + 1 = Ordinal(P, m)
  <2>1. page.matched = Ordinal(P, n)
    BY DEF Holds
  <2>2. Ordinal(P, n + 1) = Ordinal(P, n) + 1
    BY <1>0, OrdinalSteps
  <2> QED
    BY <2>1, <2>2
<1>2. t = Append(page.rows, [ordinal |-> page.matched + 1, row |-> rows[m]])
  BY <1>1 DEF Item
<1>3. /\ new.matched = Ordinal(P, m)
      /\ new.rows = IF ~RequestMatches(req, rows[m].seq) THEN page.rows
                    ELSE IF req.kind = "after" THEN IF Len(page.rows) < limit THEN t ELSE page.rows
                    ELSE IF Len(t) > limit THEN Tail(t) ELSE t
  BY <1>1, <1>2 DEF ExtendPage
<1>4. page.rows \in Seq(Items(rows, P, N)) /\ Item(rows, P, m) \in Items(rows, P, N)
  BY <1>0 DEF Holds, Items
<1>5. t \in Seq(Items(rows, P, N)) /\ Len(t) = Len(page.rows) + 1 /\ Len(page.rows) \in Nat
  BY <1>4
<1>9. Longer(t, page.rows, Item(rows, P, m))
  BY DEF Longer
<1> HIDE DEF new, t
<1>6. CASE ~RequestMatches(req, rows[m].seq)
  BY <1>0, <1>3, <1>6, RowPasses DEF new
<1>7. CASE RequestMatches(req, rows[m].seq) /\ (req.kind = "after" => Len(page.rows) < limit)
  <2>1. Newest(new.rows, t, limit)
    BY <1>3, <1>5, <1>7 DEF Newest
  <2>2. Holds(new, rows, P, req, limit, N, m)
    <3>1. new.matched = Ordinal(P, m) /\ t \in Seq(Items(rows, P, N)) /\ RequestMatches(req, rows[m].seq)
      BY <1>3, <1>5, <1>7
    <3>2. req.kind = "after" => Len(page.rows) < limit
      BY <1>7
    <3> QED
      BY <1>9, <2>1, <3>1, <3>2, RowIsTaken
  <2> QED
    BY <2>2 DEF new
<1>8. CASE RequestMatches(req, rows[m].seq) /\ req.kind = "after" /\ ~(Len(page.rows) < limit)
  <2>1. new.rows = page.rows
    BY <1>3, <1>8
  <2>2. \A k : k \in Matching(rows, P, req, m) <=> k \in Matching(rows, P, req, n) \/ k = m
    BY <1>0, <1>8, OneNew
  <2>3. page.rows # <<>> /\ 1 \in 1 .. Len(page.rows)
    <3>1. Len(page.rows) # 0
      BY <1>5, <1>8
    <3> QED
      BY <1>5, <3>1
  <2>4. page.rows[1].ordinal <= Ordinal(P, m)
    <3>1. PICK k \in Matching(rows, P, req, n) : page.rows[1] = Item(rows, P, k)
      BY <2>3 DEF Holds
    <3>2. k \in P /\ k \in Nat /\ k <= m
      BY DEF Matching
    <3>3. Ordinal(P, k) <= Ordinal(P, m)
      BY <3>2, OrdinalsGrow
    <3>4. Item(rows, P, k).ordinal = Ordinal(P, k)
      BY DEF Item
    <3> QED
      BY <3>1, <3>3, <3>4
  <2>5. \A i \in 1 .. Len(new.rows) :
          /\ new.rows[i].ordinal = new.rows[1].ordinal + (i - 1)
          /\ \E k \in Matching(rows, P, req, m) : new.rows[i] = Item(rows, P, k)
    BY <2>1, <2>2 DEF Holds
  <2>6. ASSUME NEW k \in Matching(rows, P, req, m)
        PROVE  new.rows[1].ordinal <= Ordinal(P, k)
    BY <1>8, <2>1, <2>2, <2>4 DEF Holds
  <2>7. Holds(new, rows, P, req, limit, N, m)
    BY <1>3, <1>8, <2>1, <2>3, <2>5, <2>6 DEF Holds
  <2> QED
    BY <2>7 DEF new
<1> QED
  BY <1>6, <1>7, <1>8

LEMMA PageHolds ==
  ASSUME NEW N \in Nat, NEW P \in SUBSET (1 .. N), NEW rows, RowsOk(rows, N),
         NEW req \in Requests, NEW limit \in Nat \ {0}
  PROVE  Holds(PageOf(rows, P, req, limit), rows, P, req, limit, N, N)
<1> DEFINE f == CHOOSE g : IsPage(g, rows, P, req, limit, N)
<1>1. IsPage(f, rows, P, req, limit, N)
  BY PagesExist
<1>2. PageOf(rows, P, req, limit) = f[N]
  BY DEF PageOf, IsPage, Step, RowsOk
<1> HIDE DEF f
<1> DEFINE T == {n \in Nat : n <= N => Holds(f[n], rows, P, req, limit, N, n)}
<1>3. 0 \in T
  <2>1. f[0] = NoPage
    BY <1>1 DEF IsPage, Step
  <2>2. NoPage.rows = <<>> /\ NoPage.matched = 0 /\ Len(<<>>) = 0
    BY DEF NoPage
  <2>3. Ordinal(P, 0) = 0 /\ Matching(rows, P, req, 0) = {}
    <3>1. \A k \in P : ~(k <= 0)
      OBVIOUS
    <3> QED
      BY <3>1, OrdinalSteps DEF Matching
  <2>4. Holds(f[0], rows, P, req, limit, N, 0)
    BY <2>1, <2>2, <2>3 DEF Holds
  <2> QED
    BY <2>4
<1>4. ASSUME NEW n \in T PROVE n + 1 \in T
  <2> SUFFICES ASSUME n + 1 <= N PROVE Holds(f[n + 1], rows, P, req, limit, N, n + 1)
    OBVIOUS
  <2> DEFINE m == n + 1
  <2>1. n \in Nat /\ n \in 0 .. N - 1 /\ m \in 0 .. N /\ m \in Nat /\ m # 0 /\ m - 1 = n
    OBVIOUS
  <2>2. Holds(f[n], rows, P, req, limit, N, n)
    BY <1>4, <2>1
  <2>3. f[m] = Step(f, rows, P, req, limit, m)
    BY <1>1, <2>1 DEF IsPage
  <2>4. f[m] = IF m \in P THEN ExtendPage(f[n], rows[m], req, limit) ELSE f[n]
    BY <2>1, <2>3 DEF Step
  <2>5. CASE m \in P
    BY <2>1, <2>2, <2>4, <2>5, RowRead
  <2>6. CASE m \notin P
    <3>1. f[n].matched = Ordinal(P, m)
      BY <2>1, <2>2, <2>6, OrdinalSteps DEF Holds
    <3> QED
      BY <2>1, <2>2, <2>4, <2>6, <3>1, RowPasses
  <2> QED
    BY <2>5, <2>6
<1> HIDE DEF T
<1>5. N \in T
  BY <1>3, <1>4, SetInduction DEF T
<1> QED
  BY <1>2, <1>5 DEF T

-----------------------------------------------------------------------------
(* What is answered of a page: its ends, and what lies outside.            *)

AnswerSound(a, rows, P, req, N) ==
  /\ a.matched = Ordinal(P, N)
  /\ a.events = <<>> <=> Matching(rows, P, req, N) = {}
  /\ a.events # <<>> =>
       \E j, k \in Matching(rows, P, req, N) :
         /\ Head(a.events) = rows[j] /\ a.start = Ordinal(P, j)
         /\ Last(a.events) = rows[k] /\ a.end = Ordinal(P, k)
         /\ a.end - a.start + 1 = Len(a.events)
         /\ a.moreBefore = (a.start > 1) /\ a.moreAfter = (a.end < a.matched)
         /\ IF req.kind = "after"
              THEN \A i \in Matching(rows, P, req, N) : a.start <= Ordinal(P, i)
              ELSE \A i \in Matching(rows, P, req, N) : Ordinal(P, i) <= a.end

LEMMA AnswerIsSound ==
  ASSUME NEW N \in Nat, NEW P \in SUBSET (1 .. N), NEW rows, RowsOk(rows, N),
         NEW req \in Requests, NEW limit \in Nat \ {0}
  PROVE  AnswerSound(Answer(PageOf(rows, P, req, limit)), rows, P, req, N)
<1> DEFINE page == PageOf(rows, P, req, limit)
           s == page.rows
           len == Len(s)
           a == Answer(page)
           M == Matching(rows, P, req, N)
<1>1. /\ page.matched = Ordinal(P, N)
      /\ s \in Seq(Items(rows, P, N)) /\ len <= limit
      /\ \A i \in 1 .. len : /\ s[i].ordinal = s[1].ordinal + (i - 1)
                             /\ \E k \in M : s[i] = Item(rows, P, k)
      /\ \A k \in M : /\ s # <<>>
                      /\ IF req.kind = "after" THEN s[1].ordinal <= Ordinal(P, k)
                         ELSE Ordinal(P, k) <= s[len].ordinal
  <2>1. Holds(page, rows, P, req, limit, N, N)
    BY PageHolds
  <2> HIDE DEF page
  <2> QED
    BY <2>1 DEF Holds
<1>2. len \in Nat /\ DOMAIN s = 1 .. len /\ (s = <<>> <=> len = 0)
  BY <1>1
<1>3. /\ a.matched = page.matched
      /\ a.events = [i \in 1 .. len |-> s[i].row]
      /\ s # <<>> => /\ a.start = Head(s).ordinal /\ a.end = Last(s).ordinal
                     /\ a.moreBefore = (a.start > 1) /\ a.moreAfter = (a.end < a.matched)
  BY <1>2 DEF Answer
<1> HIDE DEF page, a, M
<1>4. /\ Len(a.events) = len /\ (a.events = <<>> <=> s = <<>>)
      /\ \A i \in 1 .. len : a.events[i] = s[i].row
  <2>1. a.events \in Seq({s[i].row : i \in 1 .. len}) /\ Len(a.events) = len
    BY <1>2, <1>3
  <2> QED
    BY <1>2, <1>3, <2>1
<1>5. s = <<>> <=> M = {}
  <2>1. s # <<>> => \E k \in M : TRUE
    <3> SUFFICES ASSUME s # <<>> PROVE \E k \in M : TRUE
      OBVIOUS
    <3>1. 1 \in 1 .. len
      BY <1>2
    <3> QED
      BY <1>1, <3>1
  <2> QED
    BY <1>1, <2>1
<1>6. ASSUME a.events # <<>>
      PROVE  \E j, k \in M :
               /\ Head(a.events) = rows[j] /\ a.start = Ordinal(P, j)
               /\ Last(a.events) = rows[k] /\ a.end = Ordinal(P, k)
               /\ a.end - a.start + 1 = Len(a.events)
               /\ a.moreBefore = (a.start > 1) /\ a.moreAfter = (a.end < a.matched)
               /\ IF req.kind = "after" THEN \A i \in M : a.start <= Ordinal(P, i)
                  ELSE \A i \in M : Ordinal(P, i) <= a.end
  <2>1. s # <<>> /\ len # 0 /\ 1 \in 1 .. len /\ len \in 1 .. len
    BY <1>2, <1>4, <1>6
  <2>2. PICK j \in M : s[1] = Item(rows, P, j)
    BY <1>1, <2>1
  <2>3. PICK k \in M : s[len] = Item(rows, P, k)
    BY <1>1, <2>1
  <2>4. /\ Item(rows, P, j).ordinal = Ordinal(P, j) /\ Item(rows, P, j).row = rows[j]
        /\ Item(rows, P, k).ordinal = Ordinal(P, k) /\ Item(rows, P, k).row = rows[k]
    BY DEF Item
  <2>5. Head(s) = s[1] /\ Last(s) = s[len]
    BY <1>1, <2>1 DEF Last
  <2>6. Head(a.events) = rows[j] /\ Last(a.events) = rows[k]
    <3>1. Head(a.events) = a.events[1] /\ Last(a.events) = a.events[len]
      BY <1>3, <1>4, <2>1 DEF Last
    <3> QED
      BY <1>4, <2>1, <2>2, <2>3, <2>4, <3>1
  <2>7. a.start = Ordinal(P, j) /\ a.end = Ordinal(P, k)
    BY <1>3, <2>1, <2>2, <2>3, <2>4, <2>5
  <2>8. a.end - a.start + 1 = Len(a.events)
    <3>1. Ordinal(P, k) = Ordinal(P, j) + (len - 1)
      BY <1>1, <2>1, <2>2, <2>3, <2>4
    <3>2. Ordinal(P, j) \in Nat
      BY UptoIsFinite
    <3> QED
      BY <1>2, <1>4, <2>7, <3>1, <3>2
  <2>9. IF req.kind = "after" THEN \A i \in M : a.start <= Ordinal(P, i)
        ELSE \A i \in M : Ordinal(P, i) <= a.end
    BY <1>1, <2>2, <2>3, <2>4, <2>7
  <2> QED
    BY <1>3, <2>1, <2>6, <2>7, <2>8, <2>9
<1>7. AnswerSound(a, rows, P, req, N)
  BY <1>1, <1>3, <1>4, <1>5, <1>6 DEF AnswerSound, M
<1> QED
  BY <1>7 DEF a, page

(* The rows before a row of the page, and behind one.                      *)
LEMMA Neighbours ==
  ASSUME NEW N \in Nat, NEW P \in SUBSET (1 .. N), NEW rows, RowsOk(rows, N), NEW k \in P
  PROVE  /\ \A i : i \in Matching(rows, P, Before(rows[k].seq), N) <=> i \in P /\ i < k
         /\ \A i : i \in Matching(rows, P, After(rows[k].seq), N) <=> i \in P /\ i > k
         /\ Before(rows[k].seq) \in Requests /\ Before(rows[k].seq).kind = "before"
         /\ After(rows[k].seq) \in Requests /\ After(rows[k].seq).kind = "after"
<1>1. \A i \in 1 .. N : /\ rows[i].seq \in Nat
                        /\ i < k => rows[i].seq < rows[k].seq
                        /\ i > k => rows[k].seq < rows[i].seq
  BY DEF RowsOk
<1>2. \A i \in P : i \in 1 .. N /\ i \in Nat /\ i <= N /\ k \in 1 .. N
  OBVIOUS
<1>3. \A n : RequestMatches(Before(rows[k].seq), n) <=> n < rows[k].seq
  BY DEF RequestMatches, Before
<1>4. \A n : RequestMatches(After(rows[k].seq), n) <=> n > rows[k].seq
  BY DEF RequestMatches, After
<1>5. \A i \in P : /\ rows[i].seq < rows[k].seq <=> i < k
                   /\ rows[i].seq > rows[k].seq <=> i > k
  BY <1>1, <1>2
<1>6. /\ Before(rows[k].seq) \in Requests /\ Before(rows[k].seq).kind = "before"
      /\ After(rows[k].seq) \in Requests /\ After(rows[k].seq).kind = "after"
  BY <1>1, <1>2 DEF Before, After, Requests
<1> QED
  BY <1>2, <1>3, <1>4, <1>5, <1>6 DEF Matching

LEMMA PagesJoin ==
  ASSUME NEW N \in Nat, NEW P \in SUBSET (1 .. N), NEW rows, RowsOk(rows, N),
         NEW req \in Requests, NEW a, AnswerSound(a, rows, P, req, N), a.events # <<>>,
         NEW prev, AnswerSound(prev, rows, P, Before(Head(a.events).seq), N),
         NEW next, AnswerSound(next, rows, P, After(Last(a.events).seq), N)
  PROVE  Joined(a, prev, next, N)
<1> DEFINE O(i) == Ordinal(P, i)
<1>1. PICK j, k \in Matching(rows, P, req, N) :
        /\ Head(a.events) = rows[j] /\ a.start = O(j)
        /\ Last(a.events) = rows[k] /\ a.end = O(k)
        /\ a.end - a.start + 1 = Len(a.events)
        /\ a.moreBefore = (a.start > 1) /\ a.moreAfter = (a.end < a.matched)
  BY DEF AnswerSound
<1>2. j \in P /\ k \in P /\ j \in Nat /\ k \in Nat /\ k <= N
  BY DEF Matching
<1>3. \A i : O(i) \in Nat
  BY UptoIsFinite
<1> HIDE DEF O
<1>4. a.matched = O(N) /\ prev.matched = O(N) /\ next.matched = O(N) /\ O(N) <= N
  <2>1. Cardinality(P) <= Cardinality(1 .. N) /\ Cardinality(1 .. N) = N
    <3>1. IsFiniteSet(1 .. N) /\ Cardinality(1 .. N) = N
      BY FS_Interval
    <3> QED
      BY <3>1, FS_Subset
  <2> QED
    BY <2>1, OrdinalSteps DEF O, AnswerSound
<1>5. ASSUME NEW i \in P PROVE i \in Nat /\ i <= N /\ O(i) = O(i - 1) + 1 /\ i - 1 \in Nat
  <2>1. i \in Nat /\ i <= N /\ i - 1 \in Nat
    OBVIOUS
  <2>2. Ordinal(P, i) = Ordinal(P, i - 1) + 1
    BY MemberOrdinals
  <2> QED
    BY <2>1, <2>2 DEF O
<1>6. \A i, l \in P : i < l => O(i) < O(l)
  BY MemberOrdinals DEF O
<1> DEFINE Earlier == Matching(rows, P, Before(rows[j].seq), N)
           Later == Matching(rows, P, After(rows[k].seq), N)
<1>7. \A i : i \in Earlier <=> i \in P /\ i < j
  BY <1>2, Neighbours
<1>8. \A i : i \in Later <=> i \in P /\ i > k
  BY <1>2, Neighbours
<1>9. /\ prev.events = <<>> <=> Earlier = {}
      /\ prev.events # <<>> => \E i \in Earlier : prev.end = O(i) /\ \A l \in Earlier : O(l) <= prev.end
  <2>1. AnswerSound(prev, rows, P, Before(rows[j].seq), N)
    BY <1>1
  <2>2. Before(rows[j].seq).kind # "after"
    BY <1>2, Neighbours
  <2> QED
    BY <2>1, <2>2 DEF AnswerSound, O
<1>10. /\ next.events = <<>> <=> Later = {}
       /\ next.events # <<>> => \E i \in Later : next.start = O(i) /\ \A l \in Later : next.start <= O(l)
  <2>1. AnswerSound(next, rows, P, After(rows[k].seq), N)
    BY <1>1
  <2>2. After(rows[k].seq).kind = "after"
    BY DEF After
  <2> QED
    BY <2>1, <2>2 DEF AnswerSound, O
<1> HIDE DEF Earlier, Later
<1>11. ASSUME O(j) > 1 PROVE \E i \in Earlier : O(i) = O(j) - 1
  <2>1. O(j - 1) = O(j) - 1 /\ 0 < O(j - 1) /\ j - 1 \in Nat
    <3>1. O(j) = O(j - 1) + 1 /\ j - 1 \in Nat
      BY <1>2, <1>5
    <3>2. O(j) \in Nat /\ O(j - 1) \in Nat
      BY <1>3
    <3> QED
      BY <1>11, <3>1, <3>2
  <2>2. PICK i \in P : i <= j - 1 /\ O(i) = O(j - 1)
    <3>1. Ordinal(P, j - 1) # 0
      BY <1>3, <2>1 DEF O
    <3>2. \E i \in P : i <= j - 1 /\ Ordinal(P, i) = Ordinal(P, j - 1)
      BY <2>1, <3>1, LastMember
    <3> QED
      BY <3>2 DEF O
  <2>3. i < j
    BY <1>2, <1>5, <2>2
  <2> QED
    BY <1>7, <2>1, <2>2, <2>3
<1>12. ASSUME O(k) < O(N) PROVE \E i \in Later : O(i) = O(k) + 1
  <2>1. PICK i \in P : k < i /\ O(i) = O(k) + 1
    BY <1>2, <1>12, OrdinalOfMember DEF O
  <2>2. i > k
    BY <1>2, <1>5, <2>1
  <2> QED
    BY <1>8, <2>1, <2>2
<1>13. /\ (O(j) > 1) = (prev.events # <<>>)
       /\ O(j) > 1 => prev.end = O(j) - 1
  <2>1. ASSUME prev.events # <<>> PROVE O(j) > 1 /\ prev.end = O(j) - 1
    <3>1. PICK i \in Earlier : prev.end = O(i) /\ \A l \in Earlier : O(l) <= prev.end
      BY <1>9, <2>1
    <3>2. i \in P /\ i < j /\ O(i) < O(j) /\ O(i) \in Nat /\ O(i) >= 1 /\ O(j) \in Nat
      <4>1. i \in P /\ i < j
        BY <1>7, <3>1
      <4>2. O(i) = O(i - 1) + 1
        BY <1>5, <4>1
      <4>3. O(i - 1) \in Nat /\ O(i) \in Nat /\ O(j) \in Nat
        BY <1>3
      <4> QED
        BY <1>2, <1>6, <4>1, <4>2, <4>3
    <3>3. O(j) > 1
      BY <3>2
    <3>4. PICK l \in Earlier : O(l) = O(j) - 1
      BY <1>11, <3>3
    <3> QED
      BY <3>1, <3>2, <3>3, <3>4
  <2>2. ASSUME O(j) > 1 PROVE prev.events # <<>>
    BY <1>9, <1>11, <2>2
  <2>3. O(j) > 1 <=> prev.events # <<>>
    BY <2>1, <2>2
  <2> QED
    BY <2>1, <2>3
<1>14. /\ (O(k) < O(N)) = (next.events # <<>>)
       /\ O(k) < O(N) => next.start = O(k) + 1
  <2>1. ASSUME next.events # <<>> PROVE O(k) < O(N) /\ next.start = O(k) + 1
    <3>1. PICK i \in Later : next.start = O(i) /\ \A l \in Later : next.start <= O(l)
      BY <1>10, <2>1
    <3>2. i \in P /\ i > k /\ i \in Nat /\ i <= N /\ k < i
      BY <1>2, <1>5, <1>8, <3>1
    <3>3. O(k) < O(i) /\ O(i) <= O(N)
      <4>1. O(i) <= O(N)
        BY <3>2, OrdinalsGrow DEF O
      <4> QED
        BY <1>2, <1>6, <3>2, <4>1
    <3>4. O(k) \in Nat /\ O(i) \in Nat /\ O(N) \in Nat
      BY <1>3
    <3>5. O(k) < O(N)
      BY <3>3, <3>4
    <3>6. PICK l \in Later : O(l) = O(k) + 1
      BY <1>12, <3>5
    <3> QED
      BY <3>1, <3>3, <3>4, <3>5, <3>6
  <2>2. ASSUME O(k) < O(N) PROVE next.events # <<>>
    BY <1>10, <1>12, <2>2
  <2>3. O(k) < O(N) <=> next.events # <<>>
    BY <2>1, <2>2
  <2> QED
    BY <2>1, <2>3
<1> QED
  BY <1>1, <1>4, <1>13, <1>14 DEF Joined

-----------------------------------------------------------------------------
(* The pages the two servers answer with.                                  *)

LEMMA SamePages ==
  /\ \A rows, P, req, limit : /\ Mcp!PageOf(rows, P, req, limit) = PageOf(rows, P, req, limit)
                              /\ Webui!PageOf(rows, P, req, limit) = PageOf(rows, P, req, limit)
  /\ \A page : Mcp!Answer(page) = Answer(page) /\ Webui!Answer(page) = Answer(page)
  /\ \A b, a : /\ Mcp!PageRequest(b, a) = PageRequest(b, a)
               /\ Webui!PageRequest(b, a) = PageRequest(b, a)
  /\ \A n, low, high : /\ Mcp!Clamp(n, low, high) = Clamp(n, low, high)
                       /\ Webui!Clamp(n, low, high) = Clamp(n, low, high)
<1>1. ASSUME NEW rows, NEW P, NEW req, NEW limit
      PROVE  /\ Mcp!PageOf(rows, P, req, limit) = PageOf(rows, P, req, limit)
             /\ Webui!PageOf(rows, P, req, limit) = PageOf(rows, P, req, limit)
  BY DEF PageOf, NoPage, ExtendPage, RequestMatches,
         Mcp!PageOf, Mcp!NoPage, Mcp!ExtendPage, Mcp!RequestMatches,
         Webui!PageOf, Webui!NoPage, Webui!ExtendPage, Webui!RequestMatches
<1>2. ASSUME NEW page PROVE Mcp!Answer(page) = Answer(page) /\ Webui!Answer(page) = Answer(page)
  BY DEF Answer, Last, None, Mcp!Answer, Mcp!Last, Mcp!None, Webui!Answer, Webui!Last, Webui!None
<1>3. ASSUME NEW b, NEW a
      PROVE  Mcp!PageRequest(b, a) = PageRequest(b, a) /\ Webui!PageRequest(b, a) = PageRequest(b, a)
  BY DEF PageRequest, Before, After, Latest, None,
         Mcp!PageRequest, Mcp!Before, Mcp!After, Mcp!Latest, Mcp!None,
         Webui!PageRequest, Webui!Before, Webui!After, Webui!Latest, Webui!None
<1>4. ASSUME NEW n, NEW low, NEW high
      PROVE  Mcp!Clamp(n, low, high) = Clamp(n, low, high) /\ Webui!Clamp(n, low, high) = Clamp(n, low, high)
  BY DEF Clamp, Max, Min, Mcp!Clamp, Mcp!Max, Mcp!Min, Webui!Clamp, Webui!Max, Webui!Min
<1> QED
  BY <1>1, <1>2, <1>3, <1>4

LEMMA MinMax ==
  ASSUME NEW a \in Int, NEW b \in Int
  PROVE  Max({a, b}) = (IF a > b THEN a ELSE b) /\ Min({a, b}) = (IF a < b THEN a ELSE b)
<1>1. \A x \in {a, b} : x = (IF a > b THEN a ELSE b) <=> \A y \in {a, b} : x >= y
  OBVIOUS
<1>2. \A x \in {a, b} : x = (IF a < b THEN a ELSE b) <=> \A y \in {a, b} : x <= y
  OBVIOUS
<1> QED
  BY <1>1, <1>2 DEF Max, Min

LEMMA ClampIsBetween ==
  ASSUME NEW n \in Int, NEW low \in Int, NEW high \in Int, low <= high
  PROVE  Clamp(n, low, high) \in low .. high /\ (n \in low .. high => Clamp(n, low, high) = n)
<1> DEFINE m == IF n < high THEN n ELSE high
<1>1. Min({n, high}) = m /\ m \in Int
  BY MinMax
<1>2. Max({low, m}) = IF low > m THEN low ELSE m
  BY <1>1, MinMax
<1> QED
  BY <1>1, <1>2 DEF Clamp

(* A question's fields.                                                    *)
AskedFor(p, f, limit, before, after) ==
  /\ p.dir = f.dir /\ p.name = f.name /\ p.since = f.since /\ p.until = f.until /\ p.query = f.query
  /\ p.limit = limit /\ p.before = before /\ p.after = after

LEMMA AskAsks ==
  ASSUME NEW f, NEW limit, NEW before, NEW after
  PROVE  AskedFor(Ask(f, limit, before, after), f, limit, before, after)
<1> DEFINE fields == {"dir", "name", "since", "until", "query"}
           p == Ask(f, limit, before, after)
<1>1. DOMAIN NoFilter = fields
  BY DEF NoFilter
<1>2. \A x \in fields : p[x] = f[x]
  BY <1>1 DEF Ask
<1>3. p.limit = limit /\ p.before = before /\ p.after = after
  BY <1>1 DEF Ask
<1> HIDE DEF p
<1> QED
  BY <1>2, <1>3 DEF AskedFor, p

(* The numbers of the rows a filter lets through.                          *)
McpPassing(f) == {k \in DOMAIN mcp.history : Mcp!FilterMatches(f, Mcp!Row(mcp, mcp.history[k]))}
WebuiPassing(f) == {k \in DOMAIN webui.history : Webui!FilterMatches(f, Webui!Row(webui, webui.history[k]))}

LEMMA PagesAre ==
  ASSUME NEW f, NEW limit, NEW before, NEW after
  PROVE  /\ McpPage(f, limit, before, after) =
              Answer(PageOf(Mcp!Rows(mcp), McpPassing(f), PageRequest(before, after),
                            Clamp(IF limit = None THEN McpDefault ELSE limit, 1, McpMax)))
         /\ WebuiPage(f, limit, before, after) =
              Answer(PageOf(Webui!Rows(webui), WebuiPassing(f), PageRequest(before, after),
                            Clamp(IF limit = None THEN WebuiDefault ELSE limit, 1, WebuiMax)))
<1> DEFINE p == Ask(f, limit, before, after)
<1>1. AskedFor(p, f, limit, before, after)
  BY AskAsks
<1> HIDE DEF p
<1>2. \A row : Mcp!FilterMatches(p, row) <=> Mcp!FilterMatches(f, row)
  BY <1>1 DEF AskedFor, Mcp!FilterMatches, Mcp!QueryMatches
<1>3. \A row : Webui!FilterMatches(p, row) <=> Webui!FilterMatches(f, row)
  BY <1>1 DEF AskedFor, Webui!FilterMatches, Webui!NeedleMatches
<1>4. /\ {k \in DOMAIN mcp.history : Mcp!FilterMatches(p, Mcp!Row(mcp, mcp.history[k]))} = McpPassing(f)
      /\ {k \in DOMAIN webui.history : Webui!FilterMatches(p, Webui!Row(webui, webui.history[k]))}
           = WebuiPassing(f)
  BY <1>2, <1>3 DEF McpPassing, WebuiPassing
<1>5. /\ Mcp!Limit(p) = Clamp(IF limit = None THEN McpDefault ELSE limit, 1, McpMax)
      /\ Webui!Limit(p) = Clamp(IF limit = None THEN WebuiDefault ELSE limit, 1, WebuiMax)
  BY <1>1, SamePages, SameRows DEF AskedFor, Mcp!Limit, Webui!Limit
<1>6. p.before = before /\ p.after = after
  BY <1>1 DEF AskedFor
<1>7. Mcp!Events(mcp, p).page = Answer(Mcp!Select(mcp, p))
  BY SamePages DEF Mcp!Events
<1>8. Webui!Snapshot(webui, p).page = Answer(Webui!Select(webui, p))
  BY SamePages DEF Webui!Snapshot
<1>9. Mcp!Select(mcp, p) =
        PageOf(Mcp!Rows(mcp), McpPassing(f), PageRequest(before, after),
               Clamp(IF limit = None THEN McpDefault ELSE limit, 1, McpMax))
  BY <1>4, <1>5, <1>6, SamePages DEF Mcp!Select
<1>10. Webui!Select(webui, p) =
        PageOf(Webui!Rows(webui), WebuiPassing(f), PageRequest(before, after),
               Clamp(IF limit = None THEN WebuiDefault ELSE limit, 1, WebuiMax))
  BY <1>4, <1>5, <1>6, SamePages DEF Webui!Select
<1> QED
  BY <1>7, <1>8, <1>9, <1>10 DEF McpPage, WebuiPage, p

LEMMA RowsAreOk ==
  ASSUME RowsInv
  PROVE  /\ Len(mcp.history) \in Nat /\ DOMAIN mcp.history = 1 .. Len(mcp.history)
         /\ RowsOk(Mcp!Rows(mcp), Len(mcp.history))
         /\ Len(webui.history) \in Nat /\ DOMAIN webui.history = 1 .. Len(webui.history)
         /\ RowsOk(Webui!Rows(webui), Len(webui.history))
<1>1. ASSUME NEW h \in Told, NEW rows, DOMAIN rows = DOMAIN h,
             \A k \in DOMAIN h : rows[k].seq = h[k].seq,
             rows = [k \in DOMAIN h |-> rows[k]]
      PROVE  Len(h) \in Nat /\ DOMAIN h = 1 .. Len(h) /\ RowsOk(rows, Len(h))
  <2>1. h \in Seq(Events) /\ Ordered(Told, emitted)
    BY DEF RowsInv, IdsInv, BinderOk
  <2>2. Len(h) \in Nat /\ DOMAIN h = 1 .. Len(h) /\ \A k \in 1 .. Len(h) : h[k] \in Events
    BY <2>1
  <2>3. Len(rows) = Len(h)
    <3>1. rows \in Seq({rows[k] : k \in 1 .. Len(h)})
      BY <1>1, <2>2
    <3> QED
      BY <1>1, <2>2, <3>1
  <2>4. \A j, k \in 1 .. Len(h) : j < k => h[j].seq < h[k].seq
    BY <2>1, <2>2 DEF Ordered
  <2> QED
    BY <1>1, <2>2, <2>3, <2>4 DEF RowsOk, Events
<1>2. \A s, e : Mcp!Row(s, e).seq = e.seq /\ Webui!Row(s, e).seq = e.seq
  BY DEF Mcp!Row, Webui!Row
<1>3. mcp.history \in Told /\ webui.history \in Told
  BY DEF Told
<1>4. /\ Mcp!Rows(mcp) = [k \in DOMAIN mcp.history |-> Mcp!Row(mcp, mcp.history[k])]
      /\ Webui!Rows(webui) = [k \in DOMAIN webui.history |-> Webui!Row(webui, webui.history[k])]
  BY DEF Mcp!Rows, Webui!Rows
<1>5. /\ DOMAIN Mcp!Rows(mcp) = DOMAIN mcp.history
      /\ \A k \in DOMAIN mcp.history : Mcp!Rows(mcp)[k].seq = mcp.history[k].seq
      /\ Mcp!Rows(mcp) = [k \in DOMAIN mcp.history |-> Mcp!Rows(mcp)[k]]
  BY <1>2, <1>4
<1>6. /\ DOMAIN Webui!Rows(webui) = DOMAIN webui.history
      /\ \A k \in DOMAIN webui.history : Webui!Rows(webui)[k].seq = webui.history[k].seq
      /\ Webui!Rows(webui) = [k \in DOMAIN webui.history |-> Webui!Rows(webui)[k]]
  BY <1>2, <1>4
<1> QED
  BY <1>1, <1>3, <1>5, <1>6

LEMMA PagesAreSound ==
  ASSUME RowsInv, NEW f, NEW limit \in {None} \cup Nat, NEW before \in Int, NEW after \in Int
  PROVE  /\ AnswerSound(McpPage(f, limit, before, after), Mcp!Rows(mcp), McpPassing(f),
                        PageRequest(before, after), Len(mcp.history))
         /\ AnswerSound(WebuiPage(f, limit, before, after), Webui!Rows(webui), WebuiPassing(f),
                        PageRequest(before, after), Len(webui.history))
<1>1. PageRequest(before, after) \in Requests
  BY DEF PageRequest, Requests, Before, After, Latest, None
<1>2. ASSUME NEW max \in Nat \ {0}, NEW default \in Nat
      PROVE  Clamp(IF limit = None THEN default ELSE limit, 1, max) \in Nat \ {0}
  <2>1. Clamp(IF limit = None THEN default ELSE limit, 1, max) \in 1 .. max
    BY ClampIsBetween DEF None
  <2> QED
    BY <2>1
<1>3. /\ Clamp(IF limit = None THEN McpDefault ELSE limit, 1, McpMax) \in Nat \ {0}
      /\ Clamp(IF limit = None THEN WebuiDefault ELSE limit, 1, WebuiMax) \in Nat \ {0}
  BY <1>2, RowsAssumption
<1>4. /\ McpPassing(f) \in SUBSET (1 .. Len(mcp.history))
      /\ WebuiPassing(f) \in SUBSET (1 .. Len(webui.history))
  BY RowsAreOk DEF McpPassing, WebuiPassing
<1> QED
  BY <1>1, <1>3, <1>4, RowsAreOk, PagesAre, AnswerIsSound

(* Paging skips nothing and tells nothing twice, with any filter and any   *)
(* limit, and what is said of a page is true of the pages around it.       *)
LEMMA AnyPagesJoin ==
  ASSUME RowsInv, NEW f, NEW limit \in {None} \cup Nat, NEW before \in Int, NEW after \in Int
  PROVE  /\ LET a == McpPage(f, limit, before, after) IN
              a.events # <<>> =>
                Joined(a, McpPage(f, limit, Head(a.events).seq, None),
                       McpPage(f, limit, None, Last(a.events).seq), Len(mcp.history))
         /\ LET a == WebuiPage(f, limit, before, after) IN
              a.events # <<>> =>
                Joined(a, WebuiPage(f, limit, Head(a.events).seq, None),
                       WebuiPage(f, limit, None, Last(a.events).seq), Len(webui.history))
<1>1. ASSUME NEW n, n \in Nat
      PROVE  PageRequest(n, None) = Before(n) /\ PageRequest(None, n) = After(n)
  <2>1. n # None
    BY <1>1 DEF None
  <2> QED
    BY <2>1 DEF PageRequest
<1>2. PageRequest(before, after) \in Requests
  BY DEF PageRequest, Requests, Before, After, Latest, None
<1>3. /\ McpPassing(f) \in SUBSET (1 .. Len(mcp.history))
      /\ WebuiPassing(f) \in SUBSET (1 .. Len(webui.history))
  BY RowsAreOk DEF McpPassing, WebuiPassing
<1>4. None \in Int
  BY DEF None
<1> DEFINE m == McpPage(f, limit, before, after)
           w == WebuiPage(f, limit, before, after)
<1>5. ASSUME m.events # <<>>
      PROVE  Joined(m, McpPage(f, limit, Head(m.events).seq, None),
                    McpPage(f, limit, None, Last(m.events).seq), Len(mcp.history))
  <2>1. AnswerSound(m, Mcp!Rows(mcp), McpPassing(f), PageRequest(before, after), Len(mcp.history))
    BY PagesAreSound
  <2> HIDE DEF m
  <2> DEFINE first == Head(m.events).seq
             last == Last(m.events).seq
  <2>2. /\ first \in Int /\ last \in Int
        /\ PageRequest(first, None) = Before(first) /\ PageRequest(None, last) = After(last)
    <3>1. PICK j, k \in Matching(Mcp!Rows(mcp), McpPassing(f), PageRequest(before, after), Len(mcp.history)) :
            Head(m.events) = Mcp!Rows(mcp)[j] /\ Last(m.events) = Mcp!Rows(mcp)[k]
      BY <1>5, <2>1 DEF AnswerSound
    <3>2. j \in 1 .. Len(mcp.history) /\ k \in 1 .. Len(mcp.history)
      BY <1>3 DEF Matching
    <3>3. first \in Nat /\ last \in Nat
      BY <3>1, <3>2, RowsAreOk DEF RowsOk
    <3> QED
      BY <1>1, <3>3
  <2>3. AnswerSound(McpPage(f, limit, first, None), Mcp!Rows(mcp), McpPassing(f), Before(first),
                    Len(mcp.history))
    <3> HIDE DEF first
    <3> QED
      BY <1>4, <2>2, PagesAreSound
  <2>4. AnswerSound(McpPage(f, limit, None, last), Mcp!Rows(mcp), McpPassing(f), After(last),
                    Len(mcp.history))
    <3> HIDE DEF last
    <3> QED
      BY <1>4, <2>2, PagesAreSound
  <2> QED
    BY <1>2, <1>3, <1>5, <2>1, <2>3, <2>4, RowsAreOk, PagesJoin
<1>6. ASSUME w.events # <<>>
      PROVE  Joined(w, WebuiPage(f, limit, Head(w.events).seq, None),
                    WebuiPage(f, limit, None, Last(w.events).seq), Len(webui.history))
  <2>1. AnswerSound(w, Webui!Rows(webui), WebuiPassing(f), PageRequest(before, after), Len(webui.history))
    BY PagesAreSound
  <2> HIDE DEF w
  <2> DEFINE first == Head(w.events).seq
             last == Last(w.events).seq
  <2>2. /\ first \in Int /\ last \in Int
        /\ PageRequest(first, None) = Before(first) /\ PageRequest(None, last) = After(last)
    <3>1. PICK j, k \in Matching(Webui!Rows(webui), WebuiPassing(f), PageRequest(before, after), Len(webui.history)) :
            Head(w.events) = Webui!Rows(webui)[j] /\ Last(w.events) = Webui!Rows(webui)[k]
      BY <1>6, <2>1 DEF AnswerSound
    <3>2. j \in 1 .. Len(webui.history) /\ k \in 1 .. Len(webui.history)
      BY <1>3 DEF Matching
    <3>3. first \in Nat /\ last \in Nat
      BY <3>1, <3>2, RowsAreOk DEF RowsOk
    <3> QED
      BY <1>1, <3>3
  <2>3. AnswerSound(WebuiPage(f, limit, first, None), Webui!Rows(webui), WebuiPassing(f), Before(first),
                    Len(webui.history))
    <3> HIDE DEF first
    <3> QED
      BY <1>4, <2>2, PagesAreSound
  <2>4. AnswerSound(WebuiPage(f, limit, None, last), Webui!Rows(webui), WebuiPassing(f), After(last),
                    Len(webui.history))
    <3> HIDE DEF last
    <3> QED
      BY <1>4, <2>2, PagesAreSound
  <2> QED
    BY <1>2, <1>3, <1>6, <2>1, <2>3, <2>4, RowsAreOk, PagesJoin
<1> QED
  BY <1>5, <1>6

(* The pages of both servers join up, whatever the filter.                 *)
THEOREM PagesCorrect == Spec => []PagesJoinUp
<1>1. ASSUME RowsInv PROVE PagesJoinUp
  <2>1. \A limit \in {None, 1} : limit \in {None} \cup Nat
    OBVIOUS
  <2>2. \A n \in {None} \cup 1 .. MaxEvents : n \in Int
    BY RowsAssumption DEF None
  <2>3. ASSUME NEW f \in Filters, NEW limit \in {None, 1},
               NEW before \in {None} \cup 1 .. MaxEvents, NEW after \in {None} \cup 1 .. MaxEvents
        PROVE  /\ LET a == McpPage(f, limit, before, after) IN
                    a.events # <<>> =>
                      Joined(a, McpPage(f, limit, Head(a.events).seq, None),
                             McpPage(f, limit, None, Last(a.events).seq), Len(mcp.history))
               /\ LET a == WebuiPage(f, limit, before, after) IN
                    a.events # <<>> =>
                      Joined(a, WebuiPage(f, limit, Head(a.events).seq, None),
                             WebuiPage(f, limit, None, Last(a.events).seq), Len(webui.history))
    <3>1. limit \in {None} \cup Nat /\ before \in Int /\ after \in Int
      BY <2>1, <2>2
    <3> QED
      BY <1>1, <3>1, AnyPagesJoin
  <2> QED
    BY <2>3 DEF PagesJoinUp
<1> QED
  BY <1>1, RowsInvariance, PTL

-----------------------------------------------------------------------------
(* Lists of names, by how often they are shown.                            *)

AheadOf(d, c) == d.count > c.count \/ (d.count = c.count /\ NameLess(d.name, c.name))
Ranked(C, c) == {d \in C : AheadOf(d, c)}
NamePairs == Int \X Int
Counted == [name : NamePairs, count : Nat]

LEMMA AheadIsOrder ==
  /\ \A c \in Counted : ~AheadOf(c, c)
  /\ \A b, c, d \in Counted : AheadOf(b, c) /\ AheadOf(c, d) => AheadOf(b, d)
  /\ \A c, d \in Counted : c.name # d.name => AheadOf(c, d) \/ AheadOf(d, c)
<1>1. \A c \in Counted : c.count \in Nat /\ c.name \in NamePairs /\ c.name[1] \in Int /\ c.name[2] \in Int
  BY DEF Counted, NamePairs
<1>2. \A m, n \in NamePairs : m[1] = n[1] /\ m[2] = n[2] => m = n
  BY DEF NamePairs
<1>3. \A c \in Counted : ~AheadOf(c, c)
  BY <1>1 DEF AheadOf, NameLess
<1>4. \A b, c, d \in Counted : AheadOf(b, c) /\ AheadOf(c, d) => AheadOf(b, d)
  BY <1>1 DEF AheadOf, NameLess
<1>5. \A c, d \in Counted : c.name # d.name => AheadOf(c, d) \/ AheadOf(d, c)
  <2> SUFFICES ASSUME NEW c \in Counted, NEW d \in Counted, c.name # d.name
               PROVE  AheadOf(c, d) \/ AheadOf(d, c)
    OBVIOUS
  <2>1. c.name[1] # d.name[1] \/ c.name[2] # d.name[2]
    BY <1>1, <1>2
  <2> QED
    BY <1>1, <2>1 DEF AheadOf, NameLess
<1> QED
  BY <1>3, <1>4, <1>5

(* Every rank is taken.                                                    *)
LEMMA RanksAreTaken ==
  ASSUME NEW C \in SUBSET Counted, IsFiniteSet(C), \A c, d \in C : c.name = d.name => c = d,
         NEW i \in 0 .. Cardinality(C) - 1
  PROVE  \E c \in C : Cardinality(Ranked(C, c)) = i
<1> DEFINE n == Cardinality(C)
           ranks == 0 .. n - 1
           f == [c \in C |-> Cardinality(Ranked(C, c))]
<1>1. n \in Nat /\ IsFiniteSet(ranks) /\ Cardinality(ranks) = n
  <2>1. n \in Nat
    BY FS_CardinalityType
  <2> QED
    BY <2>1, FS_Interval
<1>2. ASSUME NEW c \in C PROVE IsFiniteSet(Ranked(C, c)) /\ Cardinality(Ranked(C, c)) \in ranks
  <2>1. c \notin Ranked(C, c) /\ Ranked(C, c) \in SUBSET C
    BY AheadIsOrder DEF Ranked
  <2>2. IsFiniteSet(Ranked(C, c)) /\ Cardinality(Ranked(C, c)) <= n /\ Cardinality(Ranked(C, c)) # n
    BY <2>1, FS_Subset
  <2>3. Cardinality(Ranked(C, c)) \in Nat
    BY <2>2, FS_CardinalityType
  <2> QED
    BY <1>1, <2>2, <2>3
<1>3. ASSUME NEW c \in C, NEW d \in C, AheadOf(d, c)
      PROVE  Cardinality(Ranked(C, d)) < Cardinality(Ranked(C, c))
  <2>1. Ranked(C, d) \in SUBSET Ranked(C, c)
    BY <1>3, AheadIsOrder DEF Ranked
  <2>2. d \in Ranked(C, c) /\ d \notin Ranked(C, d)
    BY <1>3, AheadIsOrder DEF Ranked
  <2>3. /\ Cardinality(Ranked(C, d)) <= Cardinality(Ranked(C, c))
        /\ Cardinality(Ranked(C, d)) # Cardinality(Ranked(C, c))
    BY <1>2, <2>1, <2>2, FS_Subset
  <2>4. Cardinality(Ranked(C, d)) \in ranks /\ Cardinality(Ranked(C, c)) \in ranks
    BY <1>2
  <2> QED
    BY <2>3, <2>4
<1>4. ASSUME NEW c \in C, NEW d \in C, c # d PROVE f[c] # f[d]
  <2>1. AheadOf(c, d) \/ AheadOf(d, c)
    BY <1>4, AheadIsOrder
  <2>2. f[c] \in ranks /\ f[d] \in ranks
    BY <1>2
  <2>3. f[c] < f[d] \/ f[d] < f[c]
    BY <1>3, <2>1
  <2> HIDE DEF f
  <2> QED
    BY <2>2, <2>3
<1>5. f \in [C -> ranks]
  BY <1>2
<1> HIDE DEF f
<1>6. f \in Injection(C, ranks)
  BY <1>4, <1>5 DEF Injection, IsInjective
<1> HIDE DEF n, ranks
<1>7. f \in Surjection(C, ranks)
  BY <1>1, <1>6, FS_Injection DEF n
<1> QED
  <2>1. \E c \in C : f[c] = i
    BY <1>7 DEF Surjection, ranks, n
  <2> QED
    BY <2>1 DEF f

CountIn(rows, n) == Cardinality({k \in DOMAIN rows : rows[k].name = n})
CountsIn(rows) == {[name |-> n, count |-> CountIn(rows, n)] : n \in {rows[k].name : k \in DOMAIN rows}}

(* A list of names has every name with its count.                          *)
LEMMA NamesAreCounted ==
  ASSUME NEW N \in Nat, NEW rows, DOMAIN rows = 1 .. N, \A k \in 1 .. N : rows[k].name \in NamePairs,
         NEW limit \in Nat \ {0}
  PROVE  \A i \in DOMAIN Prefix(NameCounts(rows), limit) :
           /\ Prefix(NameCounts(rows), limit)[i] \in CountsIn(rows)
           /\ i \in Nat
<1> DEFINE C == CountsIn(rows)
           list == NameCounts(rows)
<1>1. \A n : CountIn(rows, n) \in Nat
  <2>1. IsFiniteSet(1 .. N)
    BY FS_Interval
  <2>2. \A n : {k \in DOMAIN rows : rows[k].name = n} \in SUBSET (1 .. N)
    OBVIOUS
  <2>3. \A n : IsFiniteSet({k \in DOMAIN rows : rows[k].name = n})
    BY <2>1, <2>2, FS_Subset
  <2> QED
    BY <2>3, FS_CardinalityType DEF CountIn
<1>2. IsFiniteSet(C)
  <2> DEFINE f == [k \in 1 .. N |-> [name |-> rows[k].name, count |-> CountIn(rows, rows[k].name)]]
  <2>1. f \in Surjection(1 .. N, C)
    BY DEF Surjection, CountsIn
  <2>2. IsFiniteSet(1 .. N)
    BY FS_Interval
  <2> HIDE DEF f, C
  <2> QED
    BY <2>1, <2>2, FS_Surjection
<1>3. C \in SUBSET Counted
  BY <1>1 DEF CountsIn, Counted
<1>4. \A c, d \in C : c.name = d.name => c = d
  BY DEF CountsIn
<1>5. Cardinality(C) \in Nat
  BY <1>2, FS_CardinalityType
<1>6. list = [k \in 1 .. Cardinality(C) |-> CHOOSE c \in C : Cardinality(Ranked(C, c)) = k - 1]
  BY DEF NameCounts, CountsIn, CountIn, Ranked, AheadOf
<1> HIDE DEF C, list
<1>7. ASSUME NEW k \in 1 .. Cardinality(C) PROVE list[k] \in C
  <2>1. k - 1 \in 0 .. Cardinality(C) - 1
    BY <1>5
  <2>2. \E c \in C : Cardinality(Ranked(C, c)) = k - 1
    BY <1>2, <1>3, <1>4, <2>1, RanksAreTaken
  <2> QED
    BY <1>6, <2>2
<1>8. list \in Seq(C) /\ Len(list) = Cardinality(C)
  BY <1>5, <1>6, <1>7
<1> DEFINE m == Min({limit, Len(list)})
<1>9. m \in Nat /\ m <= Len(list)
  <2>1. limit \in Int /\ Len(list) \in Int
    BY <1>5, <1>8
  <2>2. m = IF limit < Len(list) THEN limit ELSE Len(list)
    BY <2>1, MinMax
  <2> QED
    BY <1>5, <1>8, <2>2
<1> HIDE DEF m
<1>10. Prefix(list, limit) = SubSeq(list, 1, m)
  BY DEF Prefix, m
<1>11. DOMAIN SubSeq(list, 1, m) = 1 .. m /\ \A i \in 1 .. m : SubSeq(list, 1, m)[i] = list[i]
  BY <1>8, <1>9
<1>12. \A i \in 1 .. m : i \in Nat /\ list[i] \in C
  BY <1>5, <1>7, <1>8, <1>9
<1> QED
  BY <1>10, <1>11, <1>12 DEF C, list

LEMMA SameLists ==
  \A rows, n : /\ Mcp!Prefix(Mcp!NameCounts(rows), n) = Prefix(NameCounts(rows), n)
               /\ Webui!Prefix(Webui!NameCounts(rows), n) = Prefix(NameCounts(rows), n)
<1>1. ASSUME NEW rows
      PROVE  Mcp!NameCounts(rows) = NameCounts(rows) /\ Webui!NameCounts(rows) = NameCounts(rows)
  BY DEF NameCounts, NameLess, Cardinality, Mcp!NameCounts, Mcp!NameLess, Mcp!Cardinality,
         Webui!NameCounts, Webui!NameLess, Webui!Cardinality
<1>2. \A s, n : Mcp!Prefix(s, n) = Prefix(s, n) /\ Webui!Prefix(s, n) = Prefix(s, n)
  BY DEF Prefix, Min, Mcp!Prefix, Mcp!Min, Webui!Prefix, Webui!Min
<1> QED
  BY <1>1, <1>2

(* What is shown as a name is one; nothing is shown as any name.           *)
LEMMA NamesAreNames ==
  ASSUME NEW s, StoreInv(s), s.history \in Seq(Events), NEW k \in DOMAIN s.history
  PROVE  NameShown(s, s.history[k]) \in NamePairs /\ NameShown(s, s.history[k]) # AnyName
<1>1. \A j \in DOMAIN s.history : s.history[j] \in Events
  OBVIOUS
<1>2. \A i \in Nat : /\ NameOf(i) \in NamePairs /\ NameOf(i) # AnyName
                     /\ ReplyTo(i) \in NamePairs /\ ReplyTo(i) # AnyName
  BY DEF NameOf, ReplyTo, AnyName, None, NamePairs
<1>3. \A x \in DOMAIN s.summaries : \E j \in DOMAIN s.history : s.summaries[x] = SummaryOf(s.history[j])
  BY DEF StoreInv, SummariesOf
<1>4. ASSUME NEW x \in DOMAIN s.summaries PROVE \E i \in Nat : s.summaries[x].name = NameOf(i)
  <2>1. PICK j \in DOMAIN s.history : s.summaries[x] = SummaryOf(s.history[j])
    BY <1>3
  <2>2. s.history[j].iface \in Nat
    BY <1>1 DEF Events
  <2> QED
    BY <2>1, <2>2 DEF SummaryOf
<1>5. s.history[k].iface \in Nat /\ s.history[k].to \in Nat
  BY <1>1 DEF Events
<1> QED
  BY <1>2, <1>4, <1>5 DEF NameShown, ReplyName, Known

(* The rows of a name are those a filter for the name lets through.        *)
LEMMA NameSelects ==
  ASSUME NEW n, n # AnyName
  PROVE  /\ McpPassing(OnlyNamed(n)) = {k \in DOMAIN Mcp!Rows(mcp) : Mcp!Rows(mcp)[k].name = n}
         /\ WebuiPassing(OnlyNamed(n)) = {k \in DOMAIN Webui!Rows(webui) : Webui!Rows(webui)[k].name = n}
<1> DEFINE f == OnlyNamed(n)
<1>1. f.dir = "all" /\ f.name = n /\ f.since = None /\ f.until = None /\ f.query = ""
  BY DEF OnlyNamed, NoFilter
<1>2. Mcp!AnyName = AnyName /\ Webui!AnyName = AnyName
  BY SameRows DEF AnyName, Mcp!AnyName, Webui!AnyName
<1> HIDE DEF f
<1>3. \A row : Mcp!FilterMatches(f, row) <=> row.name = n
  BY <1>1, <1>2, SameRows DEF Mcp!FilterMatches, Mcp!QueryMatches
<1>4. \A row : Webui!FilterMatches(f, row) <=> row.name = n
  BY <1>1, <1>2 DEF Webui!FilterMatches, Webui!NeedleMatches
<1>5. DOMAIN Mcp!Rows(mcp) = DOMAIN mcp.history /\ DOMAIN Webui!Rows(webui) = DOMAIN webui.history
  BY DEF Mcp!Rows, Webui!Rows
<1> QED
  BY <1>3, <1>4, <1>5, RowAtK DEF McpPassing, WebuiPassing, f

LEMMA NamesAreMatched ==
  ASSUME RowsInv
  PROVE  /\ \A n : n # AnyName =>
              McpPage(OnlyNamed(n), None, None, None).matched = CountIn(Mcp!Rows(mcp), n)
         /\ \A n : n # AnyName =>
              WebuiPage(OnlyNamed(n), None, None, None).matched = CountIn(Webui!Rows(webui), n)
<1>1. None \in Int
  BY DEF None
<1>2. \A f : /\ McpPage(f, None, None, None).matched = Ordinal(McpPassing(f), Len(mcp.history))
             /\ WebuiPage(f, None, None, None).matched = Ordinal(WebuiPassing(f), Len(webui.history))
  BY <1>1, PagesAreSound DEF AnswerSound
<1>3. \A f : /\ McpPassing(f) \in SUBSET (1 .. Len(mcp.history))
             /\ WebuiPassing(f) \in SUBSET (1 .. Len(webui.history))
  BY RowsAreOk DEF McpPassing, WebuiPassing
<1>4. \A f : /\ Ordinal(McpPassing(f), Len(mcp.history)) = Cardinality(McpPassing(f))
             /\ Ordinal(WebuiPassing(f), Len(webui.history)) = Cardinality(WebuiPassing(f))
  <2>1. ASSUME NEW N \in Nat, NEW P \in SUBSET (1 .. N) PROVE Ordinal(P, N) = Cardinality(P)
    BY OrdinalSteps
  <2> QED
    BY <1>3, <2>1, RowsAreOk
<1> QED
  BY <1>2, <1>4, NameSelects, ZenonT(60) DEF CountIn

(* An interface told with a count selects that many events, and one that   *)
(* is offered as a filter some.                                            *)
LEMMA ListsSelect ==
  ASSUME RowsInv
  PROVE  /\ \A k \in DOMAIN Mcp!TopInterfaces(mcp, MaxEvents) :
              LET c == Mcp!TopInterfaces(mcp, MaxEvents)[k]
              IN  McpPage(OnlyNamed(c.name), None, None, None).matched = c.count
         /\ \A name \in ToSet(Webui!Interfaces(webui)) :
              WebuiPage(OnlyNamed(name), None, None, None).matched > 0
<1>1. /\ DOMAIN Mcp!Rows(mcp) = DOMAIN mcp.history
      /\ DOMAIN Webui!Rows(webui) = DOMAIN webui.history
  BY DEF Mcp!Rows, Webui!Rows
<1>2. StoreInv(mcp) /\ StoreInv(webui) /\ mcp.history \in Seq(Events) /\ webui.history \in Seq(Events)
  BY DEF RowsInv, IdsInv, BinderOk, Told
<1>3. /\ \A k \in DOMAIN mcp.history :
           Mcp!Rows(mcp)[k].name \in NamePairs /\ Mcp!Rows(mcp)[k].name # AnyName
      /\ \A k \in DOMAIN webui.history :
           Webui!Rows(webui)[k].name \in NamePairs /\ Webui!Rows(webui)[k].name # AnyName
  BY <1>2, NamesAreNames, RowAtK, RowsShow
<1>4. MaxOptions \in Nat \ {0}
  BY RowsAssumption
<1> DEFINE limit == Clamp(MaxEvents, 1, TopMax)
<1>5. Mcp!TopInterfaces(mcp, MaxEvents) = Prefix(NameCounts(Mcp!Rows(mcp)), limit) /\ limit \in Nat \ {0}
  <2>1. MaxEvents \in Nat /\ MaxEvents # None /\ TopMax \in Nat \ {0}
    BY RowsAssumption DEF None
  <2>2. limit \in 1 .. TopMax
    BY <2>1, ClampIsBetween
  <2>3. limit \in Nat \ {0}
    BY <2>1, <2>2
  <2>4. Mcp!Clamp(MaxEvents, 1, TopMax) = limit
    BY SamePages
  <2> HIDE DEF limit
  <2> QED
    BY <2>1, <2>3, <2>4, SameLists, SameRows DEF Mcp!TopInterfaces
<1> HIDE DEF limit
<1>6. ASSUME NEW k \in DOMAIN Mcp!TopInterfaces(mcp, MaxEvents)
      PROVE  LET c == Mcp!TopInterfaces(mcp, MaxEvents)[k]
             IN  McpPage(OnlyNamed(c.name), None, None, None).matched = c.count
  <2> DEFINE c == Mcp!TopInterfaces(mcp, MaxEvents)[k]
  <2>1. c \in CountsIn(Mcp!Rows(mcp))
    BY <1>1, <1>3, <1>5, RowsAreOk, NamesAreCounted
  <2> HIDE DEF c
  <2>2. PICK j \in DOMAIN mcp.history : c.name = Mcp!Rows(mcp)[j].name
    BY <1>1, <2>1 DEF CountsIn
  <2>3. c.name # AnyName /\ c.count = CountIn(Mcp!Rows(mcp), c.name)
    BY <1>3, <2>1, <2>2 DEF CountsIn
  <2> QED
    BY <2>3, NamesAreMatched DEF c
<1>7. ASSUME NEW name \in ToSet(Webui!Interfaces(webui))
      PROVE  WebuiPage(OnlyNamed(name), None, None, None).matched > 0
  <2> DEFINE list == Prefix(NameCounts(Webui!Rows(webui)), MaxOptions)
  <2>1. Webui!Interfaces(webui) = [k \in DOMAIN list |-> list[k].name]
    BY SameLists DEF Webui!Interfaces
  <2>2. \A k \in DOMAIN list : list[k] \in CountsIn(Webui!Rows(webui))
    BY <1>1, <1>3, <1>4, RowsAreOk, NamesAreCounted
  <2> HIDE DEF list
  <2>3. PICK k \in DOMAIN list : name = list[k].name
    BY <2>1 DEF ToSet
  <2>4. PICK j \in DOMAIN webui.history : name = Webui!Rows(webui)[j].name
    BY <1>1, <2>2, <2>3 DEF CountsIn
  <2> DEFINE P == {i \in DOMAIN Webui!Rows(webui) : Webui!Rows(webui)[i].name = name}
  <2>5. j \in P /\ P \in SUBSET (1 .. Len(webui.history)) /\ IsFiniteSet(1 .. Len(webui.history))
    <3>1. Len(webui.history) \in Nat /\ DOMAIN webui.history = 1 .. Len(webui.history)
      BY RowsAreOk
    <3>2. 1 \in Int /\ Len(webui.history) \in Int
      BY <3>1
    <3>3. IsFiniteSet(1 .. Len(webui.history))
      BY <3>2, FS_Interval
    <3> QED
      BY <1>1, <2>4, <3>1, <3>3
  <2>6. Cardinality(P) = CountIn(Webui!Rows(webui), name)
    BY DEF CountIn
  <2> HIDE DEF P
  <2>7. Cardinality(P) \in Nat /\ Cardinality(P) # 0
    BY <2>5, FS_Subset, FS_CardinalityType, FS_EmptySet
  <2>8. WebuiPage(OnlyNamed(name), None, None, None).matched = Cardinality(P)
    BY <1>3, <2>4, <2>6, NamesAreMatched
  <2> QED
    BY <2>7, <2>8
<1> QED
  BY <1>6, <1>7

(* An event is found by its number exactly while it is held.               *)
LEMMA EventIsFound ==
  ASSUME RowsInv, NEW seq
  PROVE  Mcp!Event(mcp, seq) =
           {Mcp!Row(mcp, e) : e \in {x \in ToSet(mcp.history) : x.seq = seq}}
<1> DEFINE h == mcp.history
           found == {x \in ToSet(h) : x.seq = seq}
<1>1. Len(h) \in Nat /\ DOMAIN h = 1 .. Len(h)
  BY RowsAreOk
<1>2. \A j, k \in DOMAIN h : h[j].seq = h[k].seq => j = k
  <2>1. h \in Told /\ h \in Seq(Events) /\ Ordered(Told, emitted)
    BY DEF Told, RowsInv, IdsInv, BinderOk
  <2>2. \A k \in DOMAIN h : h[k].seq \in Nat
    <3>1. \A k \in DOMAIN h : h[k] \in Events
      BY <1>1, <2>1
    <3> QED
      BY <3>1 DEF Events
  <2>3. \A j, k \in DOMAIN h : j < k => h[j].seq < h[k].seq
    BY <2>1 DEF Ordered
  <2> QED
    BY <1>1, <2>2, <2>3
<1>3. /\ DOMAIN mcp.index = {h[k].seq : k \in DOMAIN h}
      /\ \A k \in DOMAIN h : mcp.index[h[k].seq] = k - 1
  BY DEF RowsInv, McpInv
<1>4. CASE seq \in DOMAIN mcp.index
  <2>1. PICK k \in DOMAIN h : seq = h[k].seq
    BY <1>3, <1>4
  <2>2. mcp.index[seq] = k - 1 /\ k - 1 < Len(h) /\ (k - 1) + 1 = k
    BY <1>1, <1>3, <2>1
  <2>3. Mcp!Event(mcp, seq) = {Mcp!Row(mcp, h[k])}
    BY <1>4, <2>2 DEF Mcp!Event
  <2>4. found = {h[k]}
    BY <1>2, <2>1 DEF ToSet
  <2> QED
    BY <2>3, <2>4
<1>5. CASE seq \notin DOMAIN mcp.index
  <2>1. \A k \in DOMAIN h : h[k].seq # seq
    BY <1>3, <1>5
  <2>2. Mcp!Event(mcp, seq) = {}
    BY <1>5, <2>1 DEF Mcp!Event
  <2>3. found = {}
    BY <2>1 DEF ToSet
  <2> QED
    BY <2>2, <2>3
<1> QED
  BY <1>4, <1>5

(* What the servers say of a history beside the pages is true of it.       *)
THEOREM LookupsCorrect == Spec => []LookupsMatchHistory
<1>1. ASSUME RowsInv PROVE LookupsMatchHistory
  <2>1. ASSUME NEW s \in {mcp, webui}
        PROVE  /\ DOMAIN s.summaries = {Key(e) : e \in {x \in ToSet(s.history) : x.dir # "reply"}}
               /\ DOMAIN s.latencies \subseteq {e.to : e \in ToSet(s.history)}
    <3>1. SummariesOf(s.history, s.summaries) /\ LatenciesOf(s.history, s.latencies)
      BY <1>1 DEF RowsInv, StoreInv
    <3>2. \A x \in DOMAIN s.summaries : \E k \in DOMAIN s.history : Names(s.history, k, x)
      BY <3>1 DEF SummariesOf
    <3>3. \A x \in DOMAIN s.latencies : \E n \in DOMAIN s.history : Replies(s.history, n, x)
      BY <3>1 DEF LatenciesOf
    <3>4. \A k \in DOMAIN s.history : s.history[k].dir # "reply" => Key(s.history[k]) \in DOMAIN s.summaries
      BY <3>1 DEF SummariesOf
    <3>5. \A e \in ToSet(s.history) : e.dir # "reply" => Key(e) \in DOMAIN s.summaries
      BY <3>4 DEF ToSet
    <3>6. \A x \in DOMAIN s.summaries : \E e \in ToSet(s.history) : e.dir # "reply" /\ Key(e) = x
      BY <3>2 DEF ToSet, Names
    <3>7. \A x \in DOMAIN s.latencies : \E e \in ToSet(s.history) : e.to = x
      BY <3>3 DEF ToSet, Replies
    <3> QED
      BY <3>5, <3>6, <3>7
  <2>2. \A seq \in 1 .. MaxEvents :
          Mcp!Event(mcp, seq) = {Mcp!Row(mcp, e) : e \in {x \in ToSet(mcp.history) : x.seq = seq}}
    BY <1>1, EventIsFound
  <2>3. LET h == Mcp!History(mcp) IN
          /\ h.lost = LostIn(mcp.history)
          /\ mcp.history = <<>> => h.oldest = None /\ h.newest = None
          /\ mcp.history # <<>> => h.oldest = Head(mcp.history).seq /\ h.newest = Last(mcp.history).seq
    BY <1>1 DEF RowsInv, McpInv, Mcp!History
  <2> QED
    BY <1>1, <2>1, <2>2, <2>3, ListsSelect DEF LookupsMatchHistory
<1> QED
  BY <1>1, RowsInvariance, PTL

-----------------------------------------------------------------------------
(* The method a call names, and the data it carries.                       *)

Entry == [sdks : SUBSET SDKS, interface : Nat, code : Nat, method : STRING]
Table == Seq(Entry)

(* In a table that is sorted and has one line at most for an interface, a  *)
(* code and an SDK, the lookup finds that line wherever it is: neither the *)
(* search by halves nor the end of the run of equal keys loses one.        *)
THEOREM LookupFindsTheLine ==
  ASSUME NEW table \in Table, Sorted(table), Unambiguous(table),
         NEW sdk \in SDKS, NEW interface \in Nat, NEW code \in Nat
  PROVE  Lookup(table, sdk, interface, code) = MethodsOf(table, sdk, interface, code)
<1> DEFINE after == {k \in DOMAIN table : ~IsBefore(table[k], interface, code)}
           run   == {k \in after : \A j \in after :
                       j <= k => SameKey(table[j], interface, code)}
           hits  == {k \in run : MatchesSdk(table[k], sdk)}
           lines == {k \in DOMAIN table :
                       SameKey(table[k], interface, code) /\ MatchesSdk(table[k], sdk)}
<1>1. \A k \in DOMAIN table :
        /\ k \in Nat
        /\ table[k].interface \in Nat /\ table[k].code \in Nat
  <2>1. \A k \in DOMAIN table : k \in Nat /\ table[k] \in Entry
    BY DEF Table
  <2> QED
    BY <2>1 DEF Entry
<1>2. lines \subseteq run
  <2> SUFFICES ASSUME NEW k \in lines, NEW j \in after, j <= k
               PROVE  SameKey(table[j], interface, code) /\ k \in after
    BY <1>1 DEF SameKey, IsBefore
  <2>1. k \in after
    BY <1>1 DEF SameKey, IsBefore
  <2>2. ~IsBefore(table[k], table[j].interface, table[j].code)
    BY <1>1 DEF Sorted, IsBefore
  <2> QED
    BY <1>1, <2>1, <2>2 DEF SameKey, IsBefore
<1>3. run \subseteq {k \in DOMAIN table : SameKey(table[k], interface, code)}
  BY <1>1
<1>4. hits = lines
  BY <1>2, <1>3
<1>5. \A j, k \in lines : j = k
  <2> SUFFICES ASSUME NEW j \in lines, NEW k \in lines
               PROVE  j = k
    OBVIOUS
  <2>1. SameKey(table[j], table[k].interface, table[k].code)
    BY DEF SameKey
  <2>2. sdk \in table[j].sdks \cap table[k].sdks
    BY DEF MatchesSdk
  <2> QED
    BY <2>1, <2>2 DEF Unambiguous
<1>6. {h \in hits : \A j \in hits : h <= j} = lines
  BY <1>1, <1>4, <1>5
<1> QED
  BY <1>6 DEF Lookup, MethodsOf

Transactions == [dataSize : Nat, buffer : BOOLEAN, readable : BOOLEAN]

(* From the hook to the decoder: an event of the hook is never refused,    *)
(* shows at most what the configuration keeps, and unless it is marked as  *)
(* truncated it shows all of the transaction's data, or the transaction    *)
(* had no buffer.                                                          *)
THEOREM PayloadIsWholeUnlessMarked ==
  ASSUME NEW tr \in Transactions, NEW maxPayloadBytes \in Nat
  PROVE  LET raw == CopyTransactionPayload(tr)
         IN \E d \in DecodeTransaction(raw, maxPayloadBytes) :
              /\ DecodeTransaction(raw, maxPayloadBytes) = {d}
              /\ d.len <= maxPayloadBytes /\ d.len <= MAX_INLINE_PAYLOAD
              /\ ~d.truncated /\ tr.buffer => d.len = tr.dataSize
              /\ PayloadBytes(raw) = raw.len
<1> DEFINE raw == CopyTransactionPayload(tr)
<1>1. /\ raw.len \in Nat /\ raw.truncated \in BOOLEAN
      /\ raw.len <= MAX_INLINE_PAYLOAD
      /\ ~raw.truncated /\ tr.buffer => raw.len = tr.dataSize
  <2>1. tr.dataSize \in Nat /\ tr.buffer \in BOOLEAN /\ tr.readable \in BOOLEAN
    BY DEF Transactions
  <2>2. CASE tr.dataSize = 0 \/ ~tr.buffer
    <3>1. raw = [len |-> 0, truncated |-> FALSE]
      BY <2>2 DEF CopyTransactionPayload
    <3> QED
      BY <2>1, <2>2, <3>1 DEF MAX_INLINE_PAYLOAD
  <2>3. CASE ~(tr.dataSize = 0 \/ ~tr.buffer) /\ ~tr.readable
    <3>1. raw = [len |-> 0, truncated |-> TRUE]
      BY <2>3 DEF CopyTransactionPayload
    <3> QED
      BY <3>1 DEF MAX_INLINE_PAYLOAD
  <2>4. CASE ~(tr.dataSize = 0 \/ ~tr.buffer) /\ tr.readable
    <3> DEFINE cut == tr.dataSize > MAX_INLINE_PAYLOAD
    <3>1. raw = [len |-> Lesser(tr.dataSize, MAX_INLINE_PAYLOAD), truncated |-> cut]
      BY <2>4 DEF CopyTransactionPayload
    <3>2. /\ Lesser(tr.dataSize, MAX_INLINE_PAYLOAD) \in Nat
          /\ Lesser(tr.dataSize, MAX_INLINE_PAYLOAD) <= MAX_INLINE_PAYLOAD
          /\ ~cut => Lesser(tr.dataSize, MAX_INLINE_PAYLOAD) = tr.dataSize
          /\ cut \in BOOLEAN
      BY <2>1 DEF Lesser, MAX_INLINE_PAYLOAD
    <3> HIDE DEF cut
    <3>3. raw.truncated = cut /\ raw.len = Lesser(tr.dataSize, MAX_INLINE_PAYLOAD)
      BY <3>1
    <3> QED
      BY <3>2, <3>3
  <2> QED
    BY <2>2, <2>3, <2>4
<1> HIDE DEF raw
<1> DEFINE kept == Lesser(raw.len, maxPayloadBytes)
           cut == raw.truncated \/ kept < raw.len
           d == [len |-> kept, truncated |-> cut]
<1>2. DecodeTransaction(raw, maxPayloadBytes) = {d}
  BY <1>1 DEF DecodeTransaction, MAX_INLINE_PAYLOAD
<1>3. /\ kept \in Nat /\ kept <= raw.len /\ kept <= maxPayloadBytes
      /\ PayloadBytes(raw) = raw.len
  BY <1>1 DEF Lesser, PayloadBytes, MAX_INLINE_PAYLOAD
<1>4. ~d.truncated => ~raw.truncated /\ kept = raw.len
  <2>1. d.truncated = cut
    OBVIOUS
  <2>2. ~(kept < raw.len) => kept = raw.len
    BY <1>1, <1>3
  <2> HIDE DEF kept, d
  <2> QED
    BY <2>1, <2>2, Zenon
<1>5. ~d.truncated /\ tr.buffer => d.len = tr.dataSize
  BY <1>1, <1>4, SMTT(30)
<1> QED
  BY <1>1, <1>2, <1>3, <1>5 DEF raw, MAX_INLINE_PAYLOAD

(* A descriptor is found in the header of a new system, with its length at *)
(* 12, and in that of an old one, with its length at 4, when what stands   *)
(* at 8 and 12 there are two characters of the name each, a number far     *)
(* above any length; and in the text of a HIDL token at the start.         *)
THEOREM TokenIsFound ==
  ASSUME NEW p, NEW token, IsInterfaceDescriptor(token),
         \/ ReadString16(p, 12) = {token}
         \/ /\ ReadString16(p, 4) = {token}
            /\ \A o \in {8, 12} : p.word[o] \notin 1 .. 512
         \/ /\ ReadCString(p, 0) = {token}
            /\ \A o \in {0, 4, 8, 12} : p.word[o] \notin 1 .. 512
  PROVE  ParseInterfaceToken(p) = {token}
<1>1. \A o : p.word[o] \notin 1 .. 512 => ReadString16(p, o) = {}
  BY ZenonT(60) DEF ReadString16
<1>2. CASE ReadString16(p, 12) = {token}
  BY <1>2, ZenonT(60) DEF ParseInterfaceToken, FirstOf
<1>3. CASE /\ ReadString16(p, 4) = {token}
           /\ \A o \in {8, 12} : p.word[o] \notin 1 .. 512
  BY <1>1, <1>3, ZenonT(60) DEF ParseInterfaceToken, FirstOf
<1>4. CASE /\ ReadCString(p, 0) = {token}
           /\ \A o \in {0, 4, 8, 12} : p.word[o] \notin 1 .. 512
  BY <1>1, <1>4 DEF ParseInterfaceToken, FirstOf
<1> QED
  BY <1>2, <1>3, <1>4, ZenonT(60)
=============================================================================
