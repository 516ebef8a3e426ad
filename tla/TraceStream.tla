----------------------------- MODULE TraceStream ----------------------------
(***************************************************************************)
(* The event table of the WebUI: the browser's window into the history     *)
(* (crates/bt-webui/src/hooks/useTraceStream.ts) and the server's pages    *)
(* (snapshot and select_events of crates/bt-webui/rust/events.rs).         *)
(*                                                                         *)
(* A request is sent, answered under the server's lock, and its answer     *)
(* delivered: three steps, between which everything else may happen.  A    *)
(* browser handler and the re-render and effects it causes are one action. *)
(* An event is its sequence number; whether the filters let it through is  *)
(* a matter of the event alone (the interface of a reply, which is known   *)
(* once its call has been seen, is not filtered on here).                  *)
(***************************************************************************)
EXTENDS Integers, Sequences, SequencesExt

CONSTANTS
  Views,        (* what the user can ask for: the sequence numbers the     *)
                (* filters let through, and the window limit               *)
  MinPage,      (* the least a page load asks for (128)                    *)
  MaxSeq        (* bound: how many events are captured                     *)

ASSUME StreamAssumption ==
  /\ \A v \in Views : v.match \subseteq 1 .. MaxSeq /\ v.limit \in Nat \ {0}
  /\ MinPage \in Nat \ {0}
  /\ MaxSeq \in Nat

Modes == {"latest", "older", "newer"}

VARIABLES
  history,      (* the server's history                                    *)
  next,         (* the sequence number of the next event                   *)
  view,         (* filters and windowLimit                                 *)
  window,       (* eventsRef                                               *)
  range,        (* windowRangeRef, <<>> for null                           *)
  more,         (* hasMoreBefore and hasMoreAfter                          *)
  running,      (* isRunning                                               *)
  follow,       (* followTail                                              *)
  flight,       (* flight[m]: the request of mode m that is under way      *)
  clearing,     (* where POST /api/events/clear is                         *)
  crossed       (* ghost: the window was put together from answers that    *)
                (* were meant for another window, or are of a history that *)
                (* has been cleared                                        *)

serverVars == <<history, next>>
tableVars  == <<window, range, more>>
modeVars   == <<running, follow>>
vars       == <<serverVars, view, tableVars, modeVars, flight, clearing, crossed>>

None == [state |-> "none"]

(* A request: for which view and from which event on; stale when the       *)
(* generation has changed since, crossed when the window it was sent for   *)
(* has, or the history it was answered from is gone.                       *)
Sent(v, cursor) ==
  [state |-> "sent", view |-> v, cursor |-> cursor, stale |-> FALSE, crossed |-> FALSE]

NoMore == [before |-> FALSE, after |-> FALSE]

Init ==
  /\ history  = <<>>
  /\ next     = 1
  /\ view \in Views
  /\ window   = <<>>
  /\ range    = <<>>
  /\ more     = NoMore
  /\ running  = TRUE
  /\ follow   = TRUE
  /\ flight   = [m \in Modes |-> IF m = "latest" THEN Sent(view, 0) ELSE None]
  /\ clearing = "no"
  /\ crossed  = FALSE

-----------------------------------------------------------------------------
(* The server.                                                             *)

Capture ==
  /\ next <= MaxSeq
  /\ history' = Append(history, next)
  /\ next'    = next + 1
  /\ UNCHANGED <<view, tableVars, modeVars, flight, clearing, crossed>>

(* The kernel overwrote the event before the collector read it.            *)
Lose ==
  /\ next <= MaxSeq
  /\ next' = next + 1
  /\ UNCHANGED <<history, view, tableVars, modeVars, flight, clearing, crossed>>

(* The elements of a sequence that are in a set, in their order.           *)
Keep(s, P) ==
  LET kept[n \in 0 .. Len(s)] ==
        IF n = 0 THEN <<>>
        ELSE IF s[n] \in P THEN Append(kept[n - 1], s[n]) ELSE kept[n - 1]
  IN  kept[Len(s)]

Matched(v) == Keep(history, v.match)

AtLeast(m, n) == IF m > n THEN m ELSE n
AtMost(m, n)  == IF m < n THEN m ELSE n

(* What a refresh asks for, and pageLoadLimit.                             *)
Limit(v, mode) ==
  IF mode = "latest" THEN v.limit
  ELSE AtMost(v.limit, AtLeast(MinPage, v.limit \div 2))

(* select_events: the ordinals, among the events that pass the filters, of *)
(* the first and the last event of a page.                                 *)
PageOf(matched, mode, cursor, limit) ==
  LET n == Cardinality({k \in DOMAIN matched :
             CASE mode = "latest" -> TRUE
               [] mode = "older"  -> matched[k] < cursor
               [] mode = "newer"  -> matched[k] <= cursor})
  IN  IF mode = "newer"
      THEN [first |-> n + 1, last |-> AtMost(n + limit, Len(matched))]
      ELSE [first |-> AtLeast(1, n - limit + 1), last |-> n]

(* Faulty variant: has_more_after looks at the size of the page.           *)
SnapshotFullMeansMore(v, mode, cursor) ==
  LET matched == Matched(v)
      page    == PageOf(matched, mode, cursor, Limit(v, mode))
      empty   == page.first > page.last
  IN  [events |-> SubSeq(matched, page.first, page.last),
       range  |-> IF empty THEN <<>> ELSE <<page.first, page.last>>,
       more   |-> [before |-> ~empty /\ page.first > 1,
                   after  |-> page.last - page.first + 1 = Limit(v, mode)]]

(* snapshot: the page, its ordinals and whether there is more around it.   *)
Snapshot(v, mode, cursor) ==
  LET matched == Matched(v)
      page    == PageOf(matched, mode, cursor, Limit(v, mode))
      empty   == page.first > page.last
  IN  [events |-> SubSeq(matched, page.first, page.last),
       range  |-> IF empty THEN <<>> ELSE <<page.first, page.last>>,
       more   |-> [before |-> ~empty /\ page.first > 1,
                   after  |-> ~empty /\ page.last < Len(matched)]]

(* GET /api/events, under the lock of the hub.                             *)
Answer(m) ==
  /\ flight[m].state = "sent"
  /\ LET f == flight[m] IN
     flight' = [flight EXCEPT ![m] =
       [state |-> "answered", view |-> f.view, stale |-> f.stale, crossed |-> f.crossed,
        data  |-> Snapshot(f.view, m, f.cursor)]]
  /\ UNCHANGED <<serverVars, view, tableVars, modeVars, clearing, crossed>>

(* Requests of these modes no longer fit the window or the history.        *)
Cross(f, modes) ==
  [m \in Modes |->
     IF m \in modes /\ f[m] # None THEN [f[m] EXCEPT !.crossed = TRUE] ELSE f[m]]

(* EventState::clear.  A refresh that is not answered yet will be answered *)
(* from the new history.                                                   *)
ServerClears ==
  /\ clearing = "sent"
  /\ clearing' = "done"
  /\ history'  = <<>>
  /\ flight'   = Cross(flight, IF flight["latest"].state = "sent" THEN {"older", "newer"}
                               ELSE Modes)
  /\ crossed'  = TRUE
  /\ UNCHANGED <<next, view, tableVars, modeVars>>

-----------------------------------------------------------------------------
(* Answers in the browser.                                                 *)

(* dedupeEvents, of events each of which is distinct in itself.            *)
Dedupe(x, y) == x \o Keep(y, ToSet(y) \ ToSet(x))

TrimStart(s, limit) == SubSeq(s, 1, AtMost(Len(s), limit))
TrimEnd(s, limit)   == SubSeq(s, AtLeast(1, Len(s) - limit + 1), Len(s))

(* Faulty variant: a merged window is always trimmed at its old end.       *)
MergeWindowTrimsEnd(mode, page, limit) ==
  IF mode = "latest" THEN TrimEnd(page, limit)
  ELSE IF page = <<>> THEN window
  ELSE IF mode = "older" THEN TrimEnd(Dedupe(page, window), limit)
  ELSE TrimEnd(Dedupe(window, page), limit)

(* Faulty variant: pages are concatenated as they come.                    *)
MergeWindowNoDedupe(mode, page, limit) ==
  IF mode = "latest" THEN TrimEnd(page, limit)
  ELSE IF page = <<>> THEN window
  ELSE IF mode = "older" THEN TrimStart(page \o window, limit)
  ELSE TrimEnd(window \o page, limit)

(* Faulty variant: a refresh adds to the window it finds.                  *)
MergeWindowKeeps(mode, page, limit) ==
  IF mode = "latest" THEN TrimStart(Dedupe(window, page), limit)
  ELSE IF page = <<>> THEN window
  ELSE IF mode = "older" THEN TrimStart(Dedupe(page, window), limit)
  ELSE TrimEnd(Dedupe(window, page), limit)

MergeWindow(mode, page, limit) ==
  IF mode = "latest" THEN TrimEnd(page, limit)
  ELSE IF page = <<>> THEN window
  ELSE IF mode = "older" THEN TrimStart(Dedupe(page, window), limit)
  ELSE TrimEnd(Dedupe(window, page), limit)

(* nextWindowRange.                                                        *)
NextRange(mode, pageRange, count) ==
  IF count = 0 \/ pageRange = <<>> THEN <<>>
  ELSE IF mode = "newer" THEN <<pageRange[2] - count + 1, pageRange[2]>>
  ELSE <<pageRange[1], pageRange[1] + count - 1>>

(* Page loads that are under way were meant for the table as it was.       *)
CrossLoads(f) == IF UNCHANGED tableVars THEN f ELSE Cross(f, {"older", "newer"})

(* applyResponse.                                                          *)
Apply(m, f) ==
  /\ window'  = MergeWindow(m, f.data.events, f.view.limit)
  /\ range'   = NextRange(m, f.data.range, Len(window'))
  /\ more'    = f.data.more
  /\ crossed' = (f.crossed \/ (m # "latest" /\ crossed))
  /\ flight'  = [CrossLoads(flight) EXCEPT ![m] = None]

(* Faulty variant: the generation is not looked at.                        *)
DeliverAnyGeneration(m) ==
  /\ flight[m].state = "answered"
  /\ Apply(m, flight[m])
  /\ UNCHANGED <<serverVars, view, modeVars, clearing>>

(* fetchPage goes on with its answer; one of an earlier generation is      *)
(* dropped.                                                                *)
Deliver(m) ==
  /\ flight[m].state = "answered"
  /\ IF flight[m].stale
     THEN /\ flight' = [flight EXCEPT ![m] = None]
          /\ UNCHANGED <<tableVars, crossed>>
     ELSE Apply(m, flight[m])
  /\ UNCHANGED <<serverVars, view, modeVars, clearing>>

(* The fetch fails, before or after the server has answered.               *)
Fail(m) ==
  /\ flight[m] # None
  /\ flight' = [flight EXCEPT ![m] = None]
  /\ UNCHANGED <<serverVars, view, tableVars, modeVars, clearing, crossed>>

-----------------------------------------------------------------------------
(* The user and the timer.                                                 *)

(* refreshLatest: the refresh before it is aborted.                        *)
Refreshed(f, v) == [f EXCEPT !["latest"] = Sent(v, 0)]

(* The effect on isRunning and followTail: its cleanup aborts the refresh  *)
(* under way, and it begins to poll.                                       *)
PollEffect(f) ==
  IF running' /\ follow' THEN Refreshed(f, view)
  ELSE IF running /\ follow THEN [f EXCEPT !["latest"] = None]
  ELSE f

(* The interval timer.                                                     *)
Poll ==
  /\ running /\ follow
  /\ flight' = Refreshed(flight, view)
  /\ UNCHANGED <<serverVars, view, tableVars, modeVars, clearing, crossed>>

(* Filters or window limit change: a new generation.                       *)
ChangeView(v) ==
  /\ view'    = v
  /\ window'  = <<>>
  /\ range'   = <<>>
  /\ more'    = NoMore
  /\ follow'  = TRUE
  /\ crossed' = FALSE
  /\ flight'  = Refreshed([m \in Modes |->
                   IF flight[m] = None THEN None ELSE [flight[m] EXCEPT !.stale = TRUE]], v)
  /\ UNCHANGED <<serverVars, running, clearing>>

ToggleRunning ==
  /\ running' = ~running
  /\ follow'  = follow
  /\ flight'  = PollEffect(flight)
  /\ UNCHANGED <<serverVars, view, tableVars, clearing, crossed>>

(* toggleFollowTail, and setFollowTail(false) when a row is selected.      *)
SetFollow(on) ==
  /\ follow # on
  /\ follow'  = on
  /\ running' = running
  /\ flight'  = PollEffect(flight)
  /\ UNCHANGED <<serverVars, view, tableVars, clearing, crossed>>

ShowLatest ==
  /\ follow' = TRUE
  /\ flight' = Refreshed(flight, view)
  /\ UNCHANGED <<serverVars, view, tableVars, running, clearing, crossed>>

LoadOlder ==
  /\ window # <<>> /\ more.before /\ flight["older"] = None
  /\ follow'  = FALSE
  /\ running' = running
  /\ flight'  = [PollEffect(flight) EXCEPT !["older"] = Sent(view, window[1])]
  /\ UNCHANGED <<serverVars, view, tableVars, clearing, crossed>>

LoadNewer ==
  /\ window # <<>> /\ more.after /\ flight["newer"] = None
  /\ flight' = [flight EXCEPT !["newer"] = Sent(view, window[Len(window)])]
  /\ UNCHANGED <<serverVars, view, tableVars, modeVars, clearing, crossed>>

(* The clear button; one request at a time here.                           *)
Clear ==
  /\ clearing = "no"
  /\ clearing' = "sent"
  /\ UNCHANGED <<serverVars, view, tableVars, modeVars, flight, crossed>>

(* Its fetch is over, and its errors are ignored: the table is emptied, no *)
(* request is aborted.                                                     *)
Cleared ==
  /\ clearing # "no"
  /\ clearing' = "no"
  /\ window'   = <<>>
  /\ range'    = <<>>
  /\ more'     = NoMore
  /\ crossed'  = FALSE
  /\ flight'   = CrossLoads(flight)
  /\ UNCHANGED <<serverVars, view, modeVars>>

-----------------------------------------------------------------------------

Next ==
  \/ Capture \/ Lose \/ ServerClears
  \/ \E m \in Modes : Answer(m) \/ Deliver(m) \/ Fail(m)
  \/ Poll \/ ToggleRunning \/ ShowLatest \/ LoadOlder \/ LoadNewer \/ Clear \/ Cleared
  \/ \E v \in Views : ChangeView(v)
  \/ \E on \in BOOLEAN : SetFollow(on)

Spec == Init /\ [][Next]_vars

(* The timer ticks, and of the refreshes it sends not every one is slower  *)
(* than the next tick, which aborts it.                                    *)
FairSpec ==
  /\ Spec
  /\ WF_vars(Poll)
  /\ SF_vars(Answer("latest")) /\ SF_vars(Deliver("latest"))

-----------------------------------------------------------------------------
(* Properties.                                                             *)

(* Every variable holds a value the code can give it; the window is at     *)
(* most as long as its limit and no event is in it twice.                  *)
TypeOK ==
  /\ history \in Seq(1 .. MaxSeq)
  /\ next \in 1 .. MaxSeq + 1
  /\ view \in Views
  /\ Len(window) <= view.limit /\ window \in Seq(1 .. MaxSeq)
  /\ IsInjective(window)
  /\ range = <<>> \/ (range \in Seq(Int) /\ Len(range) = 2)
  /\ more \in [before : BOOLEAN, after : BOOLEAN]
  /\ running \in BOOLEAN /\ follow \in BOOLEAN
  /\ DOMAIN flight = Modes
  /\ clearing \in {"no", "sent", "done"}
  /\ crossed \in BOOLEAN

(* Whatever was under way when the filters changed, the table never shows  *)
(* an event that the filters of now would not let through.                 *)
FiltersHold == ToSet(window) \subseteq view.match

(* Unless answers crossed, the table shows a part of the history without a *)
(* gap, in order, and the status bar says which: the events at the         *)
(* positions from windowStartIndex to windowEndIndex among those that pass *)
(* the filters.                                                            *)
WindowIsWhatItSays ==
  ~crossed =>
    IF range = <<>> THEN window = <<>>
    ELSE window = SubSeq(Matched(view), range[1], range[2])

(* ... and the user can get to what is before it, and is not sent for what *)
(* does not come after it: the table offers older events exactly when      *)
(* there are some, although it only knows what the last page said.         *)
NoDeadEnd ==
  ~crossed /\ window # <<>> =>
    /\ more.before <=> range[1] > 1
    /\ more.after => range[2] < Len(Matched(view))

(* A table that follows the tail of a running stream catches up with it,   *)
(* again and again, whatever else the user does.                           *)
TailIsFollowed ==
  <>[](running /\ follow)
    => []<>(window = TrimEnd(Matched(view), view.limit))
=============================================================================
