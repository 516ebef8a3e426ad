----------------------------- MODULE WebuiStore -----------------------------
(***************************************************************************)
(* The event state of the WebUI (crates/bt-webui/rust/events.rs,           *)
(* EventState): the same summaries and latencies beside the history, no    *)
(* index, and one answer that carries a page, its ends, the counters and   *)
(* the interfaces to choose a filter from.  What the state says of its     *)
(* source is CaptureSessions' subject, the browser TraceStream's.          *)
(***************************************************************************)
EXTENDS EventRows

CONSTANTS
  DefaultLimit, MaxLimit,   (* DEFAULT_QUERY_LIMIT, MAX_QUERY_LIMIT        *)
  MaxOptions,               (* MAX_INTERFACE_OPTIONS                       *)
  SlowAfter                 (* SLOW_TRANSACTION_US                         *)

New == [history |-> <<>>, summaries |-> EmptyMap, latencies |-> EmptyMap, lost |-> 0]

(* Faulty variant: the latency is noted under the reply's own id.          *)
ObserveOwnKey(s, e) ==
  IF e.dir # "reply"
    THEN [s EXCEPT !.summaries = Put(@, Key(e), [name |-> NameOf(e.iface), at |-> e.at])]
  ELSE IF Known(s, e) THEN [s EXCEPT !.latencies = Put(@, Key(e), ReplyLatency(s, e))]
  ELSE s

(* observe_event.                                                          *)
Observe(s, e) ==
  LET latency == ReplyLatency(s, e)
  IN  IF e.dir # "reply"
        THEN [s EXCEPT !.summaries = Put(@, Key(e), [name |-> NameOf(e.iface), at |-> e.at])]
      ELSE IF latency # None THEN [s EXCEPT !.latencies = Put(@, e.to, latency)]
      ELSE s

(* push_event, once the history took the event.                            *)
Push(s, e) == Observe([s EXCEPT !.history = Append(@, e), !.lost = @ + e.lost], e)

(* Faulty variant: the latencies outlive the events they are of.           *)
ClearKeepsLatencies(s) == [New EXCEPT !.latencies = s.latencies]

Clear(s) == New

Row(s, e) ==
  LET reply   == e.dir = "reply"
      latency == IF reply THEN ReplyLatency(s, e) ELSE Get(s.latencies, Key(e), None)
  IN  [seq |-> e.seq, at |-> e.at, dir |-> e.dir, key |-> Key(e), to |-> e.to, lost |-> e.lost,
       name |-> IF reply THEN ReplyName(s, e) ELSE NameOf(e.iface),
       latency |-> latency,
       status  |-> Status(e, latency, SlowAfter)]

Rows(s) == [k \in DOMAIN s.history |-> Row(s, s.history[k])]

(* EventsQuery.                                                            *)
Limit(q) == Clamp(IF q.limit = None THEN DefaultLimit ELSE q.limit, 1, MaxLimit)

(* Of the fields a needle is looked for in, the two that are words.        *)
NeedleMatches(needle, row) == needle = "" \/ needle \in {row.dir, row.status}

FilterMatches(q, row) ==
  /\ q.dir = "all" \/ q.dir = row.dir
  /\ q.name = AnyName \/ q.name = row.name
  /\ NeedleMatches(q.query, row)

Select(s, q) ==
  PageOf(Rows(s), {k \in DOMAIN s.history : FilterMatches(q, Row(s, s.history[k]))},
         PageRequest(q.before, q.after), Limit(q))

(* interface_options.                                                      *)
Interfaces(s) ==
  LET counts == Prefix(NameCounts(Rows(s)), MaxOptions)
  IN  [k \in DOMAIN counts |-> counts[k].name]

(* GET /api/events.                                                        *)
Snapshot(s, q) ==
  LET answer == Answer(Select(s, q))
      rows   == answer.events
  IN  [page       |-> answer,
       total      |-> Len(s.history),
       dropped    |-> s.lost,
       oldest     |-> IF rows = <<>> THEN None ELSE Head(rows).seq,
       newest     |-> IF rows = <<>> THEN None ELSE Last(rows).seq,
       interfaces |-> Interfaces(s)]
=============================================================================
