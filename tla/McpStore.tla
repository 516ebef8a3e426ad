------------------------------ MODULE McpStore ------------------------------
(***************************************************************************)
(* The event store of the MCP server (crates/bt-mcp/src/server.rs,         *)
(* EventStore): what it keeps beside its history file, and the answers of  *)
(* the tools that read it.  All of it happens under one mutex, so the      *)
(* store is a value here and its operations are operators on it.  The file *)
(* itself is CaptureHistory's subject; here it is the sequence of events   *)
(* that were appended.                                                     *)
(***************************************************************************)
EXTENDS EventRows

CONSTANTS
  DefaultLimit, MaxLimit,   (* DEFAULT_QUERY_LIMIT, MAX_QUERY_LIMIT        *)
  DefaultTop, MaxTop,       (* 20 and 128 interfaces                       *)
  SlowAfter                 (* SLOW_TRANSACTION_US                         *)

New ==
  [history |-> <<>>, index |-> EmptyMap, summaries |-> EmptyMap, latencies |-> EmptyMap,
   lost |-> 0, oldest |-> None, newest |-> None]

(* EventStore::push, once the history took the event.                      *)
Push(s, e) ==
  LET stored == [s EXCEPT !.history = Append(@, e),
                          !.index   = Put(@, e.seq, Len(s.history)),
                          !.lost    = @ + e.lost,
                          !.oldest  = IF @ = None THEN e.seq ELSE @,
                          !.newest  = e.seq]
      latency == ReplyLatency(s, e)
  IN  CASE e.dir # "reply" ->
             [stored EXCEPT !.summaries = Put(@, Key(e), [name |-> NameOf(e.iface), at |-> e.at])]
        [] e.dir = "reply" /\ latency # None ->
             [stored EXCEPT !.latencies = Put(@, e.to, latency)]
        [] OTHER -> stored

(* Faulty variant: the summaries outlive the events they are of.           *)
ClearKeepsSummaries(s) == [New EXCEPT !.summaries = s.summaries]

Clear(s) == New

(* What is shown of an event; it is made up anew at every request.         *)
Row(s, e) ==
  LET reply   == e.dir = "reply"
      latency == IF reply THEN ReplyLatency(s, e) ELSE Get(s.latencies, Key(e), None)
  IN  [seq |-> e.seq, at |-> e.at, dir |-> e.dir, key |-> Key(e), to |-> e.to, lost |-> e.lost,
       name |-> IF reply THEN ReplyName(s, e) ELSE NameOf(e.iface),
       latency |-> latency,
       status  |-> Status(e, latency, SlowAfter)]

Rows(s) == [k \in DOMAIN s.history |-> Row(s, s.history[k])]

(* EventsParams, with None for a parameter that is absent, AnyName also    *)
(* for the words all and nothing.                                          *)
Limit(p) == Clamp(IF p.limit = None THEN DefaultLimit ELSE p.limit, 1, MaxLimit)

(* Of the fields a query is looked for in, the two that are words.         *)
QueryMatches(query, row) == query = "" \/ query \in {row.dir, row.status}

FilterMatches(p, row) ==
  /\ p.dir = "all" \/ p.dir = row.dir
  /\ p.name = AnyName \/ p.name = row.name
  /\ p.since = None \/ row.at >= p.since
  /\ p.until = None \/ row.at <= p.until
  /\ QueryMatches(p.query, row)

Select(s, p) ==
  PageOf(Rows(s), {k \in DOMAIN s.history : FilterMatches(p, Row(s, s.history[k]))},
         PageRequest(p.before, p.after), Limit(p))

History(s) ==
  [count |-> Len(s.history), lost |-> s.lost, oldest |-> s.oldest, newest |-> s.newest]

(* binder_trace_events.                                                    *)
Events(s, p) == [page |-> Answer(Select(s, p)), history |-> History(s)]

(* binder_trace_event: by the index, or by a search through the history    *)
(* whose last hit counts.  The answer is a set of at most one row.         *)
Event(s, seq) ==
  IF seq \in DOMAIN s.index
    THEN IF s.index[seq] < Len(s.history) THEN {Row(s, s.history[s.index[seq] + 1])} ELSE {}
  ELSE LET hits == {k \in DOMAIN s.history : s.history[k].seq = seq}
       IN  IF hits = {} THEN {} ELSE {Row(s, s.history[Max(hits)])}

(* binder_trace_top_interfaces.                                            *)
TopInterfaces(s, limit) ==
  Prefix(NameCounts(Rows(s)), Clamp(IF limit = None THEN DefaultTop ELSE limit, 1, MaxTop))
=============================================================================
