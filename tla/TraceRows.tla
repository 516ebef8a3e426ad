------------------------------ MODULE TraceRows -----------------------------
(***************************************************************************)
(* Calls, their replies, and the rows three programs show of them: the     *)
(* MCP server, the WebUI and the TUI read the same events and put calls    *)
(* and replies together by the debug ids that Binder gives to              *)
(* transactions and the hook of the kernel module notes                    *)
(* (kernel/src/core/bt_hooks.c).                                           *)
(*                                                                         *)
(* A hook reads the ids, stamps its event and then queues for the ring's   *)
(* lock: an event can get its sequence number after a younger one, and a   *)
(* reply before its call.  The ring, the sockets and the collector threads *)
(* between the hook and the three stores keep the order and report what    *)
(* they lose (EventRing, HistoryLog); here an event is delivered or lost   *)
(* in the step that numbers it, and each store has room for so many.       *)
(***************************************************************************)
EXTENDS EventRows

CONSTANTS
  Programs,                   (* the sets of programs that run together    *)
  Ifaces,                     (* the interfaces that are called            *)
  IfaceOf,                    (* the one of the transaction with an id     *)
  FirstId,                    (* ids Binder gave before the first event    *)
  McpRoom, WebuiRoom,         (* max_events of the histories               *)
  McpDefault, McpMax, WebuiDefault, WebuiMax,     (* page limits           *)
  TopDefault, TopMax, MaxOptions,                 (* lists of interfaces   *)
  McpSlow, WebuiSlow,         (* SLOW_TRANSACTION_US of either program     *)
  MaxHooks, MaxEvents, MaxId  (* bounds: traced transactions at a time and *)
                              (* in all, ids                               *)

ASSUME RowsAssumption ==
  /\ Programs \subseteq SUBSET {"mcp", "webui", "tui"}
  /\ Ifaces \subseteq Nat
  /\ {FirstId, MaxHooks, MaxEvents, MaxId, TopDefault} \subseteq Nat
  /\ {McpRoom, WebuiRoom, McpDefault, McpMax, WebuiDefault, WebuiMax,
      TopMax, MaxOptions, McpSlow, WebuiSlow} \subseteq Nat \ {0}
  /\ IfaceOf \in [1 .. MaxId -> Ifaces]
  /\ WebuiSlow <= McpSlow

Mcp   == INSTANCE McpStore WITH DefaultLimit <- McpDefault, MaxLimit <- McpMax,
                                DefaultTop <- TopDefault, MaxTop <- TopMax, SlowAfter <- McpSlow
Webui == INSTANCE WebuiStore WITH DefaultLimit <- WebuiDefault, MaxLimit <- WebuiMax,
                                  SlowAfter <- WebuiSlow

VARIABLES
  programs,     (* which of the programs are running                       *)
  issued,       (* binder_last_id: the last debug id Binder gave           *)
  inCall,       (* calls whose transaction exists and whose hook has not   *)
                (* read its id yet                                         *)
  unanswered,   (* the ids of calls nobody has replied to                  *)
  clock,        (* ktime_get_ns()                                          *)
  stamped,      (* events with a timestamp and without a number            *)
  emitted,      (* the last sequence number                                *)
  missed,       (* events lost since the last one that was delivered       *)
  mcp, webui,   (* EventStore, EventState                                  *)
  tui           (* the history of the TUI and its transaction_summaries    *)

binderVars == <<issued, inCall, unanswered, clock, stamped>>
ringVars   == <<emitted, missed>>
stores     == <<programs, mcp, webui, tui>>
vars       == <<binderVars, ringVars, stores>>

Init ==
  /\ programs  \in Programs
  /\ issued     = FirstId
  /\ inCall     = {}
  /\ unanswered = {}
  /\ clock      = 0
  /\ stamped    = {}
  /\ emitted    = 0
  /\ missed     = 0
  /\ mcp        = Mcp!New
  /\ webui      = Webui!New
  /\ tui        = [history |-> <<>>, summaries |-> EmptyMap]

NextId ==
  /\ issued < MaxId
  /\ issued' = issued + 1

InHook == Cardinality(inCall) + Cardinality(stamped)

(* An event is built, with the time of that moment.                        *)
Stamp(dir, id, to, iface) ==
  /\ clock < MaxEvents
  /\ clock'   = clock + 1
  /\ stamped' = stamped \cup
       {[at |-> clock + 1, dir |-> dir, id |-> id, to |-> to, iface |-> iface]}

-----------------------------------------------------------------------------
(* Binder and the hook.                                                    *)

(* A two-way transaction is on its way, traced or not.                     *)
BeginCall(traced) ==
  /\ NextId
  /\ traced => InHook < MaxHooks
  /\ inCall'     = IF traced THEN inCall \cup {[id |-> issued + 1, iface |-> IfaceOf[issued + 1]]}
                   ELSE inCall
  /\ unanswered' = unanswered \cup {issued + 1}
  /\ UNCHANGED <<clock, stamped, ringVars, stores>>

(* The hook of the call reads the id off the thread's stack.  It finds     *)
(* none when the transaction failed or was answered and popped by then.    *)
EndCall(c, id) ==
  /\ c \in inCall
  /\ id \in {c.id, 0}
  /\ inCall' = inCall \ {c}
  /\ Stamp("call", id, 0, c.iface)
  /\ UNCHANGED <<issued, unanswered, ringVars, stores>>

Oneway ==
  /\ NextId
  /\ InHook < MaxHooks
  /\ Stamp("oneway", 0, 0, IfaceOf[issued + 1])
  /\ UNCHANGED <<inCall, unanswered, ringVars, stores>>

(* A traced reply; it knows its call unless the stack was not readable.    *)
Reply(id, to) ==
  /\ id \in unanswered
  /\ to \in {id, 0}
  /\ NextId
  /\ InHook < MaxHooks
  /\ unanswered' = unanswered \ {id}
  /\ Stamp("reply", 0, to, 0)
  /\ UNCHANGED <<inCall, ringVars, stores>>

-----------------------------------------------------------------------------
(* The stores.                                                             *)

(* observe_transaction_summary: the TUI leaves calls without an id out.    *)
TuiPush(s, e) ==
  [history   |-> Append(s.history, e),
   summaries |-> IF e.dir = "reply" \/ e.id = 0 THEN s.summaries
                 ELSE Put(s.summaries, e.id, [name |-> NameOf(e.iface), at |-> e.at])]

(* transaction_summary; a reply to nobody has an empty name.               *)
TuiName(s, e) ==
  CASE e.dir # "reply" -> NameOf(e.iface)
    [] e.dir = "reply" /\ e.to # 0 -> ReplyName(s, e)
    [] OTHER -> NameOf(0)

(* The event gets its number.  It is lost to all of them, or each stores   *)
(* it if its history has room.                                             *)
Emit(s) ==
  LET e == [seq |-> emitted + 1, at |-> s.at, dir |-> s.dir, id |-> s.id, to |-> s.to,
            iface |-> s.iface, lost |-> missed]
  IN  /\ s \in stamped
      /\ stamped' = stamped \ {s}
      /\ emitted' = emitted + 1
      /\ \/ /\ missed' = missed + 1
            /\ UNCHANGED stores
         \/ /\ missed' = 0
            /\ mcp'    = IF "mcp" \in programs /\ Len(mcp.history) < McpRoom
                           THEN Mcp!Push(mcp, e) ELSE mcp
            /\ webui'  = IF "webui" \in programs /\ Len(webui.history) < WebuiRoom
                           THEN Webui!Push(webui, e) ELSE webui
            /\ tui'    = IF "tui" \in programs THEN TuiPush(tui, e) ELSE tui
            /\ UNCHANGED programs
      /\ UNCHANGED <<issued, inCall, unanswered, clock>>

(* binder_trace_clear_history.                                             *)
McpClear ==
  /\ mcp.history # <<>>
  /\ mcp' = Mcp!Clear(mcp)
  /\ UNCHANGED <<binderVars, ringVars, programs, webui, tui>>

(* POST /api/events/clear.                                                 *)
WebuiClear ==
  /\ webui.history # <<>>
  /\ webui' = Webui!Clear(webui)
  /\ UNCHANGED <<binderVars, ringVars, programs, mcp, tui>>

Next ==
  \/ Oneway
  \/ \E traced \in BOOLEAN : BeginCall(traced)
  \/ \E c \in inCall, id \in 0 .. MaxId : EndCall(c, id)
  \/ \E id \in unanswered, to \in 0 .. MaxId : Reply(id, to)
  \/ \E s \in stamped : Emit(s)
  \/ McpClear \/ WebuiClear

Spec == Init /\ [][Next]_vars

-----------------------------------------------------------------------------
(* Properties.                                                             *)

(* The calls with an id in a history, and what else goes by this id.       *)
CallsOf(h, id)    == {k \in DOMAIN h : h[k].dir = "call" /\ h[k].id = id}
MistakenFor(h, id) == {k \in DOMAIN h : h[k].dir # "reply" /\ h[k].id = 0 /\ h[k].seq = id}

NameOfCall(h, id) ==
  IF CallsOf(h, id) = {} THEN ReplyTo(id)
  ELSE NameOf(h[CHOOSE k \in CallsOf(h, id) : TRUE].iface)

(* A reply is shown under the interface of the call it answers if the      *)
(* program holds that call, wherever in the history, and under the id it   *)
(* answers if not; never under that of another call (server.rs:579,        *)
(* events.rs:388, tui/mod.rs:223).  The MCP server and the WebUI use the   *)
(* sequence number of an event without id as its id: of a reply to the     *)
(* transaction that really has this id nothing is promised.                *)
RepliesNameTheirCall ==
  /\ \A k \in DOMAIN tui.history :
       LET r == tui.history[k] IN
       r.dir = "reply" /\ r.to # 0 => TuiName(tui, r) = NameOfCall(tui.history, r.to)
  /\ \A rows \in {Mcp!Rows(mcp)}, k \in DOMAIN mcp.history :
       LET r == mcp.history[k] IN
       r.dir = "reply" /\ r.to # 0 /\ MistakenFor(mcp.history, r.to) = {}
         => rows[k].name = NameOfCall(mcp.history, r.to)
  /\ \A rows \in {Webui!Rows(webui)}, k \in DOMAIN webui.history :
       LET r == webui.history[k] IN
       r.dir = "reply" /\ r.to # 0 /\ MistakenFor(webui.history, r.to) = {}
         => rows[k].name = NameOfCall(webui.history, r.to)

(* A call and its reply show one latency, that between their timestamps;   *)
(* only the row of a call that was overtaken by its reply shows none.  A   *)
(* row without a reply in the history shows none either.                   *)
LatenciesMatch(h, rows) ==
  /\ \A k, n \in DOMAIN h :
       k \in CallsOf(h, h[n].to) /\ h[n].dir = "reply" /\ h[n].to # 0
         /\ MistakenFor(h, h[n].to) = {} =>
         /\ rows[n].latency = Max({0, h[n].at - h[k].at})
         /\ rows[k].latency = IF k < n THEN rows[n].latency ELSE None
  /\ \A k \in DOMAIN h : h[k].dir # "reply" /\ rows[k].latency # None =>
       \E n \in DOMAIN h : h[n].dir = "reply" /\ h[n].to = Key(h[k])

LatenciesAgree ==
  /\ LatenciesMatch(mcp.history, Mcp!Rows(mcp))
  /\ LatenciesMatch(webui.history, Webui!Rows(webui))

(* The MCP server and the WebUI, which came to their events apart, tell of *)
(* the same history the same names and latencies, and what one calls slow  *)
(* with the higher threshold the other does too.                           *)
FrontEndsAgree ==
  mcp.history = webui.history =>
    \A k \in DOMAIN mcp.history :
      LET m == Mcp!Row(mcp, mcp.history[k])
          w == Webui!Row(webui, webui.history[k])
      IN  /\ m.name = w.name /\ m.latency = w.latency
          /\ (m.status = "error") = (w.status = "error")
          /\ m.status = "slow" => w.status = "slow"

(* Questions to either program.                                            *)
NoFilter == [dir |-> "all", name |-> AnyName, since |-> None, until |-> None, query |-> ""]

Ask(filter, limit, before, after) ==
  [field \in DOMAIN NoFilter \cup {"limit", "before", "after"} |->
     CASE field = "limit"  -> limit
       [] field = "before" -> before
       [] field = "after"  -> after
       [] field \in DOMAIN NoFilter -> filter[field]]

OnlyNamed(name) == [NoFilter EXCEPT !.name = name]

Filters ==
  {NoFilter, [NoFilter EXCEPT !.dir = "reply"], [NoFilter EXCEPT !.query = "slow"],
   [NoFilter EXCEPT !.since = 2, !.until = 2]}
    \cup {OnlyNamed(NameOf(i)) : i \in Ifaces}

McpPage(filter, limit, before, after) ==
  Mcp!Events(mcp, Ask(filter, limit, before, after)).page
WebuiPage(filter, limit, before, after) ==
  Webui!Snapshot(webui, Ask(filter, limit, before, after)).page

(* Paging: with any filter, the page before the first row of a page ends   *)
(* right before it and the page after its last row starts right behind it, *)
(* so that nothing is skipped or told twice; and there is such a page      *)
(* exactly when the answer says so (server.rs:664, events.rs:283).  Of two *)
(* cursors only before_seq counts, so that one at a time is enough.        *)
Joined(a, prev, next, total) ==
  /\ a.end - a.start + 1 = Len(a.events)
  /\ a.moreBefore = (prev.events # <<>>)
  /\ a.moreBefore => prev.end = a.start - 1
  /\ a.moreAfter = (next.events # <<>>)
  /\ a.moreAfter => next.start = a.end + 1
  /\ a.matched = prev.matched /\ a.matched = next.matched /\ a.matched <= total

PagesJoinUp ==
  \A f \in Filters, limit \in {None, 1}, before, after \in {None} \cup 1 .. MaxEvents :
    None \in {before, after} =>
      /\ LET a == McpPage(f, limit, before, after) IN
           a.events # <<>> =>
             Joined(a, McpPage(f, limit, Head(a.events).seq, None),
                    McpPage(f, limit, None, Last(a.events).seq), Len(mcp.history))
      /\ LET a == WebuiPage(f, limit, before, after) IN
           a.events # <<>> =>
             Joined(a, WebuiPage(f, limit, Head(a.events).seq, None),
                    WebuiPage(f, limit, None, Last(a.events).seq), Len(webui.history))

(* What the events of a history say was lost.                              *)
LostIn(h) ==
  LET lost[n \in 0 .. Len(h)] == IF n = 0 THEN 0 ELSE lost[n - 1] + h[n].lost
  IN  lost[Len(h)]

(* What the servers say of a history beside the pages is true of the       *)
(* events in it: an event is found by its number exactly while it is held, *)
(* the counters are those of the events held, an interface told with a     *)
(* count selects that many events, and one the WebUI offers as a filter    *)
(* some (server.rs:601, 639, 722; events.rs:255).  Neither server          *)
(* remembers calls or latencies of events it does not hold.                *)
LookupsMatchHistory ==
  /\ \A s \in {mcp, webui} :
       /\ DOMAIN s.summaries = {Key(e) : e \in {x \in ToSet(s.history) : x.dir # "reply"}}
       /\ DOMAIN s.latencies \subseteq {e.to : e \in ToSet(s.history)}
  /\ \A seq \in 1 .. MaxEvents :
       Mcp!Event(mcp, seq) =
         {Mcp!Row(mcp, e) : e \in {x \in ToSet(mcp.history) : x.seq = seq}}
  /\ LET h == Mcp!History(mcp) IN
       /\ h.lost = LostIn(mcp.history)
       /\ mcp.history = <<>> => h.oldest = None /\ h.newest = None
       /\ mcp.history # <<>> => h.oldest = Head(mcp.history).seq /\ h.newest = Last(mcp.history).seq
  /\ \A top \in {Mcp!TopInterfaces(mcp, MaxEvents)} : \A k \in DOMAIN top :
       McpPage(OnlyNamed(top[k].name), None, None, None).matched = top[k].count
  /\ \A name \in ToSet(Webui!Interfaces(webui)) :
       WebuiPage(OnlyNamed(name), None, None, None).matched > 0
=============================================================================
