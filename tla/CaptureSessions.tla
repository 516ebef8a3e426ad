--------------------------- MODULE CaptureSessions --------------------------
(***************************************************************************)
(* The programs that share the one capture configuration of the kernel     *)
(* module, from their start to their end: the JSONL agent                  *)
(* (crates/bt-agent/src/agent.rs), the TUI (crates/bt-cli/src/main.rs and  *)
(* tui/mod.rs), the WebUI (crates/bt-webui/rust/events.rs) and the MCP     *)
(* server (crates/bt-mcp/src/server.rs).                                   *)
(*                                                                         *)
(* An ioctl is one action, a critical section of a Rust mutex is one       *)
(* action.  A configuration is Off or the program whose filters it has;    *)
(* an event has no contents here.  Reading the ring is EventRing's         *)
(* subject: here a socket has a backlog of at most MaxBacklog events.      *)
(***************************************************************************)
EXTENDS Integers

CONSTANTS
  Agents, Tuis, Webuis, Mcps,   (* the programs of each kind               *)
  ReadOnly,     (* started with --no-enable, or an MCP server without      *)
                (* --enable                                                *)
  Control,      (* MCP servers started with --allow-control                *)
  Casts,        (* the sets of programs that may be started in one run     *)
  Off,          (* CaptureConfig::disabled()                               *)
  MaxBacklog,   (* bound: BT_EVENT_RING_CAPACITY                           *)
  Limit         (* max_events of a history file                            *)

Collectors == Webuis \cup Mcps
Programs   == Agents \cup Tuis \cup Collectors

(* A process runs one command of the program.                              *)
ASSUME SessionsAssumption ==
  /\ Agents \cap Tuis = {} /\ (Agents \cup Tuis) \cap Collectors = {}
  /\ Webuis \cap Mcps = {}
  /\ ReadOnly \subseteq Tuis \cup Collectors
  /\ Control \subseteq Mcps
  /\ Off \notin Programs
  /\ Casts \subseteq SUBSET Programs
  /\ MaxBacklog \in Nat \ {0}
  /\ Limit \in Nat \ {0}

VARIABLES
  cast,         (* the programs that are used, whenever they are started   *)
  config,       (* bt_capture_config                                       *)
  writer,       (* history: the program that wrote config last, if it has  *)
                (* not been started again since                            *)
  inflight,     (* a hook has decided to trace and not emitted yet         *)
  backlog,      (* backlog[p]: events waiting on p's socket                *)
  pc,           (* where a program is                                      *)
  saved,        (* saved[a]: CaptureConfigGuard::previous of an agent      *)
  recording,    (* recording[t]: TuiState::recording                       *)
  stored,       (* stored[p]: event_count of the history of a collector    *)
  refused,      (* history: p read an event its history had no room for    *)
  shown         (* shown[p]: the source state p reports                    *)

kernelVars == <<cast, config, writer, inflight>>
viewVars   == <<stored, refused, shown>>
vars       == <<kernelVars, backlog, pc, saved, recording, viewVars>>

Init ==
  /\ cast     \in Casts
  /\ config    = Off
  /\ writer    = Off
  /\ inflight  = FALSE
  /\ backlog   = [p \in Programs |-> 0]
  /\ pc        = [p \in Programs |-> "off"]
  /\ saved     = [a \in Agents |-> Off]
  /\ recording = [t \in Tuis |-> TRUE]
  /\ stored    = [p \in Collectors |-> 0]
  /\ refused   = [p \in Collectors |-> FALSE]
  /\ shown     = [p \in Collectors |-> "disabled"]

Goto(p, from, to) ==
  /\ pc[p] = from
  /\ pc' = [pc EXCEPT ![p] = to]

(* bt_capture_set_config, by p.                                            *)
SetConfig(p, c) ==
  /\ config' = c
  /\ writer' = p
  /\ UNCHANGED <<cast, inflight>>

Listening == {p \in Programs : pc[p] \notin {"off", "killed", "start", "idle"}}

-----------------------------------------------------------------------------
(* The kernel.                                                             *)

(* A hook decides under the configuration of that moment...                *)
DecideToTrace ==
  /\ config # Off /\ ~inflight
  /\ inflight' = TRUE
  /\ UNCHANGED <<cast, config, writer, backlog, pc, saved, recording, viewVars>>

(* ... and emits when the call it traces has returned: every open socket   *)
(* is due the event, and one that is full loses its oldest.                *)
EmitEvent ==
  /\ inflight
  /\ inflight' = FALSE
  /\ backlog'  = [p \in Programs |->
       IF p \in Listening /\ backlog[p] < MaxBacklog THEN backlog[p] + 1 ELSE backlog[p]]
  /\ UNCHANGED <<cast, config, writer, pc, saved, recording, viewVars>>

-----------------------------------------------------------------------------
(* Start and end.                                                          *)

(* A program starts; its former state is gone, its socket is new.          *)
Start(p) ==
  /\ p \in cast
  /\ pc[p] \in {"off", "killed"}
  /\ pc'        = [pc EXCEPT ![p] = "start"]
  /\ recording' = [t \in Tuis |-> IF t = p THEN TRUE ELSE recording[t]]
  /\ stored'    = [c \in Collectors |-> IF c = p THEN 0 ELSE stored[c]]
  /\ refused'   = [c \in Collectors |-> IF c = p THEN FALSE ELSE refused[c]]
  /\ shown'     = [c \in Collectors |-> IF c = p THEN "connecting" ELSE shown[c]]
  /\ writer'    = IF writer = p THEN Off ELSE writer
  /\ UNCHANGED <<cast, config, inflight, backlog, saved>>

(* The program goes away and nothing of it runs any more: a signal, or an  *)
(* error return before a guard exists.  The kernel keeps its configuration.*)
Kill(p) ==
  /\ pc[p] \notin {"off", "killed"}
  /\ pc'      = [pc EXCEPT ![p] = "killed"]
  /\ backlog' = [backlog EXCEPT ![p] = 0]
  /\ UNCHANGED <<kernelVars, saved, recording, viewVars>>

-----------------------------------------------------------------------------
(* The agent: Agent::run with its CaptureConfigGuard.                      *)

AgentConnect(a) ==
  /\ Goto(a, "start", "save")
  /\ UNCHANGED <<kernelVars, backlog, saved, recording, viewVars>>

AgentSave(a) ==
  /\ Goto(a, "save", "configure")
  /\ saved' = [saved EXCEPT ![a] = config]
  /\ UNCHANGED <<kernelVars, backlog, recording, viewVars>>

AgentEnable(a) ==
  /\ Goto(a, "configure", "run")
  /\ SetConfig(a, a)
  /\ UNCHANGED <<backlog, saved, recording, viewVars>>

AgentCollect(a) ==
  /\ pc[a] = "run" /\ backlog[a] > 0
  /\ backlog' = [backlog EXCEPT ![a] = @ - 1]
  /\ UNCHANGED <<kernelVars, pc, saved, recording, viewVars>>

(* Faulty variant: the guard switches capture off instead of restoring.    *)
AgentDisables(a) ==
  /\ Goto(a, "run", "off")
  /\ SetConfig(a, Off)
  /\ backlog' = [backlog EXCEPT ![a] = 0]
  /\ UNCHANGED <<saved, recording, viewVars>>

(* An I/O or decoding error ends the loop; dropping the guard restores.    *)
AgentFails(a) ==
  /\ Goto(a, "run", "off")
  /\ SetConfig(a, saved[a])
  /\ backlog' = [backlog EXCEPT ![a] = 0]
  /\ UNCHANGED <<saved, recording, viewVars>>

-----------------------------------------------------------------------------
(* The TUI.                                                                *)

TuiConnect(t) ==
  /\ Goto(t, "start", IF t \in ReadOnly THEN "open" ELSE "configure")
  /\ UNCHANGED <<kernelVars, backlog, saved, recording, viewVars>>

TuiEnable(t) ==
  /\ Goto(t, "configure", "open")
  /\ SetConfig(t, t)
  /\ UNCHANGED <<backlog, saved, recording, viewVars>>

(* History and terminal are there; from here on the guard exists.          *)
TuiOpen(t) ==
  /\ Goto(t, "open", "run")
  /\ UNCHANGED <<kernelVars, backlog, saved, recording, viewVars>>

(* An event is taken: stored, or thrown away while recording is paused.    *)
TuiDrain(t) ==
  /\ pc[t] = "run" /\ backlog[t] > 0
  /\ backlog' = [backlog EXCEPT ![t] = @ - 1]
  /\ UNCHANGED <<kernelVars, pc, saved, recording, viewVars>>

(* Faulty variant: pausing only flips the flag.                            *)
TuiToggleFlag(t) ==
  /\ pc[t] = "run"
  /\ IF t \in ReadOnly \/ recording[t] THEN UNCHANGED kernelVars ELSE SetConfig(t, t)
  /\ recording' = [recording EXCEPT ![t] = ~@]
  /\ UNCHANGED <<backlog, pc, saved, viewVars>>

(* toggle_recording: the configuration first, then the flag.               *)
TuiToggle(t) ==
  /\ pc[t] = "run"
  /\ IF t \in ReadOnly THEN UNCHANGED kernelVars
     ELSE SetConfig(t, IF recording[t] THEN Off ELSE t)
  /\ recording' = [recording EXCEPT ![t] = ~@]
  /\ UNCHANGED <<backlog, pc, saved, viewVars>>

(* The user quits, or an error (a full history among them) ends the loop;  *)
(* dropping the guard switches capture off if this TUI had switched it on. *)
TuiQuit(t) ==
  /\ Goto(t, "run", "off")
  /\ IF t \in ReadOnly THEN UNCHANGED kernelVars ELSE SetConfig(t, Off)
  /\ backlog' = [backlog EXCEPT ![t] = 0]
  /\ UNCHANGED <<saved, recording, viewVars>>

-----------------------------------------------------------------------------
(* The WebUI and the MCP server: a collector thread, and requests that     *)
(* come in between.                                                        *)

(* Both connect; a WebUI has its history by then, an MCP server opens it   *)
(* after the configuration was set.                                        *)
Connect(p) ==
  /\ Goto(p, "start", IF p \in ReadOnly THEN "open" ELSE "configure")
  /\ UNCHANGED <<kernelVars, backlog, saved, recording, viewVars>>

Enable(p) ==
  /\ Goto(p, "configure", "open")
  /\ SetConfig(p, p)
  /\ UNCHANGED <<backlog, saved, recording, viewVars>>

(* The collector thread reports the connection and begins to poll.         *)
Open(p) ==
  /\ Goto(p, "open", "poll")
  /\ shown' = [shown EXCEPT ![p] = "connected"]
  /\ UNCHANGED <<kernelVars, backlog, saved, recording, stored, refused>>

Recv(p) ==
  /\ Goto(p, "poll", "push")
  /\ backlog[p] > 0
  /\ backlog' = [backlog EXCEPT ![p] = @ - 1]
  /\ UNCHANGED <<kernelVars, saved, recording, viewVars>>

(* An error of poll ends the thread; a WebUI without a history file, a     *)
(* connection or its configuration has none to begin with.  The server     *)
(* goes on.                                                                *)
CollectorFails(p) ==
  /\ pc[p] \in IF p \in Webuis THEN {"start", "configure", "poll"} ELSE {"poll"}
  /\ pc'      = [pc EXCEPT ![p] = "idle"]
  /\ shown'   = [shown EXCEPT ![p] = "error"]
  /\ backlog' = [backlog EXCEPT ![p] = 0]
  /\ UNCHANGED <<kernelVars, saved, recording, stored, refused>>

(* Reading the socket fails: the error is reported, the thread polls on.   *)
RecvFails(p) ==
  /\ pc[p] = "poll"
  /\ shown' = [shown EXCEPT ![p] = "error"]
  /\ UNCHANGED <<kernelVars, backlog, pc, saved, recording, stored, refused>>

(* Faulty variant: the history is appended to without a look at its limit. *)
PushUnbounded(p) ==
  /\ Goto(p, "push", "poll")
  /\ stored' = [stored EXCEPT ![p] = @ + 1]
  /\ UNCHANGED <<kernelVars, backlog, saved, recording, refused, shown>>

(* The event is appended to the history.                                   *)
Push(p) ==
  /\ stored[p] < Limit
  /\ Goto(p, "push", "poll")
  /\ stored' = [stored EXCEPT ![p] = @ + 1]
  /\ UNCHANGED <<kernelVars, backlog, saved, recording, refused, shown>>

(* Faulty variant: the error is reported, capture stays on.                *)
WebuiRefuseKeepsOn(w) ==
  /\ stored[w] = Limit
  /\ Goto(w, "push", "poll")
  /\ refused' = [refused EXCEPT ![w] = TRUE]
  /\ shown'   = [shown EXCEPT ![w] = "error"]
  /\ UNCHANGED <<kernelVars, backlog, saved, recording, stored>>

(* CapacityLimit in the WebUI: with the state locked the capture is        *)
(* switched off and the error reported.                                    *)
WebuiRefuse(w) ==
  /\ stored[w] = Limit
  /\ Goto(w, "push", "poll")
  /\ SetConfig(w, Off)
  /\ refused' = [refused EXCEPT ![w] = TRUE]
  /\ shown'   = [shown EXCEPT ![w] = "error"]
  /\ UNCHANGED <<backlog, saved, recording, stored>>

(* Faulty variant: every write error takes the path without the ioctl.     *)
McpRefuseKeepsOn(m) ==
  /\ stored[m] = Limit
  /\ Goto(m, "push", "report")
  /\ refused' = [refused EXCEPT ![m] = TRUE]
  /\ UNCHANGED <<kernelVars, backlog, saved, recording, stored, shown>>

(* CapacityLimit in the MCP server: with the store locked the capture is   *)
(* switched off, under the client lock, and then the error is reported.    *)
McpRefuse(m) ==
  /\ stored[m] = Limit
  /\ Goto(m, "push", "report")
  /\ SetConfig(m, Off)
  /\ refused' = [refused EXCEPT ![m] = TRUE]
  /\ UNCHANGED <<backlog, saved, recording, stored, shown>>

McpReport(m) ==
  /\ Goto(m, "report", "poll")
  /\ shown' = [shown EXCEPT ![m] = "error"]
  /\ UNCHANGED <<kernelVars, backlog, saved, recording, stored, refused>>

Serving(p) == pc[p] \in {"poll", "push", "report", "idle"}

(* Faulty variant: a cleared history counts as a recovered source.         *)
ClearHistoryRecovers(p) ==
  /\ Serving(p) /\ pc[p] # "report"
  /\ stored' = [stored EXCEPT ![p] = 0]
  /\ shown'  = [shown EXCEPT ![p] = "connected"]
  /\ UNCHANGED <<kernelVars, backlog, pc, saved, recording, refused>>

(* POST /api/events/clear and binder_trace_clear_history: the state of the *)
(* source is not touched.  The MCP store is locked until after the report. *)
ClearHistory(p) ==
  /\ Serving(p) /\ pc[p] # "report"
  /\ stored' = [stored EXCEPT ![p] = 0]
  /\ UNCHANGED <<kernelVars, backlog, pc, saved, recording, refused, shown>>

(* binder_trace_enable and binder_trace_disable.                           *)
McpTool(m) ==
  /\ Serving(m) /\ m \in Control
  /\ \E c \in {m, Off} : SetConfig(m, c)
  /\ UNCHANGED <<backlog, pc, saved, recording, viewVars>>

-----------------------------------------------------------------------------

AgentStep(a) ==
  AgentConnect(a) \/ AgentSave(a) \/ AgentEnable(a) \/ AgentCollect(a) \/ AgentFails(a)

TuiStep(t) ==
  \/ TuiConnect(t) \/ TuiEnable(t) \/ TuiOpen(t)
  \/ TuiDrain(t) \/ TuiToggle(t) \/ TuiQuit(t)

(* What the collector thread does by itself once it has an event in hand.  *)
Handle(p) ==
  \/ Push(p)
  \/ p \in Webuis /\ WebuiRefuse(p)
  \/ p \in Mcps /\ (McpRefuse(p) \/ McpReport(p))

CollectorStep(p) ==
  \/ Connect(p) \/ Enable(p) \/ Open(p) \/ Recv(p) \/ RecvFails(p) \/ CollectorFails(p)
  \/ Handle(p)
  \/ ClearHistory(p)
  \/ p \in Mcps /\ McpTool(p)

Next ==
  \/ DecideToTrace \/ EmitEvent
  \/ \E p \in Programs : Start(p) \/ Kill(p)
  \/ \E a \in Agents : AgentStep(a)
  \/ \E t \in Tuis : TuiStep(t)
  \/ \E p \in Collectors : CollectorStep(p)

Spec == Init /\ [][Next]_vars

(* A collector thread with an event in hand runs on.                       *)
FairSpec == Spec /\ \A p \in Collectors : WF_vars(Handle(p))

-----------------------------------------------------------------------------
(* Properties.                                                             *)

(* Every variable holds a value the programs can give it.                  *)
TypeOK ==
  /\ cast \in Casts
  /\ config \in Programs \cup {Off}
  /\ writer \in Programs \cup {Off}
  /\ inflight \in BOOLEAN
  /\ backlog \in [Programs -> 0 .. MaxBacklog]
  /\ pc \in [Programs -> {"off", "killed", "start", "save", "configure", "open", "run",
                          "poll", "push", "report", "idle"}]
  /\ saved \in [Agents -> Programs \cup {Off}]
  /\ recording \in [Tuis -> BOOLEAN]
  /\ stored \in [Collectors -> 0 .. Limit]
  /\ refused \in [Collectors -> BOOLEAN]
  /\ shown \in [Collectors -> {"disabled", "connecting", "connected", "error"}]

(* Whatever the other programs do, a program that wrote the configuration  *)
(* last has left it as its own state says: an agent that runs captures     *)
(* with its filters and one that ended has put back what it found, a TUI   *)
(* captures exactly while it records, and a collector keeps what it        *)
(* configured until its history is full.                                   *)
ConfigFollowsItsWriter ==
  /\ \A a \in Agents : writer = a =>
       /\ pc[a] = "run" => config = a
       /\ pc[a] = "off" => config = saved[a]
  /\ \A t \in Tuis : writer = t =>
       /\ pc[t] = "run" => config = IF recording[t] THEN t ELSE Off
       /\ pc[t] = "off" => config = Off
  /\ \A w \in Webuis : writer = w /\ pc[w] = "poll" =>
       config = IF refused[w] THEN Off ELSE w

(* Nobody is shown a connected source whose history misses an event that   *)
(* was read: from the refusal on the error stays, over clearing and        *)
(* re-enabling too.                                                        *)
RefusalStaysVisible ==
  \A p \in Collectors :
    refused[p] => shown[p] = "error" \/ pc[p] \in {"report", "killed"}

(* An event that finds the history full leads to capture being switched    *)
(* off, or the program goes away (README.en.md:178).                       *)
FullHistoryStopsCapture ==
  \A p \in Collectors :
    (pc[p] = "push" /\ stored[p] = Limit)
      ~> (config = Off \/ pc[p] = "killed" \/ stored[p] < Limit)

(* What README.en.md:106 says of webui --no-enable: it does not modify the *)
(* kernel capture configuration.                                           *)
ReadOnlyKeepsConfig == writer \notin Webuis \cap ReadOnly
=============================================================================
