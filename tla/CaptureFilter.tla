---------------------------- MODULE CaptureFilter ---------------------------
(***************************************************************************)
(* The capture filter of the kernel module (kernel/src/core/bt_capture.c), *)
(* the requests that set it (ipc/bt_control.c, SocketIpcClient, the        *)
(* commands of bt-cli and the tools of the MCP server), and the counters   *)
(* of what it let through.                                                 *)
(*                                                                         *)
(* Threads of the system run through the hooks while clients change the    *)
(* configuration and clear the counters.  A thread counts its hit, copies  *)
(* the configuration under the lock, and decides from its copy.  No        *)
(* program asks for a filter by ioctl command.                             *)
(***************************************************************************)
EXTENDS Integers, SequencesExt

CONSTANTS
  Threads,
  Task,           (* the process, thread and user id of a thread           *)
  Calls,          (* what a hook sees: its point, the size it hands to     *)
                  (* should_trace, and the data the call carries           *)
  Clients,        (* sockets of programs with control                      *)
  Options,        (* what a user may ask for; a field is {} or one value   *)
  ServerOptions,  (* the options the MCP server was started with           *)
  MaxCalls        (* bound: how many calls the threads make                *)

POINTS == {"ioctl", "copy", "transaction"}         (* BT_CAPTURE_POINT_ALL *)

FilterAssumption ==
  /\ IsFiniteSet(Threads)
  /\ \A t \in Threads : Task[t].tgid > 0 /\ Task[t].pid > 0
  /\ \A c \in Calls : c.point \in POINTS /\ c.size \in Nat
  /\ MaxCalls \in Nat

VARIABLES
  config,         (* bt_capture_config                                     *)
  counters,       (* bt_ioctl_hits .. bt_filtered                          *)
  clearing,       (* the counter a client resets next; 0: it clears none   *)
  at,             (* how far a thread is in bt_capture_should_trace        *)
  call,           (* what it was called for                                *)
  copied,         (* its copy of the configuration                         *)
  could,          (* the verdicts of the configurations in force since its *)
                  (* hit                                                   *)
  calls

vars == <<config, counters, clearing, at, call, copied, could, calls>>

-----------------------------------------------------------------------------
(* What the programs ask for.                                              *)

AllPoints ==
  [on |-> TRUE, points |-> POINTS, tgid |-> 0, pid |-> 0, uid |-> {},
   min |-> 0, max |-> 0]
BinderTransactionEnabled == [AllPoints EXCEPT !.points = {"transaction"}]
Disabled                 == [AllPoints EXCEPT !.on = FALSE]

OrElse(given, default) == IF given = {} THEN default ELSE CHOOSE v \in given : TRUE

(* An option that was given replaces what the base says.                   *)
EnableCaptureParams(o, base) ==
  [base EXCEPT !.on   = TRUE,
               !.tgid = OrElse(o.tgid, @),
               !.pid  = OrElse(o.pid, @),
               !.uid  = IF o.uid = {} THEN @ ELSE o.uid,
               !.min  = OrElse(o.min, @),
               !.max  = OrElse(o.max, @)]

(* tui and webui have no options for sizes.                                *)
FrontEndRequest(o) ==
  EnableCaptureParams([o EXCEPT !.min = {}, !.max = {}], BinderTransactionEnabled)
McpRequest(o) == EnableCaptureParams(o, BinderTransactionEnabled)
ToolRequest(o) == EnableCaptureParams(o, McpRequest(ServerOptions))

-----------------------------------------------------------------------------
(* The decision.                                                           *)

FitsTask(c, task) ==
  /\ c.tgid > 0 => task.tgid = c.tgid
  /\ c.pid > 0 => task.pid = c.pid
  /\ c.uid # {} => task.uid \in c.uid

WithinSizes(c, size) ==
  /\ c.min # 0 => size >= c.min
  /\ c.max # 0 => size <= c.max

Wants(c, task, k) ==
  c.on /\ k.point \in c.points /\ FitsTask(c, task) /\ WithinSizes(c, k.size)

(* bt_capture_set_config refuses an empty range of sizes.                  *)
Accepted(c) == c.max # 0 => c.min <= c.max

Running(t) == at[t] \in {"hit", "copied"}

(* The configuration takes effect; the threads under way may see it.       *)
SetConfig(c) ==
  /\ config' = c
  /\ could'  = [t \in Threads |->
                  IF Running(t) THEN could[t] \cup {Wants(c, Task[t], call[t])}
                  ELSE could[t]]

-----------------------------------------------------------------------------
COUNTERS == <<"ioctl", "copy", "transaction", "captured", "filtered">>

(* bt_capture_init.                                                        *)
Init ==
  /\ config   = Disabled
  /\ counters = [n \in ToSet(COUNTERS) |-> 0]
  /\ clearing = [p \in Clients |-> 0]
  /\ at       = [t \in Threads |-> "out"]
  /\ call     = [t \in Threads |-> CHOOSE c \in Calls : TRUE]
  /\ copied   = [t \in Threads |-> Disabled]
  /\ could    = [t \in Threads |-> {}]
  /\ calls    = 0

(* A request that is accepted is followed by clearing the counters.        *)
Enable(p, c) ==
  /\ clearing[p] = 0
  /\ Accepted(c)
  /\ SetConfig(c)
  /\ clearing' = [clearing EXCEPT ![p] = 1]
  /\ UNCHANGED <<counters, at, call, copied, calls>>

(* A front-end starts without --no-enable, the MCP server starts with      *)
(* --enable, its tool is used.                                             *)
FrontEndStarts(p, o) == Enable(p, FrontEndRequest(o))
McpStarts(p, o)      == Enable(p, McpRequest(o))
EnableTool(p, o)     == Enable(p, ToolRequest(o))

(* ipc enable, ipc disable and the tool that disables leave the counters.  *)
EnableAll(p) ==
  /\ clearing[p] = 0
  /\ SetConfig(AllPoints)
  /\ UNCHANGED <<counters, clearing, at, call, copied, calls>>

Disable(p) ==
  /\ clearing[p] = 0
  /\ SetConfig(Disabled)
  /\ UNCHANGED <<counters, clearing, at, call, copied, calls>>

(* ipc clear-stats and the tool that clears.                               *)
ClearStats(p) ==
  /\ clearing[p] = 0
  /\ clearing' = [clearing EXCEPT ![p] = 1]
  /\ UNCHANGED <<config, counters, at, call, copied, could, calls>>

(* One counter after the other is set to zero, with no lock.               *)
ClearNext(p) ==
  /\ clearing[p] # 0
  /\ counters' = [counters EXCEPT ![COUNTERS[clearing[p]]] = 0]
  /\ clearing' = [clearing EXCEPT ![p] = (@ + 1) % (Len(COUNTERS) + 1)]
  /\ UNCHANGED <<config, at, call, copied, could, calls>>

(* A hook is entered, and bt_capture_note_hit counts it.                   *)
NoteHit(t, k) ==
  /\ at[t] = "out"
  /\ calls < MaxCalls
  /\ calls'    = calls + 1
  /\ at'       = [at EXCEPT ![t] = "hit"]
  /\ call'     = [call EXCEPT ![t] = k]
  /\ could'    = [could EXCEPT ![t] = {Wants(config, Task[t], k)}]
  /\ counters' = [counters EXCEPT ![k.point] = @ + 1]
  /\ UNCHANGED <<config, clearing, copied>>

CopyConfig(t) ==
  /\ at[t] = "hit"
  /\ at'     = [at EXCEPT ![t] = "copied"]
  /\ copied' = [copied EXCEPT ![t] = config]
  /\ UNCHANGED <<config, counters, clearing, call, could, calls>>

(* Faulty variant: the ids are compared with the configuration itself, not *)
(* with the copy that was taken of it under the lock.                      *)
DecideTorn(t) ==
  LET wanted == /\ copied[t].on /\ call[t].point \in copied[t].points
                /\ WithinSizes(copied[t], call[t].size)
                /\ FitsTask([config EXCEPT !.tgid = copied[t].tgid], Task[t])
  IN
  /\ at[t] = "copied"
  /\ at' = [at EXCEPT ![t] = IF wanted THEN "captured" ELSE "ignored"]
  /\ UNCHANGED <<config, counters, clearing, call, copied, could, calls>>

(* A call is captured or filtered; when capture is off, it is neither.     *)
Decide(t) ==
  LET wanted == Wants(copied[t], Task[t], call[t])
  IN
  /\ at[t] = "copied"
  /\ at' = [at EXCEPT ![t] = IF wanted THEN "captured" ELSE "ignored"]
  /\ counters' = IF ~copied[t].on THEN counters
                 ELSE IF wanted THEN [counters EXCEPT !.captured = @ + 1]
                 ELSE [counters EXCEPT !.filtered = @ + 1]
  /\ UNCHANGED <<config, clearing, call, copied, could, calls>>

(* The hook goes on to its original.                                       *)
Leave(t) ==
  /\ at[t] \in {"captured", "ignored"}
  /\ at'     = [at EXCEPT ![t] = "out"]
  /\ call'   = [call EXCEPT ![t] = CHOOSE c \in Calls : TRUE]
  /\ copied' = [copied EXCEPT ![t] = Disabled]
  /\ could'  = [could EXCEPT ![t] = {}]
  /\ UNCHANGED <<config, counters, clearing, calls>>

Next ==
  \/ \E p \in Clients :
       \/ \E o \in Options : FrontEndStarts(p, o) \/ McpStarts(p, o) \/ EnableTool(p, o)
       \/ EnableAll(p) \/ Disable(p) \/ ClearStats(p) \/ ClearNext(p)
  \/ \E t \in Threads :
       \/ \E k \in Calls : NoteHit(t, k)
       \/ CopyConfig(t) \/ Decide(t) \/ Leave(t)

Spec == Init /\ [][Next]_vars

-----------------------------------------------------------------------------
(* Properties.                                                             *)

(* A call is captured only if a configuration that was in force while it   *)
(* was decided wants it, and ignored only if one does not: a change of     *)
(* several fields never lets through what neither the old nor the new      *)
(* request asked for.                                                      *)
VerdictWasAskedFor ==
  \A t \in Threads : /\ at[t] = "captured" => TRUE \in could[t]
                     /\ at[t] = "ignored" => FALSE \in could[t]

Hits == counters.ioctl + counters.copy + counters.transaction

(* While nobody clears the counters, there are no more verdicts than hits, *)
(* but for the calls that were under way when the hits were cleared, at    *)
(* most one of each thread.                                                *)
VerdictsFollowHits ==
  (\A p \in Clients : clearing[p] = 0) =>
    counters.captured + counters.filtered <= Hits + Cardinality(Threads)

(* What makes it so: the hits are cleared before the verdicts, so that a   *)
(* counter of verdicts nobody is about to clear is younger than they are.  *)
VerdictsBalance ==
  LET underWay == Cardinality({t \in Threads : Running(t)})
      Nobody(from, to) == \A p \in Clients : clearing[p] \notin from .. to
  IN  /\ Nobody(2, 4) => counters.captured + underWay <= Hits + Cardinality(Threads)
      /\ Nobody(2, 5) => counters.captured + counters.filtered + underWay
                            <= Hits + Cardinality(Threads)

CapturedAsAsked == VerdictWasAskedFor /\ VerdictsFollowHits

(* As the help of --min-size and --max-size and the comments of            *)
(* EnableCaptureParams have it: what is captured has a data size within    *)
(* the limits.                                                             *)
DataSizeDecides ==
  \A t \in Threads : at[t] = "captured" => WithinSizes(copied[t], call[t].data)
=============================================================================
