--------------------------- MODULE CaptureHistory ---------------------------
(***************************************************************************)
(* The history file of a capture program                                   *)
(* (crates/bt-agent/src/capture_history.rs): a header and a row of event   *)
(* slots, mapped into memory, that events are received into directly.      *)
(*                                                                         *)
(* A session is one CaptureHistory value from create to drop.  Any number  *)
(* of them can be given the same path: nothing in create looks for another *)
(* one.  A session may be killed between any two steps; the file keeps     *)
(* what was written to the mapping, as the page cache does.  A step that   *)
(* touches the mapping where the file no longer reaches (another session   *)
(* truncated it) is not possible: the kernel kills the program there.      *)
(***************************************************************************)
EXTENDS Integers, Sequences, FiniteSets

CONSTANTS
  Sessions,   (* the sessions on one path                                  *)
  Events,     (* the events                                                *)
  Hole,       (* a slot nothing was written to: zeros                      *)
  Initial,    (* capacity of a new file, in events                         *)
  MaxEvents,  (* capacity the file size limit allows                       *)
  Guarded     (* the path is the default one, binder-trace/events.btcap    *)

ASSUME HistoryAssumption ==
  /\ Initial \in Nat \ {0}
  /\ MaxEvents \in Nat
  /\ Initial <= MaxEvents
  /\ Hole \notin Events
  /\ Guarded \in BOOLEAN

VARIABLES
  file,       (* the file: its length in slots (0: truncated), its header, *)
              (* its slots                                                 *)
  mode,       (* who may write to the parent directory                     *)
  pc,         (* where a session is                                        *)
  count,      (* CaptureHistory.count                                      *)
  capacity,   (* CaptureHistory.capacity                                   *)
  refused,    (* the last append or receive ran into CapacityLimit         *)
  restore,    (* CapturePathLock.restore_mode                              *)
  locked,     (* CapturePathLock.locked                                    *)
  mixed,      (* the file was opened while another session had it          *)
  orphaned    (* a session was killed with the directory locked, and none  *)
              (* has restored or raised the mode since                     *)

dataVars == <<file, count, capacity, refused, mixed>>
dirVars  == <<mode, restore, locked, orphaned>>
vars     == <<dataVars, dirVars, pc>>

(* Who the write bits of the directory's mode let write.                   *)
Modes == SUBSET {"owner", "others"}

Slots == 0 .. MaxEvents - 1

Empty == [i \in Slots |-> Hole]

NoHeader == [made |-> FALSE, count |-> 0, capacity |-> 0]

Init ==
  /\ file     = [len |-> 0, header |-> NoHeader, slot |-> Empty]
  /\ mode     \in {m \in Modes : "owner" \in m}
  /\ pc       = [s \in Sessions |-> "none"]
  /\ count    = [s \in Sessions |-> 0]
  /\ capacity = [s \in Sessions |-> 0]
  /\ refused  = [s \in Sessions |-> FALSE]
  /\ restore  = [s \in Sessions |-> {}]
  /\ locked   = [s \in Sessions |-> FALSE]
  /\ mixed    = FALSE
  /\ orphaned = FALSE

Goto(s, from, to) ==
  /\ pc[s] = from
  /\ pc' = [pc EXCEPT ![s] = to]

(* The sessions that have a CaptureHistory, and with it the file mapped.   *)
Keeping == {s \in Sessions :
              pc[s] \in {"sized", "made", "idle", "grown", "slot", "filled",
                         "publish"}}

Opened == {s \in Sessions : pc[s] = "opened"}

(* set_len: what lies beyond the new end is gone, what is new is zeros.    *)
Resized(n) ==
  [file EXCEPT !.len  = n,
               !.slot = [i \in Slots |-> IF i < n THEN file.slot[i] ELSE Hole]]

-----------------------------------------------------------------------------
(* Creation.                                                               *)

(* Faulty variant: the mode to restore is the one found, even if locked.   *)
StatAsFound(s) ==
  /\ IF Guarded
       THEN /\ Goto(s, "none", IF "owner" \in mode THEN "prepared" ELSE "raise")
            /\ restore' = [restore EXCEPT ![s] = mode]
       ELSE Goto(s, "none", "prepared") /\ UNCHANGED restore
  /\ UNCHANGED <<dataVars, mode, locked, orphaned>>

(* The mode to restore is the one found, made writable for the owner.      *)
Stat(s) ==
  /\ IF Guarded
       THEN /\ Goto(s, "none", IF "owner" \in mode THEN "prepared" ELSE "raise")
            /\ restore' = [restore EXCEPT ![s] = mode \cup {"owner"}]
       ELSE Goto(s, "none", "prepared") /\ UNCHANGED restore
  /\ UNCHANGED <<dataVars, mode, locked, orphaned>>

Raise(s) ==
  /\ Goto(s, "raise", "prepared")
  /\ mode' = restore[s]
  /\ orphaned' = FALSE
  /\ UNCHANGED <<dataVars, restore, locked>>

(* Faulty variant: an old file is opened without truncating it.            *)
OpenKeeps(s) ==
  /\ Goto(s, "prepared", "opened")
  /\ mixed' = (Keeping \cup Opened # {})
  /\ UNCHANGED <<file, count, capacity, refused, dirVars>>

(* The file is created, or truncated under whoever has it mapped.          *)
Open(s) ==
  /\ Goto(s, "prepared", "opened")
  /\ file'  = [len |-> 0, header |-> NoHeader, slot |-> Empty]
  /\ mixed' = (Keeping \cup Opened # {})
  /\ UNCHANGED <<count, capacity, refused, dirVars>>

(* The file gets its length and is mapped; count and capacity are set.     *)
SetLen(s) ==
  /\ Goto(s, "opened", "sized")
  /\ file'     = Resized(Initial)
  /\ count'    = [count EXCEPT ![s] = 0]
  /\ capacity' = [capacity EXCEPT ![s] = Initial]
  /\ refused'  = [refused EXCEPT ![s] = FALSE]
  /\ UNCHANGED <<mixed, dirVars>>

MakeHeader(s) ==
  /\ Goto(s, "sized", "made")
  /\ file.len > 0
  /\ file' = [file EXCEPT !.header =
                [made |-> TRUE, count |-> 0, capacity |-> Initial]]
  /\ UNCHANGED <<count, capacity, refused, mixed, dirVars>>

Lock(s) ==
  /\ Goto(s, "made", "idle")
  /\ IF Guarded
       THEN mode' = {} /\ locked' = [locked EXCEPT ![s] = TRUE]
       ELSE UNCHANGED <<mode, locked>>
  /\ UNCHANGED <<dataVars, restore, orphaned>>

(* A system call of create fails; an unlocked CapturePathLock restores     *)
(* nothing when it is dropped.                                             *)
CreateFails(s) ==
  /\ pc[s] \in {"raise", "prepared", "opened", "sized", "made"}
  /\ pc' = [pc EXCEPT ![s] = "none"]
  /\ UNCHANGED <<dataVars, dirVars>>

-----------------------------------------------------------------------------
(* Receiving into the next slot.                                           *)

(* Faulty variant: the last doubling overshoots the limit.                 *)
GrownUnbounded(s) == 2 * capacity[s]

Grown(s) == IF 2 * capacity[s] < MaxEvents THEN 2 * capacity[s] ELSE MaxEvents

(* ensure_capacity(count + 1) finds room.                                  *)
HasRoom(s) ==
  /\ Goto(s, "idle", "slot")
  /\ count[s] < capacity[s]
  /\ UNCHANGED <<dataVars, dirVars>>

(* Faulty variant: no growth when doubling does not fit.                   *)
RefuseEarly(s) ==
  /\ pc[s] = "idle"
  /\ count[s] >= capacity[s]
  /\ 2 * capacity[s] > MaxEvents
  /\ refused' = [refused EXCEPT ![s] = TRUE]
  /\ UNCHANGED <<file, count, capacity, mixed, dirVars, pc>>

Refuse(s) ==
  /\ pc[s] = "idle"
  /\ count[s] >= capacity[s]
  /\ count[s] >= MaxEvents
  /\ refused' = [refused EXCEPT ![s] = TRUE]
  /\ UNCHANGED <<file, count, capacity, mixed, dirVars, pc>>

(* Faulty variant: the capacity is raised before the file has grown.       *)
GrowFileLate(s) ==
  /\ Goto(s, "idle", "grown")
  /\ count[s] >= capacity[s]
  /\ count[s] < MaxEvents
  /\ capacity' = [capacity EXCEPT ![s] = Grown(s)]
  /\ UNCHANGED <<file, count, refused, mixed, dirVars>>

GrowFile(s) ==
  /\ Goto(s, "idle", "grown")
  /\ count[s] >= capacity[s]
  /\ count[s] < MaxEvents
  /\ file' = Resized(Grown(s))
  /\ UNCHANGED <<count, capacity, refused, mixed, dirVars>>

(* The longer file is mapped and the header follows.                       *)
GrowMap(s) ==
  /\ Goto(s, "grown", "slot")
  /\ file.len > 0
  /\ capacity' = [capacity EXCEPT ![s] = Grown(s)]
  /\ file' = [file EXCEPT !.header.capacity = Grown(s),
                          !.header.count    = count[s]]
  /\ UNCHANGED <<count, refused, mixed, dirVars>>

(* The longer file cannot be mapped: the old mapping and capacity stay.    *)
GrowFails(s) ==
  /\ Goto(s, "grown", "idle")
  /\ UNCHANGED <<dataVars, dirVars>>

Reachable(s) == count[s] < file.len

(* Faulty variant: the slot of the last event, not the next one.           *)
FillLast(s, e) ==
  /\ Reachable(s)
  /\ file' = [file EXCEPT !.slot[IF count[s] = 0 THEN 0 ELSE count[s] - 1] = e]
  /\ UNCHANGED <<count, capacity, refused, mixed, dirVars>>

Fill(s, e) ==
  /\ Reachable(s)
  /\ file' = [file EXCEPT !.slot[count[s]] = e]
  /\ UNCHANGED <<count, capacity, refused, mixed, dirVars>>

(* An event is received, or appended by the caller.                        *)
Accept(s, e) == Goto(s, "slot", "filled") /\ Fill(s, e)

(* The event received is not wanted: the loop comes back to the same slot, *)
(* for which there is still room.                                          *)
Skip(s, e) == pc[s] = "slot" /\ Fill(s, e) /\ UNCHANGED pc

(* No event is pending, or receiving fails.                                *)
Nothing(s) ==
  /\ Goto(s, "slot", "idle")
  /\ UNCHANGED <<dataVars, dirVars>>

Commit(s) ==
  /\ Goto(s, "filled", "publish")
  /\ count' = [count EXCEPT ![s] = @ + 1]
  /\ UNCHANGED <<file, capacity, refused, mixed, dirVars>>

(* The header follows the count, after a commit and after a clear.         *)
Publish(s) ==
  /\ Goto(s, "publish", "idle")
  /\ file.len > 0
  /\ file' = [file EXCEPT !.header.count = count[s]]
  /\ UNCHANGED <<count, capacity, refused, mixed, dirVars>>

-----------------------------------------------------------------------------
(* Clearing and the end.                                                   *)

Clear(s) ==
  /\ Goto(s, "idle", "publish")
  /\ count'   = [count EXCEPT ![s] = 0]
  /\ refused' = [refused EXCEPT ![s] = FALSE]
  /\ UNCHANGED <<file, capacity, mixed, dirVars>>

(* Drop: a lock that was taken puts the mode back.                         *)
End(s) ==
  /\ Goto(s, "idle", "none")
  /\ IF locked[s]
       THEN /\ mode'     = restore[s]
            /\ locked'   = [locked EXCEPT ![s] = FALSE]
            /\ orphaned' = FALSE
       ELSE UNCHANGED <<mode, locked, orphaned>>
  /\ UNCHANGED <<dataVars, restore>>

Kill(s) ==
  /\ pc[s] # "none"
  /\ pc'       = [pc EXCEPT ![s] = "none"]
  /\ locked'   = [locked EXCEPT ![s] = FALSE]
  /\ orphaned' = (orphaned \/ locked[s])
  /\ UNCHANGED <<dataVars, mode, restore>>

Step(s) ==
  \/ Stat(s) \/ Raise(s) \/ Open(s) \/ SetLen(s) \/ MakeHeader(s) \/ Lock(s)
  \/ CreateFails(s)
  \/ HasRoom(s) \/ Refuse(s) \/ GrowFile(s) \/ GrowMap(s) \/ GrowFails(s)
  \/ \E e \in Events : Accept(s, e) \/ Skip(s, e)
  \/ Nothing(s) \/ Commit(s) \/ Publish(s)
  \/ Clear(s) \/ End(s) \/ Kill(s)

Next == \E s \in Sessions : Step(s)

Spec == Init /\ [][Next]_vars

-----------------------------------------------------------------------------
(* Properties.                                                             *)

Files ==
  [len    : 0 .. MaxEvents,
   header : [made : BOOLEAN, count : 0 .. MaxEvents, capacity : 0 .. MaxEvents],
   slot   : [Slots -> Events \cup {Hole}]]

(* Lengths and counts stay within the limit max_event_capacity computed    *)
(* from the file size limit.                                               *)
TypeOK ==
  /\ file \in Files
  /\ mode \in Modes
  /\ pc \in [Sessions -> {"none", "raise", "prepared", "opened", "sized",
                          "made", "idle", "grown", "slot", "filled",
                          "publish"}]
  /\ count \in [Sessions -> 0 .. MaxEvents]
  /\ capacity \in [Sessions -> 0 .. MaxEvents]
  /\ refused \in [Sessions -> BOOLEAN]
  /\ restore \in [Sessions -> Modes]
  /\ locked \in [Sessions -> BOOLEAN]
  /\ mixed \in BOOLEAN
  /\ orphaned \in BOOLEAN

(* Whenever the program is killed, what it leaves is a file whose header   *)
(* can be trusted: the events it counts are within the capacity it states, *)
(* the capacity is within the file, and each of them was written.          *)
LeftoversReadable ==
  file.header.made /\ ~mixed =>
    /\ file.header.count <= file.header.capacity
    /\ file.header.capacity <= file.len
    /\ \A i \in Slots : i < file.header.count => file.slot[i] # Hole

(* A session that has the file to itself never touches the mapping beyond  *)
(* the end of the file, however often growing failed half way.             *)
StaysInsideTheFile ==
  ~mixed => \A s \in Sessions :
              /\ pc[s] \in {"sized", "grown", "publish"} => file.len > 0
              /\ pc[s] = "slot" => Reachable(s)
              /\ pc[s] = "idle" => count[s] <= file.len

(* Events are refused for want of capacity only when the file holds as     *)
(* many as the size limit allows.                                          *)
RefusesOnlyWhenFull ==
  \A s \in Sessions : refused[s] => count[s] = MaxEvents

(* Once no session holds the directory locked, its owner can write to it   *)
(* again, whatever the order in which they came and went; only a session   *)
(* that was killed leaves it locked.                                       *)
DirectoryIsGivenBack ==
  (\A s \in Sessions : ~locked[s]) /\ ~orphaned => "owner" \in mode

(* As the test locks_default_events_parent_until_history_is_dropped has    *)
(* it: while a history is alive, nobody can write to its directory.        *)
LockedUntilDropped ==
  \A s \in Sessions : locked[s] => mode = {}

(* The history a session with the file to itself reads back with event_at. *)
Log ==
  IF mixed \/ Keeping = {} THEN <<>>
  ELSE LET s == CHOOSE k \in Keeping : TRUE
       IN  [i \in 1 .. count[s] |-> file.slot[i - 1]]

History == INSTANCE HistoryLog WITH log <- Log

(* Through mapping, growing, half-failed growing, skipping and clearing,   *)
(* the file implements an append-only log with a limit.                    *)
KeepsTheHistory == History!Spec

-----------------------------------------------------------------------------
(* What the proofs add to the properties.                                  *)

(* A session's own counters, whatever others do to the file.               *)
CountersSound ==
  \A s \in Sessions :
    /\ refused[s] => count[s] = MaxEvents
    /\ s \in Keeping => Initial <= capacity[s] /\ count[s] <= capacity[s]
    /\ pc[s] \in {"sized", "made"} => count[s] = 0 /\ capacity[s] = Initial
    /\ pc[s] \in {"slot", "filled"} => count[s] < capacity[s]
    /\ pc[s] = "grown" => count[s] = capacity[s] /\ count[s] < MaxEvents

(* Who holds the directory locked, and what restoring will do.             *)
DirectorySound ==
  /\ \A s \in Sessions :
       /\ Guarded /\ pc[s] # "none" => "owner" \in restore[s]
       /\ pc[s] = "raise" => Guarded
       /\ locked[s] => /\ Guarded
                       /\ pc[s] \in {"idle", "grown", "slot", "filled",
                                     "publish"}
  /\ DirectoryIsGivenBack

(* The file of a session that has it to itself agrees with its counters.   *)
FileAgrees(s) ==
  /\ capacity[s] <= file.len
  /\ pc[s] = "sized" <=> ~file.header.made
  /\ pc[s] # "sized" => /\ file.header.capacity = capacity[s]
                        /\ file.header.count <= capacity[s]
  /\ pc[s] \in {"made", "idle", "grown", "slot", "filled"} =>
       file.header.count = count[s]
  /\ \A i \in Slots : i < count[s] => file.slot[i] # Hole
  /\ pc[s] = "filled" => file.slot[count[s]] # Hole
  /\ pc[s] = "grown" => file.len = Grown(s)

FileSound ==
  ~mixed =>
    /\ \A s, t \in Keeping \cup Opened : s = t
    /\ \A s \in Opened : ~file.header.made
    /\ \A s \in Keeping : FileAgrees(s)
    /\ LeftoversReadable

IndInv == TypeOK /\ CountersSound /\ DirectorySound /\ FileSound
=============================================================================
