----------------------------- MODULE SideBySide -----------------------------
(***************************************************************************)
(* Eight parts of the system that share no state, side by side, so that    *)
(* one run checks them all: how programs find the kernel module, its       *)
(* filter, how the agent writes what it reads, the files programs publish, *)
(* the TUI's keyboard, its loop with the list, and its panes, and the      *)
(* guard bits of the hooked pages.  Steps of different parts commute; a    *)
(* behaviour therefore is one of a single part, with the others as they    *)
(* start.  The panes stand on the list, and both parts use its variables.  *)
(***************************************************************************)
EXTENDS SocketFamily

CONSTANTS
  MaxBatch, AgentEvents,                       (* AgentRun                 *)
  Programs,                                    (* PublishedFiles           *)
  Typed, ReadSize, MaxKeys,                    (* TuiKeys                  *)
  Keys, Unnamed, Payload, Rows, PageSize, MaxDrain, MaxEvents,   (* TuiPanes        *)
  ListEvents, ListPage,                        (* Tui                      *)
  Touches, Guarded,                            (* GuardPages               *)
  Threads, Task, Calls, Clients, Options, ServerOptions, MaxCalls  (* CaptureFilter *)

VARIABLES
  part,
  agentPending, taken, agentAt, object, batch, written, nextSequence, buffer, output,
  step, table, marker, tableTmp, markerTmp, loaded, unlinkable, replaced,
  keys, wire, tty, escape, done, dropped, open,
  pending, emitted, ready, phase, drained, capped, recording,
  history, window, selected, disabled, jumped,
  focus, hexdump, parsed, frequency, counted, scrolled,
  guarded, tracked, hadGp, patched, guardPhase, hook, failed,
  config, counters, clearing, deciding, call, copied, could, calls

Agent == INSTANCE AgentRun WITH MaxEvents <- AgentEvents, pending <- agentPending, pc <- agentAt
Files == INSTANCE PublishedFiles WITH pc <- step
Input == INSTANCE TuiKeys
Panes == INSTANCE TuiPanes WITH Keys <- Keys \ Unnamed, Unnamed <- {}
List  == INSTANCE Tui WITH MaxEvents <- ListEvents, PageSize <- ListPage
Guard == INSTANCE GuardPages WITH phase <- guardPhase
Filter == INSTANCE CaptureFilter WITH at <- deciding

(* What the parts need of their constants.                                 *)
ASSUME PartsAssumption ==
  /\ List!TuiAssumption /\ Panes!PanesAssumption
  /\ Filter!FilterAssumption /\ Input!KeysAssumption

familyVars == vars
agentVars  == <<agentPending, taken, agentAt, object, batch, written, nextSequence, buffer, output>>
fileVars   == <<step, table, marker, tableTmp, markerTmp, loaded, unlinkable, replaced>>
inputVars  == <<keys, wire, tty, escape, done, dropped, open>>
detailVars == <<focus, hexdump, parsed, frequency, counted, scrolled>>
paneVars   == <<pending, emitted, ready, phase, drained, capped, recording,
                history, window, selected, disabled, jumped, detailVars>>
guardVars  == <<guarded, tracked, hadGp, patched, guardPhase, hook, failed>>
filterVars == <<config, counters, clearing, deciding, call, copied, could, calls>>

AllInit ==
  /\ part \in {"family", "agent", "files", "input", "panes", "list", "guard", "filter"}
  /\ Init /\ (part = "family" \/ root)
  /\ Agent!Init /\ Files!Init /\ Input!Init /\ Panes!PInit /\ Guard!Init /\ Filter!Init

AllNext ==
  /\ UNCHANGED part
  /\ \/ /\ part = "family" /\ Next
        /\ UNCHANGED <<agentVars, fileVars, inputVars, paneVars, guardVars, filterVars>>
     \/ /\ part = "agent" /\ Agent!Next
        /\ UNCHANGED <<familyVars, fileVars, inputVars, paneVars, guardVars, filterVars>>
     \/ /\ part = "files" /\ Files!Next
        /\ UNCHANGED <<familyVars, agentVars, inputVars, paneVars, guardVars, filterVars>>
     \/ /\ part = "input" /\ Input!Next
        /\ UNCHANGED <<familyVars, agentVars, fileVars, paneVars, guardVars, filterVars>>
     \/ /\ part = "panes" /\ Panes!PNext
        /\ UNCHANGED <<familyVars, agentVars, fileVars, inputVars, guardVars, filterVars>>
     \/ /\ part = "list" /\ List!Next
        /\ UNCHANGED <<familyVars, agentVars, fileVars, inputVars, detailVars, guardVars,
                       filterVars>>
     \/ /\ part = "filter" /\ Filter!Next
        /\ UNCHANGED <<familyVars, agentVars, fileVars, inputVars, paneVars, guardVars>>
     \/ /\ part = "guard" /\ Guard!Next
        /\ UNCHANGED <<familyVars, agentVars, fileVars, inputVars, paneVars, filterVars>>

AllSpec ==
  AllInit /\ [][AllNext]_<<part, familyVars, agentVars, fileVars, inputVars, paneVars,
                           guardVars, filterVars>>

-----------------------------------------------------------------------------
(* Whatever a reader finds in a file the programs write is whole: the      *)
(* agent's lines are the events it read, each once and in order, and none  *)
(* is held back while it waits; nobody finds half a table or half a        *)
(* marker, whichever program was killed at what.                           *)
FilesAreWhole == Agent!RecordsAreWhole /\ Files!PublishedIsComplete

(* Commands come in the order of their keys, each for the key that was     *)
(* pressed, and are missing only when they were thrown away behind another *)
(* command of the same read or were swallowed by a lone escape.            *)
KeysAreAccountedFor == Input!KeysAreAccountedFor

(* The detail panes show lines the selected event has, from the position   *)
(* the user chose for it; the frequency pane's selection is an entry, and  *)
(* the counts a key works with are complete.                               *)
PanesStayInside == part = "panes" => Panes!PanesStayInside

(* Where every entry could be restored, no page a patched entry leads      *)
(* through is guarded, and the bits are back when the hooks are gone.      *)
GuardsComeBack == Guard!GuardsComeBack

(* What the hooks let through is what a request in force asked for, and    *)
(* the counters say so.                                                    *)
CapturedAsAsked == Filter!CapturedAsAsked

(* An event waits in the kernel without anything to wake the TUI's loop    *)
(* only when the last drain stopped at its limit.                          *)
NothingIsStranded == List!NothingIsStranded

(* What the list shows is the part of the history between its first and    *)
(* its last row, without what the filters exclude, unless it jumped, and   *)
(* never more rows than it has.                                            *)
WindowHasNoGaps == List!WindowHasNoGaps

(* The selected event, if the filters let it through, is in the window.    *)
SelectionIsLoaded == List!SelectionIsLoaded
=============================================================================
