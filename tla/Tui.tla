--------------------------------- MODULE Tui --------------------------------
(***************************************************************************)
(* The terminal front-end (crates/bt-cli/src/tui/mod.rs): its loop over    *)
(* an edge-triggered trace socket and the keyboard, and the list of events *)
(* it shows, a window of the history file that follows the newest event    *)
(* while that one is selected.                                             *)
(*                                                                         *)
(* The loop is one thread; only emissions of the kernel come in between.   *)
(* An event is what the filters of the frequency pane see of it, its       *)
(* interface and code; its index in the history identifies it.  Panes      *)
(* other than the list keep nothing but a scroll position.                 *)
(***************************************************************************)
EXTENDS Integers, Sequences, FiniteSetsExt

CONSTANTS
  Keys,        (* pairs of interface and code (FrequencyKey)               *)
  Unnamed,     (* what has no interface, replies first of all: it is never *)
               (* counted or filtered                                      *)
  Rows,        (* TuiState.capacity                                        *)
  PageSize,    (* rows of a page key: 10                                   *)
  MaxDrain,    (* MAX_EVENTS_PER_TICK: 512                                 *)
  MaxEvents    (* bound: how many events the kernel emits                  *)

TuiAssumption ==
  /\ Unnamed \subseteq Keys
  /\ Rows \in Nat \ {0}
  /\ PageSize \in Nat \ {0}
  /\ MaxDrain \in Nat \ {0}
  /\ MaxEvents \in Nat

VARIABLES
  pending,     (* events in the kernel the socket has not read yet         *)
  emitted,     (* how many were emitted                                    *)
  ready,       (* the AsyncFd of the socket counts as readable             *)
  phase,       (* select, drain, or shown: the drain is over               *)
  drained,     (* events read by this drain                                *)
  capped,      (* the last drain stopped at MaxDrain                       *)
  recording,   (* TuiState.recording                                       *)
  history,     (* the history file; event i is history[i + 1]              *)
  window,      (* TuiState.events, by index in the history                 *)
  selected,    (* TuiState.selected                                        *)
  disabled,    (* TuiState.disabled_frequency                              *)
  jumped       (* since the last reload or clear, the window followed an   *)
               (* event newer than the next one                            *)

loopVars == <<pending, emitted, ready, phase, drained, capped>>
listVars == <<history, window, selected, disabled, jumped>>
vars     == <<loopVars, listVars, recording>>

Init ==
  /\ pending   = <<>>
  /\ emitted   = 0
  /\ ready     = FALSE
  /\ phase     = "select"
  /\ drained   = 0
  /\ capped    = FALSE
  /\ recording = TRUE
  /\ history   = <<>>
  /\ window    = {}
  /\ selected  = 0
  /\ disabled  = {}
  /\ jumped    = FALSE

-----------------------------------------------------------------------------
(* The list.                                                               *)

(* The indices of the events the filters let through.                      *)
Visible(d) == {i \in 0 .. Len(history) - 1 : history[i + 1] \notin d}

Oldest(n, S) == {i \in S : Cardinality({j \in S : j < i}) < n}
Newest(n, S) == {i \in S : Cardinality({j \in S : j > i}) < n}

(* The selected event is the last one of the window, or there is none.     *)
FollowsTail == window = {} \/ Max(window) = selected

(* The window from half its size before the selection on.                  *)
Reloaded(sel, d) == Oldest(Rows, {i \in Visible(d) : i >= sel - Rows \div 2})

(* Faulty variant: events are pushed whether the window follows or not.    *)
PushAlways(e) ==
  /\ history'  = Append(history, e)
  /\ window'   = Newest(Rows, window \cup {Len(history)})
  /\ selected' = IF FollowsTail THEN Len(history) ELSE selected
  /\ UNCHANGED <<disabled, jumped>>

(* A received event is appended to the history and, if the window follows  *)
(* the tail and the filters let it through, to the window, which may push  *)
(* out the oldest one there; it is selected.                               *)
Push(e) ==
  LET index == Len(history)
      shown == FollowsTail /\ e \notin disabled
  IN
  /\ history' = Append(history, e)
  /\ window'   = IF shown THEN Newest(Rows, window \cup {index}) ELSE window
  /\ selected' = IF shown THEN index ELSE selected
  /\ jumped'   = (jumped \/ (/\ shown
                             /\ window # {}
                             /\ \E i \in Visible(disabled) : i > Max(window)))
  /\ UNCHANGED disabled

(* Where a key press moves the selection to, if anywhere: to the nearest   *)
(* visible event, several times for a page, to the first or the last.      *)
Targets(key) ==
  LET later   == {i \in Visible(disabled) : i > selected}
      earlier == {i \in Visible(disabled) : i < selected}
  IN CASE key = "up"       -> Newest(1, earlier)
       [] key = "down"     -> Oldest(1, later)
       [] key = "pageup"   -> Oldest(1, Newest(PageSize, earlier))
       [] key = "pagedown" -> Newest(1, Oldest(PageSize, later))
       [] key = "home"     -> Oldest(1, Visible(disabled))
       [] key = "end"      -> Newest(1, Visible(disabled))

ListKeys == {"up", "down", "pageup", "pagedown", "home", "end"}

-----------------------------------------------------------------------------
(* The loop.                                                               *)

(* The kernel emits an event; the edge makes the descriptor readable.      *)
Emit(e) ==
  /\ emitted < MaxEvents
  /\ emitted' = emitted + 1
  /\ pending' = Append(pending, e)
  /\ ready'   = TRUE
  /\ UNCHANGED <<phase, drained, capped, listVars, recording>>

(* Readiness is given up before the socket is drained.                     *)
WaitReadable ==
  /\ phase = "select"
  /\ ready
  /\ phase'   = "drain"
  /\ ready'   = FALSE
  /\ drained' = 0
  /\ UNCHANGED <<pending, emitted, capped, listVars, recording>>

Receive ==
  /\ phase = "drain"
  /\ drained < MaxDrain
  /\ pending # <<>>
  /\ recording
  /\ Push(Head(pending))
  /\ pending' = Tail(pending)
  /\ drained' = drained + 1
  /\ UNCHANGED <<emitted, ready, phase, capped, recording>>

(* While paused, events are read and thrown away.                          *)
Discard ==
  /\ phase = "drain"
  /\ drained < MaxDrain
  /\ pending # <<>>
  /\ ~recording
  /\ pending' = Tail(pending)
  /\ drained' = drained + 1
  /\ UNCHANGED <<emitted, ready, phase, capped, listVars, recording>>

(* The socket would block, or the drain has had its share.                 *)
DrainEnds ==
  /\ phase = "drain"
  /\ pending = <<>> \/ drained = MaxDrain
  /\ phase'  = "shown"
  /\ capped' = (drained = MaxDrain)
  /\ UNCHANGED <<pending, emitted, ready, drained, listVars, recording>>

(* Faulty variant: readiness is given up once the events are shown.        *)
BackToSelectForgets ==
  /\ phase = "shown"
  /\ phase' = "select"
  /\ ready' = FALSE
  /\ UNCHANGED <<pending, emitted, drained, capped, listVars, recording>>

(* The list is rendered, and the loop waits for the next thing to do.      *)
BackToSelect ==
  /\ phase = "shown"
  /\ phase' = "select"
  /\ UNCHANGED <<pending, emitted, ready, drained, capped, listVars, recording>>

(* Faulty variant: the window is not reloaded.                             *)
MoveWithoutLoading(key) ==
  /\ phase = "select"
  /\ \E sel \in (IF Targets(key) = {} THEN {selected} ELSE Targets(key)) :
       selected' = sel
  /\ UNCHANGED <<loopVars, history, window, disabled, jumped, recording>>

(* A key moves the selection; a window without it is reloaded.             *)
Move(key) ==
  /\ phase = "select"
  /\ \E sel \in (IF Targets(key) = {} THEN {selected} ELSE Targets(key)) :
       /\ selected' = sel
       /\ IF history = <<>> \/ sel \in window
            THEN UNCHANGED <<window, jumped>>
            ELSE window' = Reloaded(sel, disabled) /\ jumped' = FALSE
  /\ UNCHANGED <<loopVars, history, disabled, recording>>

(* Space in the transaction pane.                                          *)
ToggleRecording ==
  /\ phase = "select"
  /\ recording' = ~recording
  /\ UNCHANGED <<loopVars, listVars>>

(* Space in the frequency pane hides or shows what it has counted; the     *)
(* selection goes to a visible event, and the window is reloaded.          *)
ToggleFrequency(k) ==
  LET d       == IF k \in disabled THEN disabled \ {k} ELSE disabled \cup {k}
      later   == {i \in Visible(d) : i > selected}
      earlier == {i \in Visible(d) : i < selected}
      sel     == IF selected \in Visible(d) THEN selected
                 ELSE IF later # {} THEN Min(later)
                 ELSE IF earlier # {} THEN Max(earlier) ELSE 0
  IN
  /\ phase = "select"
  /\ k \notin Unnamed
  /\ \E i \in DOMAIN history : history[i] = k
  /\ disabled' = d
  /\ selected' = sel
  /\ window'   = Reloaded(sel, d)
  /\ jumped'   = FALSE
  /\ UNCHANGED <<loopVars, history, recording>>

Clear ==
  /\ phase = "select"
  /\ window'   = {}
  /\ selected' = IF history = <<>> THEN 0 ELSE Len(history) - 1
  /\ jumped'   = FALSE
  /\ UNCHANGED <<loopVars, history, disabled, recording>>

Next ==
  \/ \E e \in Keys : Emit(e)
  \/ WaitReadable \/ Receive \/ Discard \/ DrainEnds \/ BackToSelect
  \/ \E key \in ListKeys : Move(key)
  \/ ToggleRecording \/ Clear
  \/ \E k \in Keys : ToggleFrequency(k)

Spec == Init /\ [][Next]_vars

-----------------------------------------------------------------------------
(* Properties.                                                             *)

(* An event waits in the kernel without anything to wake the loop only     *)
(* when the last drain stopped at its limit: the readiness that wait_      *)
(* readable gives up before the drain is not the one an emission set       *)
(* during it.                                                              *)
NothingIsStranded ==
  phase = "select" /\ pending # <<>> /\ ~ready => capped

(* What the list shows is the part of the history between its first and    *)
(* its last row, without what the filters exclude, unless it jumped; it    *)
(* has at most the rows the list keeps.                                    *)
WindowHasNoGaps ==
  /\ window \subseteq Visible(disabled)
  /\ Cardinality(window) <= Rows
  /\ ~jumped /\ window # {} =>
       window = {i \in Visible(disabled) : Min(window) <= i /\ i <= Max(window)}

(* The selected event, if the filters let it through, is in the window,    *)
(* so that the detail panes have something to show, unless it was cleared. *)
SelectionIsLoaded ==
  window # {} /\ selected \in Visible(disabled) => selected \in window

(* As the test backscroll_keeps_window_until_tail_reload has it: while the *)
(* selection is not at the newest event, events that arrive change neither *)
(* the window nor the selection.                                           *)
BackscrollKeepsWindow ==
  [][window # {} /\ (\E i \in Visible(disabled) : i > selected) /\ Receive
       => UNCHANGED <<window, selected>>]_vars
=============================================================================
