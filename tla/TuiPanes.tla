------------------------------ MODULE TuiPanes ------------------------------
(***************************************************************************)
(* The TUI's four panes on top of its list of events (crates/bt-cli/src/   *)
(* tui/mod.rs): which one has the focus, where the detail panes are        *)
(* scrolled to, and the frequency pane, which counts the history by        *)
(* interface and code and switches filters.                                *)
(*                                                                         *)
(* Tui has the list and the loop; every step of it that changes the panes  *)
(* is extended here.  Frequency keys are numbers in the order of their     *)
(* labels.                                                                 *)
(***************************************************************************)
EXTENDS Tui, TuiScreen, SequencesExt

CONSTANT Payload   (* for each key, the payload bytes of its events        *)

PanesAssumption ==
  /\ TuiAssumption
  /\ IsFiniteSet(Keys)
  /\ \A k \in Keys : Payload[k] \in Nat

VARIABLES
  focus,       (* TuiState.focus                                           *)
  hexdump,     (* TuiState.hexdump_scroll                                  *)
  parsed,      (* TuiState.parsed_scroll                                   *)
  frequency,   (* TuiState.frequency_selected                              *)
  counted,     (* TuiState.frequency_counted_events                        *)
  scrolled     (* the event a detail pane was last scrolled for            *)

paneVars == <<focus, hexdump, parsed, frequency, counted, scrolled>>

PInit ==
  /\ Init
  /\ focus = "transactions"
  /\ hexdump = 0 /\ parsed = 0 /\ frequency = 0
  /\ counted = 0 /\ scrolled = 0

FocusNext ==
  [transactions |-> "frequency", frequency |-> "hexdump", hexdump |-> "parsed", parsed |-> "transactions"]

(* Faulty variant: the page is not stopped at the last line.               *)
MoveIndexPast(current, key, len) ==
  IF len = 0 THEN 0
  ELSE CASE key = "up"       -> Saturating(current - 1)
         [] key = "down"     -> Least(current + 1, len - 1)
         [] key = "pageup"   -> Saturating(current - PageSize)
         [] key = "pagedown" -> Least(current + PageSize, len)
         [] key = "home"     -> 0
         [] OTHER            -> len - 1

(* move_index *)
MoveIndex(current, key, len) ==
  IF len = 0 THEN 0
  ELSE CASE key = "up"       -> Saturating(current - 1)
         [] key = "down"     -> Least(current + 1, len - 1)
         [] key = "pageup"   -> Saturating(current - PageSize)
         [] key = "pagedown" -> Least(current + PageSize, len - 1)
         [] key = "home"     -> 0
         [] OTHER            -> len - 1

(* The lines the detail panes have of the selected event, if it is loaded. *)
HexdumpLines == IF selected \in window THEN HexLines(Payload[history[selected + 1]]) ELSE 0
ParsedOf     == IF selected \in window THEN ParsedLines ELSE 0

(* frequency_counts and frequency_entries: the most frequent first.        *)
Count(k)    == Cardinality({i \in 1 .. counted : history[i] = k})
CountedKeys == {k \in Keys \ Unnamed : Count(k) > 0}
Entries     == SetToSortSeq(CountedKeys,
                 LAMBDA a, b : Count(a) > Count(b) \/ (Count(a) = Count(b) /\ a < b))

ScrollsReset == hexdump' = 0 /\ parsed' = 0

-----------------------------------------------------------------------------
Unseen == UNCHANGED paneVars

PEmit(e)         == Emit(e) /\ Unseen
PWaitReadable    == WaitReadable /\ Unseen
PDiscard         == Discard /\ Unseen
PBackToSelect    == BackToSelect /\ Unseen

(* Faulty variant: an event that is selected on arrival is shown from the  *)
(* position the one before it was scrolled to.                             *)
PReceiveKeeps == Receive /\ UNCHANGED <<hexdump, parsed>> /\ UNCHANGED <<focus, frequency, counted, scrolled>>

(* An event that is pushed to the window starts at its first line.         *)
PReceive ==
  /\ Receive
  /\ IF selected' # selected \/ window' # window THEN ScrollsReset ELSE UNCHANGED <<hexdump, parsed>>
  /\ UNCHANGED <<focus, frequency, counted, scrolled>>

(* At the end of a drain the new part of the history is counted.           *)
PDrainEnds ==
  /\ DrainEnds
  /\ counted' = Len(history)
  /\ UNCHANGED <<focus, hexdump, parsed, frequency, scrolled>>

PMove(key) ==
  /\ focus = "transactions"
  /\ Move(key)
  /\ IF selected' # selected THEN ScrollsReset ELSE UNCHANGED <<hexdump, parsed>>
  /\ UNCHANGED <<focus, frequency, counted, scrolled>>

MoveFrequency(key) ==
  /\ phase = "select" /\ focus = "frequency"
  /\ frequency' = MoveIndex(frequency, key, Cardinality(CountedKeys))
  /\ UNCHANGED <<vars, focus, hexdump, parsed, counted, scrolled>>

MoveHexdump(key) ==
  /\ phase = "select" /\ focus = "hexdump"
  /\ hexdump'  = MoveIndex(hexdump, key, HexdumpLines)
  /\ scrolled' = selected
  /\ UNCHANGED <<vars, focus, parsed, frequency, counted>>

MoveParsed(key) ==
  /\ phase = "select" /\ focus = "parsed"
  /\ parsed'   = MoveIndex(parsed, key, ParsedOf)
  /\ scrolled' = selected
  /\ UNCHANGED <<vars, focus, hexdump, frequency, counted>>

(* Space in the frequency pane switches the filter of the selected entry;  *)
(* a selection that stays visible keeps its position.                      *)
SpaceFrequency ==
  /\ focus = "frequency"
  /\ Entries # <<>>
  /\ ToggleFrequency(Entries[Least(frequency, Len(Entries) - 1) + 1])
  /\ IF selected < Len(history) /\ history[selected + 1] \notin disabled'
       THEN UNCHANGED <<hexdump, parsed>> ELSE ScrollsReset
  /\ UNCHANGED <<focus, frequency, counted, scrolled>>

SpaceTransactions == focus = "transactions" /\ ToggleRecording /\ Unseen

NextPane ==
  /\ phase = "select"
  /\ focus' = FocusNext[focus]
  /\ UNCHANGED <<vars, hexdump, parsed, frequency, counted, scrolled>>

PClear ==
  /\ Clear
  /\ ScrollsReset /\ frequency' = 0
  /\ UNCHANGED <<focus, counted, scrolled>>

PNext ==
  \/ \E e \in Keys : PEmit(e)
  \/ PWaitReadable \/ PReceive \/ PDiscard \/ PDrainEnds \/ PBackToSelect
  \/ \E key \in ListKeys : PMove(key) \/ MoveFrequency(key) \/ MoveHexdump(key) \/ MoveParsed(key)
  \/ SpaceFrequency \/ SpaceTransactions \/ NextPane \/ PClear

PSpec == PInit /\ [][PNext]_<<vars, paneVars>>

-----------------------------------------------------------------------------
(* Whatever keys and events came, the detail panes show lines that the     *)
(* selected event has, at a position the user chose for that event and no  *)
(* other, the frequency pane's selection is an entry, and a key finds the  *)
(* counts complete.                                                        *)
PanesStayInside ==
  /\ selected \in window => /\ hexdump = 0 \/ hexdump < HexdumpLines
                            /\ parsed < ParsedOf
  /\ hexdump # 0 \/ parsed # 0 => scrolled = selected
  /\ frequency = 0 \/ frequency < Cardinality(CountedKeys)
  /\ phase = "select" => counted = Len(history)
=============================================================================
