------------------------------- MODULE TuiKeys ------------------------------
(***************************************************************************)
(* The TUI's keyboard (crates/bt-cli/src/tui/input.rs and                  *)
(* drain_input_commands of mod.rs): bytes of the raw terminal are put      *)
(* together to commands across reads, a read gives its first command and   *)
(* throws the bytes after it away.                                         *)
(*                                                                         *)
(* A key sends one of its sequences of bytes; the terminal line may        *)
(* deliver them one by one.                                                *)
(***************************************************************************)
EXTENDS Integers, SequencesExt

CONSTANTS
  Typed,      (* the keys that are pressed                                 *)
  ReadSize,   (* bytes of a read: 32                                       *)
  MaxKeys     (* bound: how many keys are pressed                          *)

None == "none"

(* ESCAPE_COMMANDS. *)
EscapeCommands ==
  {[bytes |-> <<"esc", "[", "A">>,      command |-> "up"],
   [bytes |-> <<"esc", "[", "B">>,      command |-> "down"],
   [bytes |-> <<"esc", "[", "5", "~">>, command |-> "pageup"],
   [bytes |-> <<"esc", "[", "6", "~">>, command |-> "pagedown"],
   [bytes |-> <<"esc", "[", "H">>,      command |-> "home"],
   [bytes |-> <<"esc", "[", "1", "~">>, command |-> "home"],
   [bytes |-> <<"esc", "O", "H">>,      command |-> "home"],
   [bytes |-> <<"esc", "[", "F">>,      command |-> "end"],
   [bytes |-> <<"esc", "[", "4", "~">>, command |-> "end"],
   [bytes |-> <<"esc", "O", "F">>,      command |-> "end"]}

PlainCommands == [q |-> "quit", ctrlc |-> "quit", space |-> "space", c |-> "clear", tab |-> "next"]

EscapeToCommand(bytes) ==
  IF \E e \in EscapeCommands : e.bytes = bytes
  THEN (CHOOSE e \in EscapeCommands : e.bytes = bytes).command ELSE None

IsEscapePrefix(bytes) == \E e \in EscapeCommands : IsPrefix(bytes, e.bytes)

(* Faulty variant: escape sequences are given up as soon as they are not   *)
(* complete.                                                               *)
PushNoPrefix(escape, byte) ==
  IF escape = <<>>
  THEN [escape  |-> IF byte = "esc" THEN <<"esc">> ELSE <<>>,
        command |-> IF byte \in DOMAIN PlainCommands THEN PlainCommands[byte] ELSE None]
  ELSE [escape |-> <<>>, command |-> EscapeToCommand(Append(escape, byte))]

(* KeyParser::push: the sequence kept, and the command that is complete.   *)
Push(escape, byte) ==
  LET bytes == Append(escape, byte)
  IN  IF escape = <<>>
      THEN [escape  |-> IF byte = "esc" THEN <<"esc">> ELSE <<>>,
            command |-> IF byte \in DOMAIN PlainCommands THEN PlainCommands[byte] ELSE None]
      ELSE [escape  |-> IF EscapeToCommand(bytes) = None /\ IsEscapePrefix(bytes) THEN bytes ELSE <<>>,
            command |-> EscapeToCommand(bytes)]

VARIABLES
  keys,       (* the keys pressed so far, with the bytes they sent         *)
  wire,       (* bytes under way: places in the keys                       *)
  tty,        (* bytes the terminal holds, likewise                        *)
  escape,     (* KeyParser.escape                                          *)
  done,       (* the commands executed, each with the number of the key    *)
              (* that completed it                                         *)
  dropped,    (* keys of which a byte was thrown away                      *)
  open        (* the loop runs and has its input                           *)

vars == <<keys, wire, tty, escape, done, dropped, open>>

Init ==
  /\ keys = <<>> /\ wire = <<>> /\ tty = <<>>
  /\ escape = <<>> /\ done = <<>> /\ dropped = {}
  /\ open = TRUE

IsCommand(key) ==
  \/ \E e \in EscapeCommands : e.command = key
  \/ \E b \in DOMAIN PlainCommands : PlainCommands[b] = key

(* The bytes a key may send; the lone escape and other keys are no         *)
(* commands.                                                               *)
Bytes(key) ==
  IF IsCommand(key)
  THEN {e.bytes : e \in {f \in EscapeCommands : f.command = key}}
         \cup {<<b>> : b \in {c \in DOMAIN PlainCommands : PlainCommands[c] = key}}
  ELSE {<<key>>}

(* Keys that are no commands do not spell one: none is a plain command's   *)
(* byte, and none can stand second in an escape sequence.                  *)
KeysAssumption ==
  /\ ReadSize \in Nat \ {0}
  /\ \A key \in Typed : IsCommand(key) \/ key \notin DOMAIN PlainCommands \cup {"[", "O"}

Byte(place) == keys[place.key].bytes[place.at]

Press(key, bytes) ==
  /\ Len(keys) < MaxKeys
  /\ keys' = Append(keys, [name |-> key, bytes |-> bytes])
  /\ wire' = wire \o [i \in DOMAIN bytes |-> [key |-> Len(keys) + 1, at |-> i]]
  /\ UNCHANGED <<tty, escape, done, dropped, open>>

Deliver ==
  /\ wire # <<>>
  /\ tty'  = Append(tty, Head(wire))
  /\ wire' = Tail(wire)
  /\ UNCHANGED <<keys, escape, done, dropped, open>>

(* The parser after some bytes of a read: it stops at a command.           *)
Parsed(size) ==
  LET after[n \in 0 .. size] ==
        IF n = 0 THEN [escape |-> escape, command |-> None, used |-> 0]
        ELSE IF after[n - 1].command # None THEN after[n - 1]
        ELSE LET p == Push(after[n - 1].escape, Byte(tty[n]))
             IN  [escape |-> p.escape, command |-> p.command, used |-> n]
  IN  after[size]

(* read_command and what drain_input_commands does with it, except for     *)
(* what the commands do: one read, one command at most.                    *)
ReadCommand ==
  LET size == IF Len(tty) < ReadSize THEN Len(tty) ELSE ReadSize
      p    == Parsed(size)
  IN
  /\ open
  /\ tty # <<>>
  /\ tty'     = SubSeq(tty, size + 1, Len(tty))
  /\ escape'  = p.escape
  /\ done'    = IF p.command = None THEN done
                ELSE Append(done, [command |-> p.command, key |-> tty[p.used].key])
  /\ dropped' = dropped \cup {tty[i].key : i \in p.used + 1 .. size}
  /\ open'    = (p.command # "quit")
  /\ UNCHANGED <<keys, wire>>

(* The terminal cannot be read any more: the TUI goes on without input.    *)
InputFails ==
  /\ open
  /\ open' = FALSE
  /\ UNCHANGED <<keys, wire, tty, escape, done, dropped>>

Next ==
  \/ \E key \in Typed : \E bytes \in Bytes(key) : Press(key, bytes)
  \/ Deliver \/ ReadCommand \/ InputFails

Spec == Init /\ [][Next]_vars

-----------------------------------------------------------------------------
(* Commands are executed in the order of their keys, each for the key that *)
(* was pressed, however the terminal cuts its bytes into reads; and a      *)
(* command is only missing when it was thrown away behind another one of   *)
(* the same read or follows a lone escape, which swallows it.              *)
KeysAreAccountedFor ==
  /\ \A i \in DOMAIN done :
       /\ keys[done[i].key].name = done[i].command
       /\ i > 1 => done[i - 1].key < done[i].key
  /\ \A k \in DOMAIN keys :
       IsCommand(keys[k].name) /\ (\A i \in DOMAIN wire : wire[i].key > k)
                          /\ (\A i \in DOMAIN tty  : tty[i].key > k) =>
         \/ \E i \in DOMAIN done : done[i].key = k
         \/ k \in dropped
         \/ k > 1 /\ keys[k - 1].name = "esc"
=============================================================================
