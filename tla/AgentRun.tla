------------------------------ MODULE AgentRun -----------------------------
(***************************************************************************)
(* The program without a front-end (crates/bt-agent/src/agent.rs,          *)
(* crates/bt-storage/src/jsonl.rs): once connected it writes two records   *)
(* about itself and then one line for each event it knows, in batches that *)
(* end with a flush.                                                       *)
(*                                                                         *)
(* A line is two writes, the object and the end of the line; what the      *)
(* writer buffers reaches the output whenever it likes.  The switching on  *)
(* and off of the capture is CaptureSessions'.                             *)
(***************************************************************************)
EXTENDS Integers, Sequences, FiniteSets

CONSTANTS
  MaxBatch,    (* MAX_EVENTS_PER_BATCH: 512                                *)
  MaxEvents    (* bound: how many events the kernel emits                  *)

(* What the kernel sends; an event with too long a payload fails to be     *)
(* decoded, one of an unknown kind is no transaction.                      *)
EventKinds == {"transaction", "reply", "unknown", "too long"}

(* to_raw_event and the object of the envelope.                            *)
IsBinderTransaction(kind) == kind # "unknown"
Decodes(kind)             == kind # "too long"
Object(kind)              == IF kind = "reply" THEN "binder.reply" ELSE "binder.transaction"

(* The objects of the records the program starts with.                     *)
StartupEvents == <<"program.version", "agent.diagnostic">>

VARIABLES
  pending,     (* events the socket has not read                           *)
  taken,       (* events read, in order                                    *)
  pc,          (* where run stands                                         *)
  object,      (* the object of the record that is written next            *)
  batch,       (* events read in this batch                                *)
  written,     (* records written in this batch                            *)
  nextSequence,(* JsonlSink.next_sequence                                  *)
  buffer,      (* what the writer holds back                               *)
  output       (* what has reached the file or the terminal                *)

vars == <<pending, taken, pc, object, batch, written, nextSequence, buffer, output>>

Init ==
  /\ pending = <<>> /\ taken = <<>>
  /\ pc = "write" /\ object = StartupEvents[1]
  /\ batch = 0 /\ written = 0 /\ nextSequence = 0
  /\ buffer = <<>> /\ output = <<>>

Emit(kind) ==
  /\ Len(pending) + Len(taken) < MaxEvents
  /\ pending' = Append(pending, kind)
  /\ UNCHANGED <<taken, pc, object, batch, written, nextSequence, buffer, output>>

-----------------------------------------------------------------------------
(* The writer.                                                             *)

(* Some of what the buffer would hold goes to the output.                  *)
Buffered(chunks) ==
  \E n \in 0 .. Len(buffer \o chunks) :
    /\ output' = output \o SubSeq(buffer \o chunks, 1, n)
    /\ buffer' = SubSeq(buffer \o chunks, n + 1, Len(buffer \o chunks))

(* The program ends: a failed writer is dropped, which tries to write what *)
(* it still holds and may fail anywhere.                                   *)
Ends(chunks) ==
  /\ pc' = "ended"
  /\ \E n \in 0 .. Len(buffer \o chunks) :
       output' = output \o SubSeq(buffer \o chunks, 1, n)
  /\ buffer' = <<>>

Line(seq, what) == <<[seq |-> seq, part |-> what], [seq |-> seq, part |-> "end"]>>

(* write_json_line: the number is taken first.  After the two records of   *)
(* the start comes a flush, after an event the next event.                 *)
WriteJsonLine ==
  /\ pc = "write"
  /\ Buffered(Line(nextSequence, object))
  /\ nextSequence' = nextSequence + 1
  /\ IF object = StartupEvents[1] THEN object' = StartupEvents[2] /\ UNCHANGED <<pc, written>>
     ELSE IF object = StartupEvents[2] THEN pc' = "flush" /\ UNCHANGED <<object, written>>
     ELSE pc' = "receive" /\ written' = written + 1 /\ UNCHANGED object
  /\ UNCHANGED <<pending, taken, batch>>

WriteFails ==
  /\ pc = "write"
  /\ Ends(<<Line(nextSequence, object)[1]>>)
  /\ nextSequence' = nextSequence + 1
  /\ UNCHANGED <<pending, taken, object, batch, written>>

Flush ==
  /\ pc = "flush"
  /\ output' = output \o buffer /\ buffer' = <<>>
  /\ pc' = "poll"
  /\ UNCHANGED <<pending, taken, object, batch, written, nextSequence>>

FlushFails ==
  /\ pc = "flush"
  /\ Ends(<<>>)
  /\ UNCHANGED <<pending, taken, object, batch, written, nextSequence>>

-----------------------------------------------------------------------------
(* collect_batch.                                                          *)

(* Without an event the poll times out and is repeated.                    *)
PollEvent ==
  /\ pc = "poll"
  /\ pending # <<>>
  /\ pc' = "receive"
  /\ batch' = 0 /\ written' = 0
  /\ UNCHANGED <<pending, taken, object, nextSequence, buffer, output>>

(* Events of unknown kinds are skipped; they count for the batch only.     *)
TryRecvEvent ==
  /\ pc = "receive"
  /\ batch < MaxBatch
  /\ pending # <<>>
  /\ pending' = Tail(pending)
  /\ taken'   = Append(taken, Head(pending))
  /\ batch'   = batch + 1
  /\ IF ~IsBinderTransaction(Head(pending))
       THEN UNCHANGED <<pc, object, buffer, output>>
       ELSE IF Decodes(Head(pending))
       THEN pc' = "write" /\ object' = Object(Head(pending)) /\ UNCHANGED <<buffer, output>>
       ELSE Ends(<<>>) /\ UNCHANGED object
  /\ UNCHANGED <<written, nextSequence>>

(* Faulty variant: the batch is flushed only when it is full.              *)
BatchEndsLate ==
  /\ pc = "receive"
  /\ batch = MaxBatch \/ pending = <<>>
  /\ pc' = IF written > 0 /\ batch = MaxBatch THEN "flush" ELSE "poll"
  /\ UNCHANGED <<pending, taken, object, batch, written, nextSequence, buffer, output>>

(* The socket is empty or the batch full; what was written is flushed.     *)
BatchEnds ==
  /\ pc = "receive"
  /\ batch = MaxBatch \/ pending = <<>>
  /\ pc' = IF written > 0 THEN "flush" ELSE "poll"
  /\ UNCHANGED <<pending, taken, object, batch, written, nextSequence, buffer, output>>

(* The socket fails.                                                       *)
SourceFails ==
  /\ pc \in {"poll", "receive"}
  /\ Ends(<<>>)
  /\ UNCHANGED <<pending, taken, object, batch, written, nextSequence>>

(* Somebody kills the program: it is made to run until that.               *)
Kill ==
  /\ pc # "ended"
  /\ pc' = "ended" /\ buffer' = <<>>
  /\ UNCHANGED <<pending, taken, object, batch, written, nextSequence, output>>

Next ==
  \/ \E kind \in EventKinds : Emit(kind)
  \/ WriteJsonLine \/ WriteFails \/ Flush \/ FlushFails
  \/ PollEvent \/ TryRecvEvent \/ BatchEnds \/ SourceFails \/ Kill

Spec == Init /\ [][Next]_vars

-----------------------------------------------------------------------------
(* The events read whose kind is known, by position, and the number of     *)
(* such an event's record: the program's two records come before them.     *)
Known     == {i \in DOMAIN taken : IsBinderTransaction(taken[i]) /\ Decodes(taken[i])}
Number(i) == 1 + Cardinality({j \in Known : j <= i})

(* Record n of some chunks, as far as they go, is a line about what.       *)
Tells(chunks, n, what) ==
  \A k \in 1 .. 2 : 2 * n + k <= Len(chunks) => chunks[2 * n + k] = Line(n, what)[k]

(* These chunks are the lines there should be, or a part of them: the two  *)
(* of the start and one for each event, in the order they were read.       *)
TellsAll(chunks) ==
  /\ Len(chunks) <= 2 * (2 + Cardinality(Known))
  /\ \A n \in 1 .. 2 : Tells(chunks, n - 1, StartupEvents[n])
  /\ \A i \in Known : Tells(chunks, Number(i), Object(taken[i]))

(* The output is made of the events in the order they were read, each once *)
(* and as one line with the next number; only the last line can be cut     *)
(* off, by a failure or the end of the program.  And while the agent waits *)
(* for events none that was read is held back in the writer.               *)
RecordsAreWhole ==
  /\ TellsAll(output)
  /\ pc = "poll" => Len(output) = 2 * (2 + Cardinality(Known))
=============================================================================
