------------------------------ MODULE Decoder -------------------------------
(***************************************************************************)
(* What becomes of a transaction's data on its way to a reader: how much   *)
(* of it the hook copies (kernel/src/core/bt_hooks.c), how it is decoded   *)
(* (bt-decoder/src/decoder.rs), which interface it names, and which method *)
(* that is (bt-decoder/src/android_platform.rs).  Pure functions; {} is    *)
(* None or an error, {v} is a value.                                       *)
(*                                                                         *)
(* An interface is its rank in the order of names, a string what the test  *)
(* for a descriptor tells of it.                                           *)
(***************************************************************************)
EXTENDS Integers, Sequences

MAX_INLINE_PAYLOAD == 256

Lesser(a, b) == IF a <= b THEN a ELSE b

-----------------------------------------------------------------------------
(* The payload.                                                            *)

(* What the hook keeps of tr: the first bytes, none of them when they      *)
(* cannot be read or the transaction has no buffer.                        *)
CopyTransactionPayload(tr) ==
  IF tr.dataSize = 0 \/ ~tr.buffer THEN [len |-> 0, truncated |-> FALSE]
  ELSE IF ~tr.readable THEN [len |-> 0, truncated |-> TRUE]
  ELSE [len       |-> Lesser(tr.dataSize, MAX_INLINE_PAYLOAD),
        truncated |-> tr.dataSize > MAX_INLINE_PAYLOAD]

(* Decoder::decode_transaction: a length beyond the buffer is refused, and *)
(* the configuration may keep fewer bytes.                                 *)
DecodeTransaction(raw, maxPayloadBytes) ==
  LET kept == Lesser(raw.len, maxPayloadBytes)
  IN IF raw.len > MAX_INLINE_PAYLOAD THEN {}
     ELSE {[len |-> kept, truncated |-> raw.truncated \/ kept < raw.len]}

(* BinderEvent::to_raw_event: an event of another kind has none.           *)
ToRawEvent(event) ==
  {[kind |-> IF r = 0 THEN "transaction" ELSE "reply",
    len |-> event.len, truncated |-> event.truncated] :
      r \in IF event.kind = "binder transaction" THEN {event.reply} ELSE {}}

(* BinderEvent::payload_bytes, for the readers that do without a decoder.  *)
PayloadBytes(event) == Lesser(event.len, MAX_INLINE_PAYLOAD)

-----------------------------------------------------------------------------
(* The interface token.  A payload has a size and, at each offset tried,   *)
(* a word, the UTF-16 text of that many characters behind it, the length   *)
(* of the bytes up to the next zero (-1: there is none), and their text; a *)
(* text that is not valid is {}.                                           *)

ReadString16(p, o) ==
  IF p.word[o] \in 1 .. 512 /\ o + 4 + 2 * p.word[o] + 2 <= p.size
    THEN p.text16[o] ELSE {}

ReadCString(p, o) ==
  IF o <= p.size /\ p.zero[o] \in 1 .. 512 THEN p.text8[o] ELSE {}

IsInterfaceDescriptor(token) == token.dotted /\ token.plain

FirstOf(a, b, c, d) ==
  IF a # {} THEN a ELSE IF b # {} THEN b ELSE IF c # {} THEN c ELSE d

(* The first string that can be read decides, descriptor or not.           *)
ParseInterfaceToken(p) ==
  LET wide   == FirstOf(ReadString16(p, 12), ReadString16(p, 8),
                        ReadString16(p, 4), ReadString16(p, 0))
      narrow == FirstOf(ReadCString(p, 0), ReadCString(p, 4),
                        ReadCString(p, 8), ReadCString(p, 12))
  IN {t \in (IF wide # {} THEN wide ELSE narrow) : IsInterfaceDescriptor(t)}

-----------------------------------------------------------------------------
(* The table of methods.                                                   *)

SDKS == 30 .. 36

(* The fields of a line; an entry has a set for the mask.                  *)
ParseEntry(record) ==
  IF /\ Len(record) = 4
     /\ \A n \in 1 .. 4 : record[n].given
     /\ record[1].hexadecimal /\ record[1].bits <= 16
     /\ record[2].decimal /\ record[2].bits <= 32
    THEN {[sdks |-> record[1].value, code |-> record[2].value,
           interface |-> record[3].value, method |-> record[4].value]}
    ELSE {}

(* android_platform_methods_tsv_path, where a path is given, the variable  *)
(* is set, or a cache directory is known.                                  *)
TablePath(given, variable, android, xdgCache, home) ==
  IF given # {} THEN given
  ELSE IF variable # {} THEN variable
  ELSE IF android THEN {"/data/local/tmp"}
  ELSE IF xdgCache # {} THEN xdgCache
  ELSE IF home # {} THEN home
  ELSE {"temporary directory"}

IsBefore(e, interface, code) ==
  e.interface < interface \/ (e.interface = interface /\ e.code < code)
SameKey(e, interface, code) == e.interface = interface /\ e.code = code
MatchesSdk(e, sdk) == sdk \in e.sdks

(* The first entry for the SDK among those with the key, which follow the  *)
(* entries before it: partition_point finds that place in a sorted table,  *)
(* and what is said here holds of a sorted table only.                     *)
Lookup(table, sdk, interface, code) ==
  LET after == {k \in DOMAIN table : ~IsBefore(table[k], interface, code)}
      run   == {k \in after : \A j \in after :
                  j <= k => SameKey(table[j], interface, code)}
      hits  == {k \in run : MatchesSdk(table[k], sdk)}
  IN IF sdk \notin SDKS THEN {}
     ELSE {table[k].method : k \in {h \in hits : \A j \in hits : h <= j}}

Sorted(table) ==
  \A j, k \in DOMAIN table :
    j < k => ~IsBefore(table[k], table[j].interface, table[j].code)

(* At most one line for an interface, a code and an SDK.                   *)
Unambiguous(table) ==
  \A j, k \in DOMAIN table :
    /\ SameKey(table[j], table[k].interface, table[k].code)
    /\ table[j].sdks \cap table[k].sdks # {}
    => j = k

(* The methods of the table for them, wherever they are.                   *)
MethodsOf(table, sdk, interface, code) ==
  {table[k].method : k \in {h \in DOMAIN table :
      SameKey(table[h], interface, code) /\ MatchesSdk(table[h], sdk)}}
=============================================================================
