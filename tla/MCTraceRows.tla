---------------------------- MODULE MCTraceRows -----------------------------
(* Three events about two interfaces, the ids one ahead of the sequence.   *)
(* The names of interfaces and methods come from the decoder's functions,  *)
(* which are compared with what they are for on small inputs.              *)
EXTENDS TraceRows

D == INSTANCE Decoder

MCIfaceOf == [id \in 1 .. MaxId |-> IF id % 2 = 0 THEN 2 ELSE 1]

(* Tables of up to three lines: two interfaces, two codes, two systems.    *)
Lines  == [interface : 1 .. 2, code : 1 .. 2, sdks : {{30}, {31}, {30, 31}}]
Tables == UNION {[1 .. n -> Lines] : n \in 0 .. 3}
Titled(t) == [k \in DOMAIN t |-> [interface |-> t[k].interface, code |-> t[k].code,
                                  sdks |-> t[k].sdks, method |-> k]]

ASSUME LookupAgrees ==
  \A t \in Tables :
    D!Sorted(t) /\ D!Unambiguous(t) =>
      \A sdk \in 29 .. 31, i \in 0 .. 3, c \in 1 .. 2 :
        D!Lookup(Titled(t), sdk, i, c) =
          (IF sdk = 29 THEN {} ELSE D!MethodsOf(Titled(t), sdk, i, c))

ASSUME PayloadAgrees ==
  \A size \in {0, 1, 255, 256, 257}, max \in {0, 255, 256}, buffer, readable \in BOOLEAN :
    LET raw == D!CopyTransactionPayload(
                 [dataSize |-> size, buffer |-> buffer, readable |-> readable])
    IN \E d \in D!DecodeTransaction(raw, max) :
         d.truncated <=> buffer /\ size > 0 /\ (~readable \/ size > 256 \/ size > max)

(* A name of three characters, in the three headers the system has had.    *)
Descriptor == [dotted |-> TRUE, plain |-> TRUE]
Offsets    == {0, 4, 8, 12}
Header(word, at16, at8) ==
  [size   |-> 64,
   word   |-> word,
   text16 |-> [o \in Offsets |-> IF o = at16 THEN {Descriptor} ELSE {}],
   zero   |-> [o \in Offsets |-> IF o = at8 THEN 31 ELSE 0],
   text8  |-> [o \in Offsets |-> IF o = at8 THEN {Descriptor} ELSE {}]]
Letters == 7209057

ASSUME TokenAgrees ==
  \A p \in {Header([o \in Offsets |-> IF o = 12 THEN 3 ELSE -1], 12, 16),
            Header([o \in Offsets |-> IF o = 4 THEN 3 ELSE Letters], 4, 16),
            Header([o \in Offsets |-> Letters], 16, 0)} :
    D!ParseInterfaceToken(p) = {Descriptor}
=============================================================================
