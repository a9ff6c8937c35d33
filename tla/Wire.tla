--------------------------------- MODULE Wire ---------------------------------
(***************************************************************************)
(* The encoding of the messages, as protocol/api.pb.cc generates it from   *)
(* api.proto: what the methods of the seven message classes do, written    *)
(* once and driven by a table of fields per class.                         *)
(*                                                                         *)
(* A byte is a number below 256, a string a sequence of bytes, and a       *)
(* message a sequence of values: the value of field number i is element i. *)
(* Booleans are 0 and 1.  Fields that have their default value (0 or the   *)
(* empty string) are not written.  Unknown fields are read over and not    *)
(* kept, the default of this version of the library.                       *)
(***************************************************************************)
EXTENDS Integers, Sequences, SequencesExt

CONSTANTS
    UintSize,       \* number of values of a uint32 (2^32)
    VarintMax       \* longest varint that is read (10 bytes)

\* A uint32 has at most five groups of seven bits, the lowest of them whole.
ASSUME UintAssumption ==
    /\ UintSize \in Nat \ {0} /\ UintSize % 128 = 0
    /\ (UintSize - 1) \div 268435456 < 128
ASSUME VarintAssumption == VarintMax \in Nat /\ VarintMax >= 5

-----------------------------------------------------------------------------
(* The classes: types of their fields, by field number.                    *)

handshake_q     == <<"uint32", "uint32", "uint32">>
handshake_r     == <<"bool", "string", "uint32">>
entry           == <<"enum", "uint32", "uint32", "uint32", "string", "uint32">>
appendentries_q == <<"uint32", "uint32", "uint32", "uint32", "entries">>
appendentries_r == <<"uint32", "bool", "bool">>
requestvote_q   == <<"uint32", "uint32", "uint32", "uint32">>
requestvote_r   == <<"uint32", "bool">>

IsScalar(type) == type \in {"uint32", "bool", "enum"}

\* A new message.
SharedCtor(class) == [i \in DOMAIN class |-> IF IsScalar(class[i]) THEN 0 ELSE <<>>]

Clear(class, msg) == SharedCtor(class)

\* Fields that are set replace, repeated fields are appended.
MergeFrom(class, to, from) ==
    [i \in DOMAIN class |->
        IF class[i] = "entries" THEN to[i] \o from[i]
        ELSE IF from[i] = SharedCtor(class)[i] THEN to[i] ELSE from[i]]

\* Fault: the target is not cleared.
CopyFromKeeps(class, to, from) == MergeFrom(class, to, from)

CopyFrom(class, to, from) == MergeFrom(class, Clear(class, to), from)

-----------------------------------------------------------------------------
(* Writing.                                                                *)

\* Seven bits per byte, the lowest first; all but the last byte have the
\* eighth bit set.
Varint[v \in Nat] == IF v < 128 THEN <<v>> ELSE <<128 + (v % 128)>> \o Varint[v \div 128]

\* Fault: the largest value of every size is given one byte too many.
VarintSizeEdge(v) == 1 + Cardinality({k \in {127, 16383, 2097151, 268435455} : v >= k})

VarintSize(v) == 1 + Cardinality({k \in {128, 16384, 2097152, 268435456} : v >= k})

Delimited(tag, bytes) == <<tag>> \o Varint[Len(bytes)] \o bytes

\* Fault: default values are written as well.
ScalarFieldAlways(i, v) == <<8 * i>> \o Varint[v]

ScalarField(i, v) == IF v = 0 THEN <<>> ELSE <<8 * i>> \o Varint[v]

StringField(i, s) == IF s = <<>> THEN <<>> ELSE Delimited(8 * i + 2, s)

\* Nothing in an entry is repeated, so its fields are scalars and strings.
SerializeEntry(msg) ==
    FlattenSeq([i \in DOMAIN entry |->
        IF IsScalar(entry[i]) THEN ScalarField(i, msg[i]) ELSE StringField(i, msg[i])])

EntriesField(i, entries) ==
    FlattenSeq([k \in DOMAIN entries |-> Delimited(8 * i + 2, SerializeEntry(entries[k]))])

\* SerializeWithCachedSizes and InternalSerializeWithCachedSizesToArray write
\* the same bytes, in the order of the field numbers.
Serialize(class, msg) ==
    FlattenSeq([i \in DOMAIN class |->
        CASE IsScalar(class[i])   -> ScalarField(i, msg[i])
          [] class[i] = "string"  -> StringField(i, msg[i])
          [] class[i] = "entries" -> EntriesField(i, msg[i])])

SumOf(s) == LET sum[i \in 0..Len(s)] == IF i = 0 THEN 0 ELSE sum[i - 1] + s[i]
            IN  sum[Len(s)]

FieldSize(type, v) ==
    IF IsScalar(type) THEN IF v = 0 THEN 0 ELSE 1 + VarintSize(v)
    ELSE IF v = <<>> THEN 0 ELSE 1 + VarintSize(Len(v)) + Len(v)

EntrySize(msg) == SumOf([i \in DOMAIN entry |-> FieldSize(entry[i], msg[i])])

\* ByteSizeLong adds up sizes without writing anything; the caller announces
\* the result as the length of the body and sizes its buffer by it.
ByteSizeLong(class, msg) ==
    SumOf([i \in DOMAIN class |->
        IF class[i] = "entries"
        THEN SumOf([k \in DOMAIN msg[i] |-> 1 + VarintSize(EntrySize(msg[i][k])) + EntrySize(msg[i][k])])
        ELSE FieldSize(class[i], msg[i])])

-----------------------------------------------------------------------------
(* Reading.  p is the position of the next byte; a reader returns the       *)
(* position behind what it read, or Failed.                                 *)

Failed == 0

\* The end of the varint at p.
VarintEnd(b, p) ==
    LET ends == {q \in p..(p + VarintMax - 1) : q <= Len(b) /\ b[q] < 128}
    IN  IF ends = {} THEN Failed ELSE Min(ends) + 1

\* Its value, cut to the width of a uint32.
VarintValue(b, p) ==
    LET e == VarintEnd(b, p)
        value[q \in p..e] == IF q = e THEN 0 ELSE (128 * value[q + 1] + (b[q] % 128)) % UintSize
    IN  value[p]

\* Whether it is 0 in all its bytes.
VarintIsZero(b, p) == \A q \in p..(VarintEnd(b, p) - 1) : b[q] % 128 = 0

\* A tag of 0 ends a message: it is read, or nothing is left to read.
Tag(b, p) == IF p > Len(b) \/ VarintEnd(b, p) = Failed THEN 0 ELSE VarintValue(b, p)

FieldNumber(tag) == tag \div 8
WireType(tag) == tag % 8

\* The end of the length-delimited bytes whose length is at p.
DelimitedEnd(b, p) ==
    IF VarintEnd(b, p) = Failed \/ VarintEnd(b, p) + VarintValue(b, p) > Len(b) + 1 THEN Failed
    ELSE VarintEnd(b, p) + VarintValue(b, p)

Delimitee(b, p) == SubSeq(b, VarintEnd(b, p), DelimitedEnd(b, p) - 1)

FixedEnd(b, p, n) == IF p + n - 1 > Len(b) THEN Failed ELSE p + n

SkipValue(b, p, type) ==
    CASE type = 0 -> VarintEnd(b, p)
      [] type = 1 -> FixedEnd(b, p, 8)
      [] type = 2 -> DelimitedEnd(b, p)
      [] type = 5 -> FixedEnd(b, p, 4)
      [] OTHER    -> Failed

\* One turn of the loop that skips groups: open has the numbers of the groups
\* that have begun, and a group ends at the end mark of its own number.
SkipMessage(b, st) ==
    LET tag  == Tag(b, st.at)
        n    == FieldNumber(tag)
        type == WireType(tag)
        q    == VarintEnd(b, st.at)
    IN  IF st.at = Failed \/ st.open = <<>> THEN st
        ELSE IF n # 0 /\ type = 3 THEN [at |-> q, open |-> Append(st.open, n)]
        ELSE IF n # 0 /\ type = 4 /\ n = Last(st.open) THEN [at |-> q, open |-> Front(st.open)]
        ELSE [at |-> IF n = 0 THEN Failed ELSE SkipValue(b, q, type), open |-> st.open]

\* The end of the group n whose first field is at p: a turn takes a byte.
SkipGroup(b, p, n) ==
    LET run[k \in 0..Len(b)] == IF k = 0 THEN [at |-> p, open |-> <<n>>]
                                ELSE SkipMessage(b, run[k - 1])
    IN  run[Len(b)].at

\* The end of an unknown field.
SkipField(b, p, tag) ==
    IF FieldNumber(tag) = 0 THEN Failed
    ELSE IF WireType(tag) = 3 THEN SkipGroup(b, p, FieldNumber(tag))
    ELSE SkipValue(b, p, WireType(tag))

\* VerifyUtf8String, for bytes that begin no sequence of several bytes.
IsUtf8(s) == \A k \in DOMAIN s : s[k] < 128

\* Fault: the wire type is not looked at.
IsKnownByNumber(class, tag) == tag < 128 /\ FieldNumber(tag) \in DOMAIN class

\* A field is known when both its number and its wire type are expected.
IsKnown(class, tag) ==
    /\ tag < 128
    /\ FieldNumber(tag) \in DOMAIN class
    /\ WireType(tag) = IF IsScalar(class[FieldNumber(tag)]) THEN 0 ELSE 2

\* The value of field i that is at q goes into the message as far as it can be
\* read: a string has what is left, and an entry is added before it is read.
\* inner has, for every position, what parsing an entry there gives.
FieldValue(class, b, inner, i, q, old) ==
    IF IsScalar(class[i]) THEN
        IF VarintEnd(b, q) = Failed THEN old
        ELSE IF class[i] = "bool" THEN IF VarintIsZero(b, q) THEN 0 ELSE 1
        ELSE VarintValue(b, q)
    ELSE IF class[i] = "string" THEN
        IF DelimitedEnd(b, q) # Failed THEN Delimitee(b, q)
        ELSE IF VarintEnd(b, q) = Failed THEN old
        ELSE SubSeq(b, VarintEnd(b, q), Len(b))
    ELSE Append(old, IF DelimitedEnd(b, q) = Failed THEN SharedCtor(entry) ELSE inner[q].msg)

\* Where the parse goes on behind it.  A string is verified when it is stored.
FieldEnd(class, b, inner, i, q) ==
    IF IsScalar(class[i]) THEN VarintEnd(b, q)
    ELSE IF DelimitedEnd(b, q) = Failed THEN Failed
    ELSE IF IF class[i] = "string" THEN IsUtf8(Delimitee(b, q)) ELSE inner[q].ok
    THEN DelimitedEnd(b, q)
    ELSE Failed

\* One turn of the loop of MergePartialFromCodedStream: the message so far, the
\* position (Failed once the loop has ended) and what the loop returns.
MergePartialFromCodedStream(class, b, inner, st) ==
    LET tag == Tag(b, st.at)
        i   == FieldNumber(tag)
        q   == VarintEnd(b, st.at)
    IN  IF st.at = Failed THEN st
        ELSE IF tag = 0 THEN [msg |-> st.msg, at |-> Failed, ok |-> st.at > Len(b)]
        ELSE IF IsKnown(class, tag) THEN
            [msg |-> [st.msg EXCEPT ![i] = FieldValue(class, b, inner, i, q, @)],
             at  |-> FieldEnd(class, b, inner, i, q),
             ok  |-> FALSE]
        ELSE [msg |-> st.msg, at |-> SkipField(b, q, tag), ok |-> FALSE]

\* The loop takes at least a byte in every turn but the last.
Parse(class, b, inner) ==
    LET run[n \in 0..(Len(b) + 1)] ==
            IF n = 0 THEN [msg |-> SharedCtor(class), at |-> 1, ok |-> FALSE]
            ELSE MergePartialFromCodedStream(class, b, inner, run[n - 1])
    IN  run[Len(b) + 1]

\* Nothing in an entry is an entry.
ParseEntry(b) == Parse(entry, b, <<>>)

\* Its callers do not look at the result.
ParseFromArray(class, b) ==
    Parse(class, b, [q \in 1..Len(b) |-> ParseEntry(Delimitee(b, q))])

===============================================================================
