----------------------------- MODULE WireFormat -----------------------------
(***************************************************************************)
(* The protocol buffers wire format, as its encoding rules define it: the  *)
(* reference the generated codec (EventsCodec) is checked against.         *)
(*                                                                         *)
(* A message is a sequence of fields.  A field is a tag, the varint of     *)
(* number * 8 + wire type, followed by a varint (type 0), 8 bytes (type    *)
(* 1), a varint length and that many bytes (type 2), the fields of a       *)
(* group closed by an end-group tag of the same number (types 3 and 4), or *)
(* 4 bytes (type 5).  Types 6 and 7 do not exist.                          *)
(***************************************************************************)
EXTENDS Naturals, Sequences

\* The varint of v: seven bits per byte, least significant first, the top
\* bit set on every byte but the last.
RECURSIVE Varint(_)
Varint(v) == IF v < 128 THEN <<v>> ELSE <<(v % 128) + 128>> \o Varint(v \div 128)

\* A varint given by its seven-bit groups, for values past 2^31.
VarintOfGroups(gs) == [k \in DOMAIN gs |-> IF k < Len(gs) THEN gs[k] + 128
                                             ELSE gs[k]]

Tag(num, wt) == Varint(num * 8 + wt)

\* Fields: a varint, fixed 64- and 32-bit data, bytes, and a group.
VarintF(num, v) == [type |-> 0, num |-> num, data |-> Varint(v)]
Fixed64F(num, d) == [type |-> 1, num |-> num, data |-> d]
BytesF(num, d) == [type |-> 2, num |-> num, data |-> d]
GroupF(num, fs) == [type |-> 3, num |-> num, data |-> fs]
Fixed32F(num, d) == [type |-> 5, num |-> num, data |-> d]

RECURSIVE Encode(_), EncodeField(_)
EncodeField(f) ==
    CASE f.type \in {0, 1, 5} -> Tag(f.num, f.type) \o f.data
      [] f.type = 2 -> Tag(f.num, 2) \o Varint(Len(f.data)) \o f.data
      [] f.type = 3 -> Tag(f.num, 3) \o Encode(f.data) \o Tag(f.num, 4)

\* The bytes of a message.
Encode(fs) == IF fs = <<>> THEN <<>> ELSE EncodeField(Head(fs)) \o Encode(Tail(fs))

\* Where each top-level field ends: the cuts of Encode(fs) that leave
\* whole fields.
RECURSIVE Boundaries(_)
Boundaries(fs) ==
    IF fs = <<>> THEN {0}
    ELSE {0} \cup {Len(EncodeField(Head(fs))) + b : b \in Boundaries(Tail(fs))}

\* A message with one string field, number 1, after decoding fs into a
\* message whose field held old: the last occurrence of the field wins,
\* unknown fields are skipped, and a field fs does not hold keeps its
\* value (decoding merges into the message).
MergeString(fs, old) ==
    LET ones == {k \in DOMAIN fs : fs[k].num = 1}
    IN IF ones = {} THEN old
       ELSE fs[CHOOSE k \in ones : \A j \in ones : j <= k].data

=============================================================================
