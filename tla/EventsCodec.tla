---------------------------- MODULE EventsCodec ----------------------------
(***************************************************************************)
(* The gogoproto code generated for the bridge events                      *)
(* (src/x/bridge/types/events.pb.go).  Each of the seven events has one    *)
(* string field, number 1: TxHash for the deposit events, TxId for the     *)
(* withdraw events.  The code is pure, so every function is an operator:   *)
(* Size, MarshalToSizedBuffer (which writes the buffer back to front),     *)
(* Marshal, encodeVarintEvents and sovEvents on the encoding side;         *)
(* Unmarshal, with its varint loops, and skipEvents on the decoding side.  *)
(*                                                                         *)
(* A byte is a number in 0..255 and a string a sequence of bytes.  The     *)
(* decoder's uint64 and int arithmetic is done on Word64 words, so a       *)
(* varint of ten bytes, a length of 2^63 or a sum past 2^63 - 1 wrap as    *)
(* they do in Go.  A Go slice or index out of range is the error "Panic".  *)
(* Error messages are abstracted to the error kinds.                       *)
(***************************************************************************)
EXTENDS Naturals, Sequences, Word64
LOCAL INSTANCE TLC
LOCAL INSTANCE Bitwise

Byte == 0..255

Events == {"EventCreateDeposit", "EventUpdateDeposit", "EventDeleteDeposit",
           "EventCreateWithdraw", "EventUpdateWithdraw", "EventSignWithdraw",
           "EventDeleteWithdraw"}

\* The name of the one field of each event.
FieldOf(e) == IF e \in {"EventCreateDeposit", "EventUpdateDeposit",
                        "EventDeleteDeposit"}
              THEN "TxHash" ELSE "TxId"

NoErr == "nil"
Errors == {"IntOverflow", "UnexpectedEOF", "InvalidLength",
           "UnexpectedEndOfGroup", "EndGroupForNonGroup", "IllegalTag",
           "WrongWireType", "IllegalWireType", "Panic"}

\* What Unmarshal leaves in m, and its error.  On an error m keeps what
\* was decoded before it.
Ok(m) == [err |-> NoErr, msg |-> m]
Err(e, m) == [err |-> e, msg |-> m]

-----------------------------------------------------------------------------
(* Encoding.                                                               *)

\* math_bits.Len64: the number of bits needed to write x.
RECURSIVE Len64(_)
Len64(x) == IF x = 0 THEN 0 ELSE 1 + Len64(x \div 2)

\* The number of bytes of the varint of x.
sovEvents(x) == (Len64(x | 1) + 6) \div 7

\* A buffer being written, or the panic of a write out of its range.
Panicked == [ok |-> FALSE, buf |-> <<>>]
Put(r, k, b) ==
    IF r.ok /\ k \in 0..Len(r.buf) - 1 THEN [r EXCEPT !.buf[k + 1] = b]
    ELSE Panicked

\* The loop of encodeVarintEvents: low seven bits first, with the
\* continuation bit on every byte but the last.
RECURSIVE EncodeVarintLoop(_, _, _)

\* Mutation: the loop runs while v > 1<<7, so 128 is written as one byte.
EncodeVarintLoopGt(r, offset, v) ==
    IF v > 128
    THEN EncodeVarintLoop(Put(r, offset, (v % 128) + 128), offset + 1, v \div 128)
    ELSE Put(r, offset, v)

EncodeVarintLoop(r, offset, v) ==
    IF v >= 128
    THEN EncodeVarintLoop(Put(r, offset, (v % 128) + 128), offset + 1, v \div 128)
    ELSE Put(r, offset, v)

\* Writes the varint of v so that it ends just before offset; returns the
\* buffer and where the varint starts.
encodeVarintEvents(r, offset, v) ==
    [r |-> EncodeVarintLoop(r, offset - sovEvents(v), v),
     i |-> offset - sovEvents(v)]

\* Size of an event whose string field is named field.
SizeOf(field, m) ==
    LET l == Len(m[field]) IN IF l > 0 THEN 1 + l + sovEvents(l) ELSE 0

\* copy(dAtA[i:], s): panics when i is out of range, copies what fits.
Copy(dAtA, i, s) ==
    IF i < 0 \/ i > Len(dAtA) THEN Panicked
    ELSE [ok |-> TRUE,
          buf |-> [k \in DOMAIN dAtA |->
                     IF k > i /\ k - i <= Len(s) THEN s[k - i] ELSE dAtA[k]]]

\* Writes m at the end of dAtA: the string, before it its length, before
\* that the tag 0xa (field 1, wire type 2).  Returns the bytes written.
MarshalToSizedBufferOf(field, m, dAtA) ==
    LET s == m[field]
        i0 == Len(dAtA)
    IN IF Len(s) = 0 THEN [r |-> [ok |-> TRUE, buf |-> dAtA], n |-> 0]
       ELSE LET i1 == i0 - Len(s)
                e == encodeVarintEvents(Copy(dAtA, i1, s), i1, Len(s))
            IN [r |-> Put(e.r, e.i - 1, 10), n |-> i0 - (e.i - 1)]

\* Marshal: a zeroed buffer of Size bytes, filled from the back.
MarshalOf(field, m) ==
    LET size == SizeOf(field, m)
        w == MarshalToSizedBufferOf(field, m, [k \in 1..size |-> 0])
    IN IF ~w.r.ok \/ w.n > size THEN Panicked
       ELSE [ok |-> TRUE, buf |-> SubSeq(w.r.buf, 1, w.n)]

\* GetTxHash() and GetTxId(): the field, or "" on a nil receiver.
NilMsg == <<>>   \* a nil *E, which has no field at all
GetOf(field, m) == IF m # NilMsg THEN m[field] ELSE <<>>

-----------------------------------------------------------------------------
(* Decoding.                                                               *)

\* One of Unmarshal's and skipEvents' varint loops, from iNdEx: the value
\* accumulated into a word, and the index after the last byte.
RECURSIVE VarintLoop(_, _, _, _)

\* Mutation: no shift >= 64 check; bytes past the tenth are read and lost.
VarintLoopNoOverflow(dAtA, iNdEx, shift, acc) ==
    IF iNdEx >= Len(dAtA)
    THEN [err |-> "UnexpectedEOF", val |-> W0, next |-> iNdEx]
    ELSE LET b == dAtA[iNdEx + 1]
             acc2 == OrShift7(acc, b % 128, shift)
         IN IF b < 128 THEN [err |-> NoErr, val |-> acc2, next |-> iNdEx + 1]
            ELSE VarintLoop(dAtA, iNdEx + 1, shift + 7, acc2)

VarintLoop(dAtA, iNdEx, shift, acc) ==
    IF shift >= 64 THEN [err |-> "IntOverflow", val |-> W0, next |-> iNdEx]
    ELSE IF iNdEx >= Len(dAtA)
         THEN [err |-> "UnexpectedEOF", val |-> W0, next |-> iNdEx]
    ELSE LET b == dAtA[iNdEx + 1]
             acc2 == OrShift7(acc, b % 128, shift)
         IN IF b < 128 THEN [err |-> NoErr, val |-> acc2, next |-> iNdEx + 1]
            ELSE VarintLoop(dAtA, iNdEx + 1, shift + 7, acc2)

SkipErr(e) == [err |-> e, n |-> W0]

\* skipEvents: the length of the field (with any group it opens) at the
\* start of dAtA.  SkipNext is the check after each element.  The tag is
\* passed on as an argument, so each case reads the one value.
RECURSIVE SkipLoop(_, _, _), SkipNext(_, _, _), SkipTag(_, _, _),
          SkipWire(_, _, _, _)

SkipNext(dAtA, iNdEx, depth) ==
    IF IsNeg(iNdEx) THEN SkipErr("InvalidLength")
    ELSE IF depth = 0 THEN [err |-> NoErr, n |-> iNdEx]
    ELSE IF ~LtNat(iNdEx, Len(dAtA)) THEN SkipErr("UnexpectedEOF")
    ELSE SkipLoop(dAtA, ToNat(iNdEx), depth)

\* Mutation: the fixed64 and fixed32 widths swapped.
SkipWireFixedSwapped(dAtA, t, v, depth) ==
    CASE Low3(t.val) = 0 ->
            IF v.err # NoErr THEN SkipErr(v.err)
            ELSE SkipNext(dAtA, FromNat(v.next), depth)
      [] Low3(t.val) = 1 -> SkipNext(dAtA, FromNat(t.next + 4), depth)
      [] Low3(t.val) = 2 ->
            IF v.err # NoErr THEN SkipErr(v.err)
            ELSE IF IsNeg(v.val) THEN SkipErr("InvalidLength")
            ELSE SkipNext(dAtA, AddW(FromNat(v.next), v.val), depth)
      [] Low3(t.val) = 3 -> SkipNext(dAtA, FromNat(t.next), depth + 1)
      [] Low3(t.val) = 4 ->
            IF depth = 0 THEN SkipErr("UnexpectedEndOfGroup")
            ELSE SkipNext(dAtA, FromNat(t.next), depth - 1)
      [] Low3(t.val) = 5 -> SkipNext(dAtA, FromNat(t.next + 8), depth)
      [] OTHER -> SkipErr("IllegalWireType")

\* The switch on the wire type of the tag t; v is the varint after the
\* tag, read by the varint and length cases.
SkipWire(dAtA, t, v, depth) ==
    CASE Low3(t.val) = 0 ->
            IF v.err # NoErr THEN SkipErr(v.err)
            ELSE SkipNext(dAtA, FromNat(v.next), depth)
      [] Low3(t.val) = 1 -> SkipNext(dAtA, FromNat(t.next + 8), depth)
      [] Low3(t.val) = 2 ->
            IF v.err # NoErr THEN SkipErr(v.err)
            ELSE IF IsNeg(v.val) THEN SkipErr("InvalidLength")
            ELSE SkipNext(dAtA, AddW(FromNat(v.next), v.val), depth)
      [] Low3(t.val) = 3 -> SkipNext(dAtA, FromNat(t.next), depth + 1)
      [] Low3(t.val) = 4 ->
            IF depth = 0 THEN SkipErr("UnexpectedEndOfGroup")
            ELSE SkipNext(dAtA, FromNat(t.next), depth - 1)
      [] Low3(t.val) = 5 -> SkipNext(dAtA, FromNat(t.next + 4), depth)
      [] OTHER -> SkipErr("IllegalWireType")

\* The tag t has been read: its error, or its wire type's case.
SkipTag(dAtA, t, depth) ==
    IF t.err # NoErr THEN SkipErr(t.err)
    ELSE SkipWire(dAtA, t, VarintLoop(dAtA, t.next, 0, W0), depth)

SkipLoop(dAtA, iNdEx, depth) ==
    IF iNdEx >= Len(dAtA) THEN SkipErr("UnexpectedEOF")
    ELSE SkipTag(dAtA, VarintLoop(dAtA, iNdEx, 0, W0), depth)

skipEvents(dAtA) == SkipLoop(dAtA, 0, 0)

\* dAtA[lo:hi] is in range.
SliceOK(dAtA, lo, hi) ==
    ~IsNeg(hi) /\ IsSmall(hi) /\ lo <= ToNat(hi) /\ ToNat(hi) <= Len(dAtA)

RECURSIVE UnmarshalLoop(_, _, _, _), UnmarshalField(_, _, _, _, _)

\* Mutation: no postIndex > l check before the string is sliced.
UnmarshalFieldNoBound(field, dAtA, iNdEx, m, tag) ==
    LET l == Len(dAtA)
        preIndex == iNdEx
        fieldNum == Int32Shr3(tag.val)
        wireType == Low3(tag.val)
        sl == VarintLoop(dAtA, tag.next, 0, W0)
        postIndex == AddW(FromNat(sl.next), sl.val)
        sk == skipEvents(SubSeq(dAtA, preIndex + 1, l))
        end == AddW(FromNat(preIndex), sk.n)
    IN IF tag.err # NoErr THEN Err(tag.err, m)
       ELSE IF wireType = 4 THEN Err("EndGroupForNonGroup", m)
       ELSE IF fieldNum <= 0 THEN Err("IllegalTag", m)
       ELSE IF fieldNum = 1
            THEN IF wireType # 2 THEN Err("WrongWireType", m)
                 ELSE IF sl.err # NoErr THEN Err(sl.err, m)
                 ELSE IF IsNeg(sl.val) THEN Err("InvalidLength", m)
                 ELSE IF IsNeg(postIndex) THEN Err("InvalidLength", m)
                 ELSE IF ~SliceOK(dAtA, sl.next, postIndex) THEN Err("Panic", m)
                 ELSE UnmarshalLoop(field, dAtA, ToNat(postIndex),
                          field :> SubSeq(dAtA, sl.next + 1, ToNat(postIndex)))
       ELSE IF sk.err # NoErr THEN Err(sk.err, m)
       ELSE IF LtNat(sk.n, 0) \/ IsNeg(end) THEN Err("InvalidLength", m)
       ELSE IF GtNat(end, l) THEN Err("UnexpectedEOF", m)
       ELSE UnmarshalLoop(field, dAtA, ToNat(end), m)

\* One field of Unmarshal's loop, at iNdEx, whose tag varint is tag.  Field
\* 1 must be length-delimited and sets the string (the last one wins);
\* every other field is measured by skipEvents and passed over.
UnmarshalField(field, dAtA, iNdEx, m, tag) ==
    LET l == Len(dAtA)
        preIndex == iNdEx
        fieldNum == Int32Shr3(tag.val)
        wireType == Low3(tag.val)
        sl == VarintLoop(dAtA, tag.next, 0, W0)
        postIndex == AddW(FromNat(sl.next), sl.val)
        sk == skipEvents(SubSeq(dAtA, preIndex + 1, l))
        end == AddW(FromNat(preIndex), sk.n)
    IN IF tag.err # NoErr THEN Err(tag.err, m)
       ELSE IF wireType = 4 THEN Err("EndGroupForNonGroup", m)
       ELSE IF fieldNum <= 0 THEN Err("IllegalTag", m)
       ELSE IF fieldNum = 1
            THEN IF wireType # 2 THEN Err("WrongWireType", m)
                 ELSE IF sl.err # NoErr THEN Err(sl.err, m)
                 ELSE IF IsNeg(sl.val) THEN Err("InvalidLength", m)
                 ELSE IF IsNeg(postIndex) THEN Err("InvalidLength", m)
                 ELSE IF GtNat(postIndex, l) THEN Err("UnexpectedEOF", m)
                 ELSE IF ~SliceOK(dAtA, sl.next, postIndex) THEN Err("Panic", m)
                 ELSE UnmarshalLoop(field, dAtA, ToNat(postIndex),
                          field :> SubSeq(dAtA, sl.next + 1, ToNat(postIndex)))
       ELSE IF sk.err # NoErr THEN Err(sk.err, m)
       ELSE IF LtNat(sk.n, 0) \/ IsNeg(end) THEN Err("InvalidLength", m)
       ELSE IF GtNat(end, l) THEN Err("UnexpectedEOF", m)
       ELSE UnmarshalLoop(field, dAtA, ToNat(end), m)

\* Unmarshal's loop over the fields, from iNdEx, into m: it ends at the end
\* of dAtA, and otherwise reads the next tag.
UnmarshalLoop(field, dAtA, iNdEx, m) ==
    IF iNdEx >= Len(dAtA)
    THEN IF iNdEx > Len(dAtA) THEN Err("UnexpectedEOF", m) ELSE Ok(m)
    ELSE UnmarshalField(field, dAtA, iNdEx, m, VarintLoop(dAtA, iNdEx, 0, W0))

\* (m *E).Unmarshal(dAtA): decodes into m as it is, so a field dAtA does
\* not hold keeps its value (the wire format's merge).
UnmarshalOf(field, m, dAtA) == UnmarshalLoop(field, dAtA, 0, m)

-----------------------------------------------------------------------------
(* The methods the protobuf runtime calls.                                 *)

\* Reset: *m = E{}.
ResetOf(field) == field :> <<>>

\* XXX_Size and XXX_Unmarshal delegate to Size and Unmarshal.
XXXSizeOf(field, m) == SizeOf(field, m)
XXXUnmarshalOf(field, m, dAtA) == UnmarshalOf(field, m, dAtA)

\* MarshalTo(dAtA): MarshalToSizedBuffer on dAtA[:Size()], so the message
\* is written at the front of dAtA; the slice panics when dAtA is shorter.
\* A buffer is a slice whose length is its capacity.
MarshalToOf(field, m, dAtA) ==
    LET size == SizeOf(field, m)
        w == MarshalToSizedBufferOf(field, m, SubSeq(dAtA, 1, size))
    IN IF size > Len(dAtA) \/ ~w.r.ok THEN [r |-> Panicked, n |-> 0]
       ELSE [r |-> [ok |-> TRUE,
                    buf |-> w.r.buf \o SubSeq(dAtA, size + 1, Len(dAtA))],
             n |-> w.n]

\* XXX_Marshal(b, false): MarshalToSizedBuffer on b[:cap(b)], which writes
\* at the end of the capacity, and b[:n] returned.  capb is the backing
\* array from b's start to its capacity; b's length is not read.
XXXMarshalOf(field, m, capb) ==
    LET w == MarshalToSizedBufferOf(field, m, capb)
    IN IF ~w.r.ok \/ w.n > Len(capb) THEN Panicked
       ELSE [ok |-> TRUE, buf |-> SubSeq(w.r.buf, 1, w.n)]

-----------------------------------------------------------------------------
(* The generated methods of each event.                                    *)

EventCreateDeposit_Size(m) == SizeOf("TxHash", m)
EventUpdateDeposit_Size(m) == SizeOf("TxHash", m)
EventDeleteDeposit_Size(m) == SizeOf("TxHash", m)
EventCreateWithdraw_Size(m) == SizeOf("TxId", m)
EventUpdateWithdraw_Size(m) == SizeOf("TxId", m)
EventSignWithdraw_Size(m) == SizeOf("TxId", m)
EventDeleteWithdraw_Size(m) == SizeOf("TxId", m)

EventCreateDeposit_MarshalToSizedBuffer(m, b) == MarshalToSizedBufferOf("TxHash", m, b)
EventUpdateDeposit_MarshalToSizedBuffer(m, b) == MarshalToSizedBufferOf("TxHash", m, b)
EventDeleteDeposit_MarshalToSizedBuffer(m, b) == MarshalToSizedBufferOf("TxHash", m, b)
EventCreateWithdraw_MarshalToSizedBuffer(m, b) == MarshalToSizedBufferOf("TxId", m, b)
EventUpdateWithdraw_MarshalToSizedBuffer(m, b) == MarshalToSizedBufferOf("TxId", m, b)
EventSignWithdraw_MarshalToSizedBuffer(m, b) == MarshalToSizedBufferOf("TxId", m, b)
EventDeleteWithdraw_MarshalToSizedBuffer(m, b) == MarshalToSizedBufferOf("TxId", m, b)

EventCreateDeposit_Marshal(m) == MarshalOf("TxHash", m)
EventUpdateDeposit_Marshal(m) == MarshalOf("TxHash", m)
EventDeleteDeposit_Marshal(m) == MarshalOf("TxHash", m)
EventCreateWithdraw_Marshal(m) == MarshalOf("TxId", m)
EventUpdateWithdraw_Marshal(m) == MarshalOf("TxId", m)
EventSignWithdraw_Marshal(m) == MarshalOf("TxId", m)
EventDeleteWithdraw_Marshal(m) == MarshalOf("TxId", m)

EventCreateDeposit_Unmarshal(m, b) == UnmarshalOf("TxHash", m, b)
EventUpdateDeposit_Unmarshal(m, b) == UnmarshalOf("TxHash", m, b)
EventDeleteDeposit_Unmarshal(m, b) == UnmarshalOf("TxHash", m, b)
EventCreateWithdraw_Unmarshal(m, b) == UnmarshalOf("TxId", m, b)
EventUpdateWithdraw_Unmarshal(m, b) == UnmarshalOf("TxId", m, b)
EventSignWithdraw_Unmarshal(m, b) == UnmarshalOf("TxId", m, b)
EventDeleteWithdraw_Unmarshal(m, b) == UnmarshalOf("TxId", m, b)

EventCreateDeposit_Reset == ResetOf("TxHash")
EventUpdateDeposit_Reset == ResetOf("TxHash")
EventDeleteDeposit_Reset == ResetOf("TxHash")
EventCreateWithdraw_Reset == ResetOf("TxId")
EventUpdateWithdraw_Reset == ResetOf("TxId")
EventSignWithdraw_Reset == ResetOf("TxId")
EventDeleteWithdraw_Reset == ResetOf("TxId")

EventCreateDeposit_MarshalTo(m, b) == MarshalToOf("TxHash", m, b)
EventUpdateDeposit_MarshalTo(m, b) == MarshalToOf("TxHash", m, b)
EventDeleteDeposit_MarshalTo(m, b) == MarshalToOf("TxHash", m, b)
EventCreateWithdraw_MarshalTo(m, b) == MarshalToOf("TxId", m, b)
EventUpdateWithdraw_MarshalTo(m, b) == MarshalToOf("TxId", m, b)
EventSignWithdraw_MarshalTo(m, b) == MarshalToOf("TxId", m, b)
EventDeleteWithdraw_MarshalTo(m, b) == MarshalToOf("TxId", m, b)

EventCreateDeposit_XXX_Size(m) == XXXSizeOf("TxHash", m)
EventUpdateDeposit_XXX_Size(m) == XXXSizeOf("TxHash", m)
EventDeleteDeposit_XXX_Size(m) == XXXSizeOf("TxHash", m)
EventCreateWithdraw_XXX_Size(m) == XXXSizeOf("TxId", m)
EventUpdateWithdraw_XXX_Size(m) == XXXSizeOf("TxId", m)
EventSignWithdraw_XXX_Size(m) == XXXSizeOf("TxId", m)
EventDeleteWithdraw_XXX_Size(m) == XXXSizeOf("TxId", m)

EventCreateDeposit_XXX_Marshal(m, b) == XXXMarshalOf("TxHash", m, b)
EventUpdateDeposit_XXX_Marshal(m, b) == XXXMarshalOf("TxHash", m, b)
EventDeleteDeposit_XXX_Marshal(m, b) == XXXMarshalOf("TxHash", m, b)
EventCreateWithdraw_XXX_Marshal(m, b) == XXXMarshalOf("TxId", m, b)
EventUpdateWithdraw_XXX_Marshal(m, b) == XXXMarshalOf("TxId", m, b)
EventSignWithdraw_XXX_Marshal(m, b) == XXXMarshalOf("TxId", m, b)
EventDeleteWithdraw_XXX_Marshal(m, b) == XXXMarshalOf("TxId", m, b)

EventCreateDeposit_XXX_Unmarshal(m, b) == XXXUnmarshalOf("TxHash", m, b)
EventUpdateDeposit_XXX_Unmarshal(m, b) == XXXUnmarshalOf("TxHash", m, b)
EventDeleteDeposit_XXX_Unmarshal(m, b) == XXXUnmarshalOf("TxHash", m, b)
EventCreateWithdraw_XXX_Unmarshal(m, b) == XXXUnmarshalOf("TxId", m, b)
EventUpdateWithdraw_XXX_Unmarshal(m, b) == XXXUnmarshalOf("TxId", m, b)
EventSignWithdraw_XXX_Unmarshal(m, b) == XXXUnmarshalOf("TxId", m, b)
EventDeleteWithdraw_XXX_Unmarshal(m, b) == XXXUnmarshalOf("TxId", m, b)

EventCreateDeposit_GetTxHash(m) == GetOf("TxHash", m)
EventUpdateDeposit_GetTxHash(m) == GetOf("TxHash", m)
EventDeleteDeposit_GetTxHash(m) == GetOf("TxHash", m)
EventCreateWithdraw_GetTxId(m) == GetOf("TxId", m)
EventUpdateWithdraw_GetTxId(m) == GetOf("TxId", m)
EventSignWithdraw_GetTxId(m) == GetOf("TxId", m)
EventDeleteWithdraw_GetTxId(m) == GetOf("TxId", m)

\* (m *E).Marshal(), (m *E).Unmarshal(b) and (m *E).Size() by the
\* event's name.
Marshal(e, m) ==
    CASE e = "EventCreateDeposit"  -> EventCreateDeposit_Marshal(m)
      [] e = "EventUpdateDeposit"  -> EventUpdateDeposit_Marshal(m)
      [] e = "EventDeleteDeposit"  -> EventDeleteDeposit_Marshal(m)
      [] e = "EventCreateWithdraw" -> EventCreateWithdraw_Marshal(m)
      [] e = "EventUpdateWithdraw" -> EventUpdateWithdraw_Marshal(m)
      [] e = "EventSignWithdraw"   -> EventSignWithdraw_Marshal(m)
      [] e = "EventDeleteWithdraw" -> EventDeleteWithdraw_Marshal(m)

Unmarshal(e, m, b) ==
    CASE e = "EventCreateDeposit"  -> EventCreateDeposit_Unmarshal(m, b)
      [] e = "EventUpdateDeposit"  -> EventUpdateDeposit_Unmarshal(m, b)
      [] e = "EventDeleteDeposit"  -> EventDeleteDeposit_Unmarshal(m, b)
      [] e = "EventCreateWithdraw" -> EventCreateWithdraw_Unmarshal(m, b)
      [] e = "EventUpdateWithdraw" -> EventUpdateWithdraw_Unmarshal(m, b)
      [] e = "EventSignWithdraw"   -> EventSignWithdraw_Unmarshal(m, b)
      [] e = "EventDeleteWithdraw" -> EventDeleteWithdraw_Unmarshal(m, b)

Size(e, m) ==
    CASE e = "EventCreateDeposit"  -> EventCreateDeposit_Size(m)
      [] e = "EventUpdateDeposit"  -> EventUpdateDeposit_Size(m)
      [] e = "EventDeleteDeposit"  -> EventDeleteDeposit_Size(m)
      [] e = "EventCreateWithdraw" -> EventCreateWithdraw_Size(m)
      [] e = "EventUpdateWithdraw" -> EventUpdateWithdraw_Size(m)
      [] e = "EventSignWithdraw"   -> EventSignWithdraw_Size(m)
      [] e = "EventDeleteWithdraw" -> EventDeleteWithdraw_Size(m)

\* The runtime's methods and the getter by the event's name.
Reset(e) ==
    CASE e = "EventCreateDeposit"  -> EventCreateDeposit_Reset
      [] e = "EventUpdateDeposit"  -> EventUpdateDeposit_Reset
      [] e = "EventDeleteDeposit"  -> EventDeleteDeposit_Reset
      [] e = "EventCreateWithdraw" -> EventCreateWithdraw_Reset
      [] e = "EventUpdateWithdraw" -> EventUpdateWithdraw_Reset
      [] e = "EventSignWithdraw"   -> EventSignWithdraw_Reset
      [] e = "EventDeleteWithdraw" -> EventDeleteWithdraw_Reset

MarshalTo(e, m, b) ==
    CASE e = "EventCreateDeposit"  -> EventCreateDeposit_MarshalTo(m, b)
      [] e = "EventUpdateDeposit"  -> EventUpdateDeposit_MarshalTo(m, b)
      [] e = "EventDeleteDeposit"  -> EventDeleteDeposit_MarshalTo(m, b)
      [] e = "EventCreateWithdraw" -> EventCreateWithdraw_MarshalTo(m, b)
      [] e = "EventUpdateWithdraw" -> EventUpdateWithdraw_MarshalTo(m, b)
      [] e = "EventSignWithdraw"   -> EventSignWithdraw_MarshalTo(m, b)
      [] e = "EventDeleteWithdraw" -> EventDeleteWithdraw_MarshalTo(m, b)

XXX_Size(e, m) ==
    CASE e = "EventCreateDeposit"  -> EventCreateDeposit_XXX_Size(m)
      [] e = "EventUpdateDeposit"  -> EventUpdateDeposit_XXX_Size(m)
      [] e = "EventDeleteDeposit"  -> EventDeleteDeposit_XXX_Size(m)
      [] e = "EventCreateWithdraw" -> EventCreateWithdraw_XXX_Size(m)
      [] e = "EventUpdateWithdraw" -> EventUpdateWithdraw_XXX_Size(m)
      [] e = "EventSignWithdraw"   -> EventSignWithdraw_XXX_Size(m)
      [] e = "EventDeleteWithdraw" -> EventDeleteWithdraw_XXX_Size(m)

XXX_Marshal(e, m, b) ==
    CASE e = "EventCreateDeposit"  -> EventCreateDeposit_XXX_Marshal(m, b)
      [] e = "EventUpdateDeposit"  -> EventUpdateDeposit_XXX_Marshal(m, b)
      [] e = "EventDeleteDeposit"  -> EventDeleteDeposit_XXX_Marshal(m, b)
      [] e = "EventCreateWithdraw" -> EventCreateWithdraw_XXX_Marshal(m, b)
      [] e = "EventUpdateWithdraw" -> EventUpdateWithdraw_XXX_Marshal(m, b)
      [] e = "EventSignWithdraw"   -> EventSignWithdraw_XXX_Marshal(m, b)
      [] e = "EventDeleteWithdraw" -> EventDeleteWithdraw_XXX_Marshal(m, b)

XXX_Unmarshal(e, m, b) ==
    CASE e = "EventCreateDeposit"  -> EventCreateDeposit_XXX_Unmarshal(m, b)
      [] e = "EventUpdateDeposit"  -> EventUpdateDeposit_XXX_Unmarshal(m, b)
      [] e = "EventDeleteDeposit"  -> EventDeleteDeposit_XXX_Unmarshal(m, b)
      [] e = "EventCreateWithdraw" -> EventCreateWithdraw_XXX_Unmarshal(m, b)
      [] e = "EventUpdateWithdraw" -> EventUpdateWithdraw_XXX_Unmarshal(m, b)
      [] e = "EventSignWithdraw"   -> EventSignWithdraw_XXX_Unmarshal(m, b)
      [] e = "EventDeleteWithdraw" -> EventDeleteWithdraw_XXX_Unmarshal(m, b)

Get(e, m) ==
    CASE e = "EventCreateDeposit"  -> EventCreateDeposit_GetTxHash(m)
      [] e = "EventUpdateDeposit"  -> EventUpdateDeposit_GetTxHash(m)
      [] e = "EventDeleteDeposit"  -> EventDeleteDeposit_GetTxHash(m)
      [] e = "EventCreateWithdraw" -> EventCreateWithdraw_GetTxId(m)
      [] e = "EventUpdateWithdraw" -> EventUpdateWithdraw_GetTxId(m)
      [] e = "EventSignWithdraw"   -> EventSignWithdraw_GetTxId(m)
      [] e = "EventDeleteWithdraw" -> EventDeleteWithdraw_GetTxId(m)

=============================================================================
