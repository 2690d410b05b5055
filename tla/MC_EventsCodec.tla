--------------------------- MODULE MC_EventsCodec ---------------------------
(***************************************************************************)
(* Model-checking harness of EventsCodec.  A behaviour takes one event     *)
(* type and one case: a message to encode and then decode, or bytes to     *)
(* decode.  A message is encoded by Marshal, by the runtime's              *)
(* proto.Marshal (XXX_Size, then XXX_Marshal into make([]byte, 0, size))   *)
(* or by MarshalTo into a buffer of Size or Size + 1 bytes.  Bytes are     *)
(* decoded by Unmarshal into a message that may already hold a string, or  *)
(* by the runtime's proto.Unmarshal (Reset, then XXX_Unmarshal).  The      *)
(* bytes are the encodings of messages with unknown fields of every wire   *)
(* type, every cut of those encodings inside a field, inputs at the 64-bit *)
(* and int32 edges of the varint arithmetic, and all short byte strings    *)
(* over an alphabet of tags, lengths and continuation bytes.               *)
(***************************************************************************)
EXTENDS EventsCodec, WireFormat
LOCAL INSTANCE SequencesExt

VARIABLES
    event,   \* which of the seven generated types
    case,    \* the input: kind, message string, fields, bytes, the APIs
    phase,   \* "marshal", "unmarshal" or "done"
    wire,    \* the bytes to decode ([ok, buf]); ok is FALSE after a panic
    size,    \* the bytes the encoder reported writing
    out      \* what Unmarshal returned

vars == <<event, case, phase, wire, size, out>>

Pending == [err |-> "pending", msg |-> <<>>]

Repeat(b, n) == [k \in 1..n |-> b]

\* Strings of events: short ones over bytes that look like a tag, a
\* continuation byte and zero, and long ones at the varint-length edges.
Strings == BoundedSeq({0, 10, 128}, 2)
             \cup {Repeat(10, n) : n \in {127, 128, 16383, 16384}}

\* Fields of well-formed messages: the string field, and unknown fields of
\* every wire type, with payloads that look like tags and a nested group.
StringFields == {BytesF(1, d) : d \in {<<>>, <<10>>, <<128, 10>>}}
UnknownFields ==
    {BytesF(2, <<10>>), VarintF(3, 300), VarintF(2, 0),
     Fixed64F(2, Repeat(10, 8)), Fixed32F(15, Repeat(10, 4)),
     Fixed32F(16, Repeat(10, 4)), BytesF(1048576, <<>>), GroupF(2, <<>>),
     GroupF(2, <<VarintF(1, 1)>>),
     GroupF(3, <<GroupF(4, <<Fixed64F(1, Repeat(10, 8))>>)>>)}
WellFormed ==
    BoundedSeq(StringFields \cup UnknownFields, 2)
      \cup {<<a, u, b>> : a, b \in StringFields, u \in UnknownFields}

\* Field 1 with a wire type other than 2.
WrongType ==
    {<<VarintF(1, 5)>>, <<Fixed64F(1, Repeat(10, 8))>>, <<GroupF(1, <<>>)>>,
     <<Fixed32F(1, Repeat(10, 4))>>, <<BytesF(1, <<10>>), VarintF(1, 5)>>}

\* Inputs past the edges of the varint arithmetic, and tags the wire
\* format does not have.
Max63 == Repeat(127, 9)                      \* 2^63 - 1
Edges ==
    { <<138>> \o Repeat(128, 9) \o <<0, 0>>,        \* an 11-byte tag
      <<10>> \o VarintOfGroups(Max63 \o <<1>>),     \* length 2^64 - 1
      <<10>> \o VarintOfGroups(Max63),              \* length 2^63 - 1
      <<10>> \o VarintOfGroups(Repeat(0, 8) \o <<64>>), \* length 2^62
      <<18>> \o VarintOfGroups(Max63),              \* unknown, 2^63 - 1
      Encode(<<BytesF(1, <<10>>)>>) \o <<18>>
        \o VarintOfGroups(<<117>> \o Repeat(127, 8)), \* skip to 2^63 - 1
      <<22>>, <<15>>, <<2, 0>>, <<12>>, <<20>>,
      VarintOfGroups(<<2, 0, 0, 0, 64>>) }         \* field number -2^31

Malformed ==
    UNION {{SubSeq(Encode(fs), 1, k) :
               k \in (1..Len(Encode(fs))) \ Boundaries(fs)} :
            fs \in BoundedSeq(StringFields \cup UnknownFields, 2)}
      \cup {Encode(fs) : fs \in WrongType} \cup Edges

\* Bytes the wire format rejects and the generated decoder accepts: a
\* field number past 2^32 that int32 truncates to 1, a group closed by
\* another field's end-group tag, and a tag whose tenth byte has bits
\* past bit 63.
Overlong ==
    { VarintOfGroups(<<10, 0, 0, 0, 0, 1>>) \o <<1, 10>>,
      <<19, 28>>,
      VarintOfGroups(<<10>> \o Repeat(0, 8) \o <<127>>) \o <<0>> }

AnyBytes == BoundedSeq({0, 1, 2, 8, 9, 10, 11, 12, 13, 14, 15, 18, 20, 127,
                        128, 255}, 3)
              \cup SeqOf({0, 1, 10, 11, 12, 18, 128}, 4)

\* The encoders, with the spare bytes of MarshalTo's buffer, and the
\* decoders; prior is the string the decoded message held before.
Encoders == {[api |-> "Marshal", spare |-> 0],
             [api |-> "proto.Marshal", spare |-> 0],
             [api |-> "MarshalTo", spare |-> 0],
             [api |-> "MarshalTo", spare |-> 1]}
Decoders == {[api |-> "Unmarshal", prior |-> p] : p \in {<<>>, <<10>>}}
              \cup {[api |-> "proto.Unmarshal", prior |-> <<10>>]}
Fresh == [api |-> "Unmarshal", prior |-> <<>>]
NoEncoder == [api |-> "none", spare |-> 0]

Case(kind, str, fs, bytes, enc, dec) ==
    [kind |-> kind, str |-> str, fields |-> fs, input |-> bytes,
     enc |-> enc, dec |-> dec]

Cases ==
    {Case("message", s, <<>>, <<>>, enc, dec) :
        s \in Strings, enc \in Encoders,
        dec \in {Fresh, [api |-> "proto.Unmarshal", prior |-> <<10>>]}}
      \cup {Case("wellformed", <<>>, fs, Encode(fs), NoEncoder, dec) :
              fs \in WellFormed, dec \in Decoders}
      \cup {Case("malformed", <<>>, <<>>, b, NoEncoder, Fresh) : b \in Malformed}
      \cup {Case("overlong", <<>>, <<>>, b, NoEncoder, Fresh) : b \in Overlong}
      \cup {Case("bytes", <<>>, <<>>, b, NoEncoder, Fresh) : b \in AnyBytes}

-----------------------------------------------------------------------------
Init ==
    /\ event \in Events
    /\ case \in Cases
    /\ phase = IF case.kind = "message" THEN "marshal" ELSE "unmarshal"
    /\ wire = [ok |-> case.kind # "message", buf |-> case.input]
    /\ size = 0
    /\ out = Pending

\* A message is encoded: by Marshal, measured with Size; by proto.Marshal,
\* which sizes the buffer with XXX_Size; or by MarshalTo into a
\* caller's buffer of 255s, which reports the bytes it wrote.
MarshalEvent ==
    /\ phase = "marshal"
    /\ LET f == FieldOf(event)
           m == f :> case.str
           sz == Size(event, m)
           to == MarshalTo(event, m, Repeat(255, sz + case.enc.spare))
       IN CASE case.enc.api = "Marshal" ->
                 wire' = Marshal(event, m) /\ size' = sz
            [] case.enc.api = "proto.Marshal" ->
                 LET xs == XXX_Size(event, m)
                 IN wire' = XXX_Marshal(event, m, Repeat(0, xs)) /\ size' = xs
            [] case.enc.api = "MarshalTo" ->
                 wire' = to.r /\ size' = to.n
    /\ phase' = "unmarshal"
    /\ UNCHANGED <<event, case, out>>

\* The bytes to decode: what the encoder reported writing, or the input.
Written == IF case.kind = "message" THEN SubSeq(wire.buf, 1, size)
           ELSE wire.buf

\* The bytes are decoded with its event's Unmarshal into a message holding
\* prior, or by proto.Unmarshal: Reset, then XXX_Unmarshal.
UnmarshalEvent ==
    /\ phase = "unmarshal"
    /\ wire.ok
    /\ LET f == FieldOf(event)
       IN out' = IF case.dec.api = "proto.Unmarshal"
                 THEN XXX_Unmarshal(event, Reset(event), Written)
                 ELSE Unmarshal(event, f :> case.dec.prior, Written)
    /\ phase' = "done"
    /\ UNCHANGED <<event, case, wire, size>>

Next == MarshalEvent \/ UnmarshalEvent

Spec == Init /\ [][Next]_vars

-----------------------------------------------------------------------------
\* MarshalToSizedBuffer writes back to front from the end of the buffer it
\* is given; Marshal, proto.Marshal (through XXX_Marshal's b[:cap(b)] and
\* b[:n]) and MarshalTo (through dAtA[:size]) must each produce exactly
\* the wire-format encoding (nothing for an empty string) at the front,
\* MarshalTo leave the rest of its buffer alone, and decoding into a fresh
\* or Reset message must give the message back, as its getter reads it.
RoundTrip ==
    LET enc == IF case.str = <<>> THEN <<>>
               ELSE Encode(<<BytesF(1, case.str)>>)
    IN case.kind = "message" /\ phase # "marshal" =>
        /\ wire = [ok |-> TRUE, buf |-> enc \o Repeat(255, case.enc.spare)]
        /\ size = Len(enc)
        /\ phase = "done" => out.err = NoErr /\ Get(event, out.msg) = case.str

\* Decoding a well-formed message, with unknown fields of every wire type
\* skipped by skipEvents, yields the last value of field 1; when there is
\* none, Unmarshal keeps the string the message held and proto.Unmarshal
\* (which resets first) the empty string.
DecodesWellFormed ==
    LET old == IF case.dec.api = "proto.Unmarshal" THEN <<>>
               ELSE case.dec.prior
    IN case.kind = "wellformed" /\ phase = "done" =>
        out = Ok(FieldOf(event) :> MergeString(case.fields, old))

\* Every truncation inside a field, field 1 of another wire type, and
\* every input past the 64-bit edges is rejected with an error.
RejectsMalformed ==
    case.kind = "malformed" /\ phase = "done" =>
        out.err \in Errors \ {"Panic"}

\* No input makes Unmarshal index or slice past its buffer.
NeverPanics == phase = "done" => out.err # "Panic"

\* The wire format's tags: Unmarshal rejects the overlong ones.
RejectsOverlongTags ==
    case.kind = "overlong" /\ phase = "done" => out.err # NoErr

=============================================================================
