------------------------- MODULE BinaryPropagation -------------------------
(***************************************************************************)
(* The binary propagator, src/tracer/propagation_ot.go:164-239.  Inject    *)
(* marshals the span context (wire.TracerState, a proto3 message), writes  *)
(* its length as 4 big-endian bytes, then the payload.  Extract reads the  *)
(* length with binary.Read (io.ReadFull underneath), allocates a zeroed    *)
(* buffer of that length, fills it with ONE carrier.Read call and          *)
(* unmarshals it.                                                          *)
(*                                                                         *)
(* Abstraction.  A byte is a small natural; a fixed64 field is W bytes.    *)
(* Tag bytes are 11..15 for fields 1..5 of TracerState (trace id high and  *)
(* low halves, span id, sampled, baggage entries) and 21, 22 for the key   *)
(* and value of a baggage entry; 0 is never a valid tag.  proto3 omits a   *)
(* field at its zero value.  The carrier is the byte stream between the    *)
(* writer and the reader; the transport may deliver only a prefix of it.   *)
(***************************************************************************)
EXTENDS Naturals, Sequences, TLC

CONSTANTS
    W,          \* bytes of a fixed64 field
    Ids,        \* values of a fixed64 field (W-byte sequences)
    Keys,       \* baggage keys (one-byte sequences)
    Values,     \* baggage values (short byte sequences)
    Readers,    \* the io.Reader behaviours Extract may be handed
    Chunk       \* bytes a "chunked" reader returns per Read

Zero == [i \in 1..W |-> 0]
Zeros(n) == [i \in 1..n |-> 0]
MinOf(a, b) == IF a < b THEN a ELSE b

\* A span context: a baggage is a function from keys to values.
SpanContexts ==
    [hi : Ids, lo : Ids, span : Ids, sampled : BOOLEAN,
     baggage : UNION {[K -> Values] : K \in SUBSET Keys}]

VARIABLES
    sent,     \* the context last injected
    stream,   \* the bytes the reader's carrier holds
    reader,   \* the reader behaviour Extract was handed
    outcome   \* Extract's result: [kind, ctx]

vars == <<sent, stream, reader, outcome>>

-----------------------------------------------------------------------------
(* proto3 encoding of TracerState                                          *)

Tag(n) == 10 + n
TopSchema == [t \in {Tag(1), Tag(2), Tag(3)} |-> "fixed"] @@ (Tag(4) :> "varint") @@ (Tag(5) :> "bytes")
EntrySchema == (21 :> "bytes") @@ (22 :> "bytes")

FixedField(n, v) == IF v = Zero THEN <<>> ELSE <<Tag(n)>> \o v

Entry(k, v) ==
    LET body == <<21, Len(k)>> \o k \o <<22, Len(v)>> \o v
    IN  <<Tag(5), Len(body)>> \o body

RECURSIVE EntriesOf(_, _)
EntriesOf(bag, K) ==
    IF K = {} THEN <<>>
    ELSE LET k == CHOOSE x \in K : TRUE
         IN  Entry(k, bag[k]) \o EntriesOf(bag, K \ {k})

Marshal(sc) ==
    FixedField(1, sc.hi) \o FixedField(2, sc.lo) \o FixedField(3, sc.span)
    \o (IF sc.sampled THEN <<Tag(4), 1>> ELSE <<>>)
    \o EntriesOf(sc.baggage, DOMAIN sc.baggage)

\* The bytes a field starting at b[1] takes, its tag included.
FieldLen(b, schema) ==
    CASE schema[b[1]] = "fixed"  -> 1 + W
      [] schema[b[1]] = "varint" -> 2
      [] schema[b[1]] = "bytes"  -> IF Len(b) >= 2 THEN 2 + b[2] ELSE 2

FieldValue(b, schema) ==
    SubSeq(b, IF schema[b[1]] = "bytes" THEN 3 ELSE 2, FieldLen(b, schema))

\* proto.Unmarshal's field loop: the <<tag, value>> pairs of b in order, or
\* failure on a tag outside the schema (0 included) or a field cut short.
RECURSIVE Fields(_, _)
Fields(b, schema) ==
    IF b = <<>> THEN [ok |-> TRUE, fs |-> <<>>]
    ELSE IF b[1] \notin DOMAIN schema \/ Len(b) < FieldLen(b, schema)
    THEN [ok |-> FALSE, fs |-> <<>>]
    ELSE LET rest == Fields(SubSeq(b, FieldLen(b, schema) + 1, Len(b)), schema)
         IN  [ok |-> rest.ok, fs |-> <<<<b[1], FieldValue(b, schema)>>>> \o rest.fs]

\* The last value of tag t in fs (proto's last-one-wins), or dflt.
Last(fs, t, dflt) ==
    IF \E i \in DOMAIN fs : fs[i][1] = t
    THEN fs[CHOOSE i \in DOMAIN fs : fs[i][1] = t /\ \A j \in DOMAIN fs : fs[j][1] = t => j <= i][2]
    ELSE dflt

EntryFields(fs) == {Fields(fs[i][2], EntrySchema) : i \in {i \in DOMAIN fs : fs[i][1] = Tag(5)}}

Unmarshals(b) ==
    LET top == Fields(b, TopSchema)
    IN  top.ok /\ \A e \in EntryFields(top.fs) : e.ok

\* The decoded TracerState, fields missing from b at their zero value.
Unmarshal(b) ==
    LET fs == Fields(b, TopSchema).fs
        entries == EntryFields(fs)
        KeyOf(e) == Last(e.fs, 21, <<>>)
    IN  [hi |-> Last(fs, Tag(1), Zero), lo |-> Last(fs, Tag(2), Zero),
         span |-> Last(fs, Tag(3), Zero), sampled |-> Last(fs, Tag(4), <<0>>)[1],
         baggage |-> [k \in {KeyOf(e) : e \in entries} |->
                        Last((CHOOSE e \in entries : KeyOf(e) = k).fs, 22, <<>>)]]

-----------------------------------------------------------------------------
(* Inject and Extract                                                      *)

\* The length prefix (binary.Write of a uint32, big-endian) and the payload.
Frame(sc) == <<0, 0, 0, Len(Marshal(sc))>> \o Marshal(sc)

\* Mutant: the trace id halves reassembled in the wrong order.
ToContext_Swapped(st) ==
    [hi |-> st.lo, lo |-> st.hi, span |-> st.span, sampled |-> st.sampled # 0,
     baggage |-> st.baggage]

\* Lines 229-238: the trace id reassembled from its halves, the other
\* fields copied.
ToContext(st) ==
    [hi |-> st.hi, lo |-> st.lo, span |-> st.span, sampled |-> st.sampled # 0,
     baggage |-> st.baggage]

ZeroCtx == [hi |-> Zero, lo |-> Zero, span |-> Zero, sampled |-> FALSE, baggage |-> <<>>]
Result(kind) == [kind |-> kind, ctx |-> ZeroCtx]
Decoded(buf) ==
    IF Unmarshals(buf) THEN [kind |-> "ok", ctx |-> ToContext(Unmarshal(buf))]
    ELSE Result("corrupted")

\* One Read(p) call with len(p) = want on a reader holding `have` more
\* bytes: bytes.Buffer and the like return what they have and io.EOF only
\* when they had nothing; a connection returns at most a chunk; io.Reader
\* also allows returning io.EOF together with the last bytes.
ReadCall(rd, want, have) ==
    CASE rd = "buffer" ->
           [n |-> MinOf(want, have), eof |-> want > 0 /\ have = 0]
      [] rd = "chunked" ->
           [n |-> MinOf(MinOf(want, have), Chunk), eof |-> want > 0 /\ have = 0]
      [] rd = "eofWithData" ->
           [n |-> MinOf(want, have), eof |-> want > 0 /\ have <= want]

\* Extract (lines 200-239) on the bytes s: binary.Read of the length fails
\* (corrupted) on fewer than 4 bytes; a Read error is corrupted if bytes
\* were read and not-found otherwise; a short read without error leaves
\* the rest of the buffer zero; a failed Unmarshal is corrupted.
ExtractFrom(s, rd) ==
    IF Len(s) < 4 THEN Result("corrupted")
    ELSE LET length == s[4]
             rest == SubSeq(s, 5, Len(s))
             r == ReadCall(rd, length, Len(rest))
         IN  IF r.eof THEN Result(IF r.n > 0 THEN "corrupted" ELSE "notfound")
             ELSE Decoded(SubSeq(rest, 1, r.n) \o Zeros(length - r.n))

\* spec.md 4.4: the payload is read exactly; none of it is not-found, part
\* of it is corrupted.
SpecExtract(s) ==
    IF Len(s) < 4 THEN Result("corrupted")
    ELSE LET avail == MinOf(s[4], Len(s) - 4)
         IN  IF avail < s[4] THEN Result(IF avail = 0 THEN "notfound" ELSE "corrupted")
             ELSE Decoded(SubSeq(s, 5, 4 + s[4]))

-----------------------------------------------------------------------------

Init ==
    /\ sent = ZeroCtx
    /\ stream = <<>>
    /\ reader = "none"
    /\ outcome = Result("none")

\* Inject (lines 164-198) into the writer: the frame of sc.
Inject(sc) ==
    /\ stream = <<>> /\ outcome = Result("none")
    /\ sent' = sc
    /\ stream' = Frame(sc)
    /\ UNCHANGED <<reader, outcome>>

\* The transport delivers only the first k bytes (a dropped connection, a
\* truncated RPC frame).
Cut(k) ==
    /\ outcome = Result("none")
    /\ k < Len(stream)
    /\ stream' = SubSeq(stream, 1, k)
    /\ UNCHANGED <<sent, reader, outcome>>

\* Extract with reader rd over the carrier's bytes.
Extract(rd) ==
    /\ outcome = Result("none")
    /\ reader' = rd
    /\ outcome' = ExtractFrom(stream, rd)
    /\ UNCHANGED <<sent, stream>>

Next ==
    \/ \E sc \in SpanContexts : Inject(sc)
    \/ \E k \in 0..Len(stream) : Cut(k)
    \/ \E rd \in Readers : Extract(rd)
    \/ outcome # Result("none") /\ UNCHANGED vars

Spec == Init /\ [][Next]_vars

-----------------------------------------------------------------------------

\* spec.md 8: Extract(Inject(ctx)) recovers the trace id halves, span id,
\* sampled flag and baggage exactly, empty baggage and zero fields (which
\* proto3 leaves out) included.
RoundTrip ==
    outcome # Result("none") /\ stream = Frame(sent)
        => outcome = [kind |-> "ok", ctx |-> sent]

\* Extract reports what spec.md 4.4 says for the bytes the carrier holds:
\* a truncated payload is corrupted, a missing one not found, never a
\* context decoded from a partly zero buffer.
ExtractFollowsSpec ==
    outcome # Result("none") => outcome = SpecExtract(stream)

=============================================================================
