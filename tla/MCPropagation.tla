--------------------------- MODULE MCPropagation ---------------------------
(* The tracer hands a carrier to the propagator of its format: text maps   *)
(* and HTTP headers to the text propagator, byte streams to the binary     *)
(* one.  A behaviour picks the format of its carrier and then runs that     *)
(* propagator's Inject and Extract; the other propagator stays idle.  The  *)
(* carriers are the benign ones: what Inject wrote, headers dropped or     *)
(* added by intermediaries, the whole frame read from a bytes.Buffer.      *)
EXTENDS Naturals, Sequences

CONSTANTS
    g,  \* model value for Garbage
    TraceIds, SpanIds, BagWords, BagCases, BagValues,
    MaxBaggage, Garbage

VARIABLES
    format,
    carrier, textSent, phase, visited, acc, textOutcome,
    hCarrier, hSent, hPhase, hVisited, hAcc, hOutcome,
    binSent, stream, reader, binOutcome

textVars == <<carrier, textSent, phase, visited, acc, textOutcome>>
headerVars == <<hCarrier, hSent, hPhase, hVisited, hAcc, hOutcome>>
binVars == <<binSent, stream, reader, binOutcome>>
vars == <<format, textVars, headerVars, binVars>>

\* An unrelated header, and a baggage item set by another library; an
\* http.Header canonicalises their keys as well (canonical = TRUE).
BenignForeign(canonical) ==
    { <<[name |-> "other", word |-> "-", upper |-> canonical], "v1">>,
      <<[name |-> "ot-baggage-", word |-> "w1", upper |-> canonical], "v2">> }

\* The text propagator on a TextMapCarrier (format "text") and on an
\* HTTPHeadersCarrier, whose Set canonicalises every key (format "headers").
T == INSTANCE TextPropagation
        WITH sent <- textSent, outcome <- textOutcome,
             ForeignEntries <- BenignForeign(FALSE), CanonicalHeaders <- FALSE
H == INSTANCE TextPropagation
        WITH carrier <- hCarrier, sent <- hSent, phase <- hPhase, visited <- hVisited,
             acc <- hAcc, outcome <- hOutcome,
             ForeignEntries <- BenignForeign(TRUE), CanonicalHeaders <- TRUE

\* Fixed64 values: zero (left out by proto3) and one with a zero byte; an
\* empty baggage value and one of two bytes.
B == INSTANCE BinaryPropagation
        WITH sent <- binSent, outcome <- binOutcome, Readers <- {"buffer"},
             W <- 2, Ids <- {<<0, 0>>, <<3, 0>>}, Keys <- {<<7>>},
             Values <- {<<>>, <<5, 6>>}, Chunk <- 4

Init ==
    /\ format \in {"text", "headers", "binary"}
    /\ T!Init
    /\ H!Init
    /\ B!Init

Next ==
    \/ format = "text" /\ T!Next /\ UNCHANGED <<format, headerVars, binVars>>
    \/ format = "headers" /\ H!Next /\ UNCHANGED <<format, textVars, binVars>>
    \/ format = "binary" /\ B!Next /\ UNCHANGED <<format, textVars, headerVars>>

Spec == Init /\ [][Next]_vars

\* The text propagator's variables keep their types.
TextTypeOK == T!TypeOK /\ H!TypeOK

\* Extract of a text carrier returns what spec.md 4.3 says of that carrier.
TextExtractFollowsSpec == T!ExtractFollowsSpec /\ H!ExtractFollowsSpec

\* Text: Extract(Inject(ctx)) recovers ctx, through dropped and added headers.
TextRoundTrip == T!RoundTrip /\ H!RoundTrip

\* Binary: Extract(Inject(ctx)) recovers ids, sampled flag and baggage
\* exactly, zero fields that proto3 leaves out included.
BinaryRoundTrip == B!RoundTrip

=============================================================================
