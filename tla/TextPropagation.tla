-------------------------- MODULE TextPropagation --------------------------
(***************************************************************************)
(* The text-map propagator of tracer/propagation_ot.go: Inject writes a    *)
(* span context into a string->string carrier, Extract reads it back.      *)
(*                                                                         *)
(* The carrier is a function from wire keys to values.  A wire key is a    *)
(* record [name, word, upper]: `name` is its lower-cased spelling (a       *)
(* baggage key keeps its word apart), `upper` says whether the spelling    *)
(* carries upper-case letters (http.Header canonicalises every key it      *)
(* Sets, a text map keeps the spelling it is given).  Values are kept      *)
(* abstract: an id stands for its hex spelling, Garbage for a spelling the *)
(* parser rejects.                                                         *)
(*                                                                         *)
(* carrier.ForeachKey visits the entries of a Go map in an unspecified     *)
(* order and stops at the first error its callback returns; Extract is     *)
(* therefore modelled one callback at a time (Pass1Key, Pass2Key) over a   *)
(* key chosen among those not yet visited.  Writers of the carrier other   *)
(* than Inject (proxies dropping headers, other libraries adding some) are *)
(* the environment actions Strip and ForeignSet.                           *)
(***************************************************************************)
EXTENDS Integers, FiniteSets, TLC

CONSTANTS
    TraceIds,          \* trace ids a context may carry (positive integers)
    SpanIds,           \* span ids a context may carry (positive integers)
    BagWords,          \* words of baggage keys
    BagCases,          \* whether in-process baggage keys have upper-case letters
    BagValues,         \* values of baggage items and of foreign headers
    CanonicalHeaders,  \* TRUE: the carrier is an http.Header (Set canonicalises)
    ForeignEntries,    \* <<key, value>> pairs other writers may Set
    MaxBaggage,        \* largest baggage a context carries
    Garbage            \* a value spelling no parser accepts

ASSUME TraceIds \subseteq Nat \ {0} /\ SpanIds \subseteq Nat \ {0}

NilId == 0   \* uuid.Nil / the zero uint64 a failed parse leaves behind

\* Field names, lines 23-33.
FieldTraceID  == "ot-tracer-traceid"
FieldSpanID   == "ot-tracer-spanid"
FieldSampled  == "ot-tracer-sampled"
TraceParent   == "traceparent"
BaggagePrefix == "ot-baggage-"
OtherName     == "other"      \* any header the propagator does not know
NoWord        == "-"
DiscreteNames == {FieldTraceID, FieldSpanID, FieldSampled}

WireKeys ==
    [name : DiscreteNames \cup {TraceParent, OtherName}, word : {NoWord},
     upper : BOOLEAN]
    \cup [name : {BaggagePrefix}, word : BagWords, upper : BOOLEAN]

\* strings.ToLower(k): `name` is already the lower-cased spelling.
LowerName(k) == k.name

\* In-process baggage keys keep their case.
BagKeys == [word : BagWords, upper : BagCases]
BaggageMaps ==
    UNION {[D -> BagValues] : D \in {D \in SUBSET BagKeys : Cardinality(D) <= MaxBaggage}}

SpanContexts ==
    [traceID : TraceIds, spanID : SpanIds, sampled : BOOLEAN, baggage : BaggageMaps]

TraceParentValues ==
    [version : {"00", "ff"}, trace : TraceIds \cup {Garbage},
     span : SpanIds \cup {Garbage}, flags : {"00", "01"}]

NilCtx == [traceID |-> NilId, spanID |-> NilId, sampled |-> FALSE, baggage |-> <<>>]
NoOutcome == [kind |-> "none", ctx |-> NilCtx]
Failure(kind) == [kind |-> kind, ctx |-> NilCtx]

VARIABLES
    carrier,   \* the text map in transit
    sent,      \* the context last injected, or NilCtx
    phase,     \* "idle", "pass1", "pass2": where Extract is
    visited,   \* keys the current ForeachKey has handed to its callback
    acc,       \* Extract's locals: requiredFieldCount, traceID, spanID, sampled, decodedBaggage
    outcome    \* what the last Extract returned

vars == <<carrier, sent, phase, visited, acc, outcome>>

-----------------------------------------------------------------------------
(* Inject, lines 35-71.                                                    *)

WireKey(name, word) == [name |-> name, word |-> word, upper |-> CanonicalHeaders]

\* Mutant: the span id field is Set from the trace id (copy-paste slip).
DiscreteEntries_SpanIsTrace(sc) ==
    (WireKey(FieldTraceID, NoWord) :> sc.traceID)
    @@ (WireKey(FieldSpanID, NoWord) :> sc.traceID)
    @@ (WireKey(FieldSampled, NoWord) :> sc.sampled)

\* Lines 48-52: the three discrete fields.
DiscreteEntries(sc) ==
    (WireKey(FieldTraceID, NoWord) :> sc.traceID)
    @@ (WireKey(FieldSpanID, NoWord) :> sc.spanID)
    @@ (WireKey(FieldSampled, NoWord) :> sc.sampled)

\* Lines 54-64: the traceparent composite "00-<trace>-<span>-<flags>".
CompositeEntry(sc) ==
    WireKey(TraceParent, NoWord) :>
        [version |-> "00", trace |-> sc.traceID, span |-> sc.spanID,
         flags |-> IF sc.sampled THEN "01" ELSE "00"]

\* Lines 66-68: one entry per baggage item under the baggage prefix, the
\* key keeping the item's case (nothing lower-cases it on encode).
BaggageEntries(sc) ==
    LET wire(b) == [name |-> BaggagePrefix, word |-> b.word,
                    upper |-> b.upper \/ CanonicalHeaders]
    IN [k \in {wire(b) : b \in DOMAIN sc.baggage}
        |-> sc.baggage[CHOOSE b \in DOMAIN sc.baggage : wire(b) = k]]

InjectEntries(sc) == DiscreteEntries(sc) @@ CompositeEntry(sc) @@ BaggageEntries(sc)

\* carrier.Set replaces the value of a key already present.
Inject(sc) ==
    /\ phase = "idle"
    /\ carrier' = InjectEntries(sc) @@ carrier
    /\ sent' = sc
    /\ outcome' = NoOutcome
    /\ UNCHANGED <<phase, visited, acc>>

\* An intermediary drops a header, or another writer sets one.
Strip(k) ==
    /\ phase = "idle"
    /\ k \in DOMAIN carrier
    /\ carrier' = [x \in DOMAIN carrier \ {k} |-> carrier[x]]
    /\ outcome' = NoOutcome
    /\ UNCHANGED <<sent, phase, visited, acc>>

ForeignSet(e) ==
    /\ phase = "idle"
    /\ carrier' = (e[1] :> e[2]) @@ carrier
    /\ outcome' = NoOutcome
    /\ UNCHANGED <<sent, phase, visited, acc>>

-----------------------------------------------------------------------------
(* Extract, lines 73-162.                                                  *)

InitialLocals ==
    [count |-> 0, traceID |-> NilId, spanID |-> NilId, sampled |-> FALSE,
     baggage |-> <<>>]

BeginExtract ==
    /\ phase = "idle"
    /\ phase' = "pass1"
    /\ visited' = {}
    /\ acc' = InitialLocals
    /\ outcome' = NoOutcome
    /\ UNCHANGED <<carrier, sent>>

\* The first ForeachKey ends: it ran out of keys or its callback failed.
\* Its error is assigned to err and overwritten by the second pass.
EndPass1 ==
    /\ phase' = "pass2"
    /\ visited' = {}

\* The callback returned nil for k: ForeachKey goes on with the next key.
Visited(k, endOfPass) ==
    IF visited \cup {k} = DOMAIN carrier
    THEN endOfPass
    ELSE visited' = visited \cup {k} /\ UNCHANGED phase

\* First callback (lines 87-116) for key k: only traceparent counts; a
\* valid one adds 3 + 1, any other key adds -1 + 1.  A failed check ends
\* the pass, leaving behind what the failed parse assigned.
Pass1Key(k) ==
    /\ phase = "pass1"
    /\ k \in DOMAIN carrier \ visited
    /\ LET v == carrier[k] IN
       CASE LowerName(k) # TraceParent ->
              Visited(k, EndPass1) /\ UNCHANGED acc
         [] v.version # "00" ->
              EndPass1 /\ UNCHANGED acc
         [] v.trace = Garbage ->                  \* uuid.Parse leaves uuid.Nil
              EndPass1 /\ acc' = [acc EXCEPT !.traceID = NilId]
         [] v.span = Garbage ->                   \* ParseUint leaves 0
              EndPass1 /\ acc' = [acc EXCEPT !.traceID = v.trace, !.spanID = NilId]
         [] OTHER ->
              /\ acc' = [acc EXCEPT !.traceID = v.trace, !.spanID = v.span,
                                    !.sampled = IF v.flags = "01" THEN TRUE ELSE @,
                                    !.count = @ + 3 + 1]
              /\ Visited(k, EndPass1)
    /\ UNCHANGED <<carrier, sent, outcome>>

\* Extract returns; its locals go out of scope.
Return(result) ==
    /\ phase' = "idle"
    /\ outcome' = result
    /\ visited' = {}
    /\ acc' = InitialLocals

\* Lines 145-161: the second callback failed, or the counter decides.
Decide(a) ==
    IF a.count < 3
    THEN Failure(IF a.count = 0 THEN "notfound" ELSE "corrupted")
    ELSE [kind |-> "ok",
          ctx |-> [traceID |-> a.traceID, spanID |-> a.spanID,
                   sampled |-> a.sampled, baggage |-> a.baggage]]

\* Whether the second callback's parse of k's value succeeds.
Pass2Parses(k) ==
    LET v == carrier[k] IN
    CASE LowerName(k) = FieldTraceID -> v \in TraceIds
      [] LowerName(k) = FieldSpanID  -> v \in SpanIds
      [] LowerName(k) = FieldSampled -> v \in BOOLEAN
      [] OTHER                 -> TRUE

\* Mutant: the baggage branch decrements once more (spec.md 9's warning).
Pass2Locals_DoubleDecrement(k) ==
    LET v == carrier[k] IN
    CASE LowerName(k) = FieldTraceID  -> [acc EXCEPT !.traceID = v, !.count = @ + 1]
      [] LowerName(k) = FieldSpanID   -> [acc EXCEPT !.spanID = v, !.count = @ + 1]
      [] LowerName(k) = FieldSampled  -> [acc EXCEPT !.sampled = v, !.count = @ + 1]
      [] LowerName(k) = BaggagePrefix ->
           [acc EXCEPT !.baggage = ([word |-> k.word, upper |-> FALSE] :> v) @@ @,
                       !.count = @ - 1]
      [] OTHER -> acc

\* Mutant: the balancing decrement is missing, every other key counts.
Pass2Locals_NoBalance(k) ==
    LET v == carrier[k] IN
    CASE LowerName(k) = FieldTraceID  -> [acc EXCEPT !.traceID = v, !.count = @ + 1]
      [] LowerName(k) = FieldSpanID   -> [acc EXCEPT !.spanID = v, !.count = @ + 1]
      [] LowerName(k) = FieldSampled  -> [acc EXCEPT !.sampled = v, !.count = @ + 1]
      [] LowerName(k) = BaggagePrefix ->
           [acc EXCEPT !.baggage = ([word |-> k.word, upper |-> FALSE] :> v) @@ @,
                       !.count = @ + 1]
      [] OTHER -> [acc EXCEPT !.count = @ + 1]

\* The locals after the second callback handled k (lines 118-142): each
\* discrete field adds 1, a baggage key is stored lower-cased with its
\* prefix trimmed, any other key adds -1 + 1.
Pass2Locals(k) ==
    LET v == carrier[k] IN
    CASE LowerName(k) = FieldTraceID  -> [acc EXCEPT !.traceID = v, !.count = @ + 1]
      [] LowerName(k) = FieldSpanID   -> [acc EXCEPT !.spanID = v, !.count = @ + 1]
      [] LowerName(k) = FieldSampled  -> [acc EXCEPT !.sampled = v, !.count = @ + 1]
      [] LowerName(k) = BaggagePrefix ->
           [acc EXCEPT !.baggage = ([word |-> k.word, upper |-> FALSE] :> v) @@ @]
      [] OTHER -> acc

\* Second callback (lines 117-144) for key k.  A failed parse makes
\* ForeachKey return it and Extract return corrupted (145-147).
Pass2Key(k) ==
    /\ phase = "pass2"
    /\ k \in DOMAIN carrier \ visited
    /\ CASE ~Pass2Parses(k) ->
              Return(Failure("corrupted"))
         [] visited \cup {k} = DOMAIN carrier ->
              Return(Decide(Pass2Locals(k)))
         [] OTHER ->
              /\ visited' = visited \cup {k}
              /\ acc' = Pass2Locals(k)
              /\ UNCHANGED <<phase, outcome>>
    /\ UNCHANGED <<carrier, sent>>

\* A carrier with no key at all: both passes end at once.
ExtractEmpty ==
    /\ phase = "pass1"
    /\ DOMAIN carrier = {}
    /\ Return(Decide(InitialLocals))
    /\ UNCHANGED <<carrier, sent>>

-----------------------------------------------------------------------------

Init ==
    /\ carrier = <<>>
    /\ sent = NilCtx
    /\ phase = "idle"
    /\ visited = {}
    /\ acc = InitialLocals
    /\ outcome = NoOutcome

Next ==
    \/ \E sc \in SpanContexts : Inject(sc)
    \/ \E k \in DOMAIN carrier : Strip(k)
    \/ \E e \in ForeignEntries : ForeignSet(e)
    \/ BeginExtract
    \/ \E k \in DOMAIN carrier : Pass1Key(k) \/ Pass2Key(k)
    \/ ExtractEmpty

Spec == Init /\ [][Next]_vars

-----------------------------------------------------------------------------
(* What spec.md 4.3 says Extract returns for a carrier: any malformed      *)
(* required field (bad discrete value, or a traceparent failing its checks) *)
(* is corrupted; otherwise a valid composite counts as the three fields and *)
(* each discrete field present counts once: 3 or more is ok, 0 is not      *)
(* found, anything between is corrupted.  Discrete fields override the     *)
(* composite; baggage keys are lower-cased.                                *)

SpecExtract(c) ==
    LET named(n) == {k \in DOMAIN c : k.name = n}
        value(n) == c[CHOOSE k \in named(n) : TRUE]
        badField == \E k \in DOMAIN c :
                      \/ LowerName(k) = FieldTraceID /\ c[k] \notin TraceIds
                      \/ LowerName(k) = FieldSpanID /\ c[k] \notin SpanIds
                      \/ LowerName(k) = FieldSampled /\ c[k] \notin BOOLEAN
                      \/ k.name = TraceParent /\ c[k] \notin
                             [version : {"00"}, trace : TraceIds, span : SpanIds,
                              flags : {"00", "01"}]
        present == {n \in DiscreteNames : named(n) # {}}
        count == (IF named(TraceParent) # {} THEN 3 ELSE 0) + Cardinality(present)
        field(n, composite) == IF named(n) # {} THEN value(n) ELSE composite
        tp == IF named(TraceParent) # {} THEN value(TraceParent)
              ELSE [trace |-> NilId, span |-> NilId, flags |-> "00"]
        bag == [w \in {[word |-> k.word, upper |-> FALSE] : k \in named(BaggagePrefix)}
                |-> c[CHOOSE k \in named(BaggagePrefix) : k.word = w.word]]
    IN CASE badField   -> Failure("corrupted")
         [] count >= 3 -> [kind |-> "ok",
                           ctx |-> [traceID |-> field(FieldTraceID, tp.trace),
                                    spanID |-> field(FieldSpanID, tp.span),
                                    sampled |-> field(FieldSampled, tp.flags = "01"),
                                    baggage |-> bag]]
         [] count = 0  -> Failure("notfound")
         [] OTHER      -> Failure("corrupted")

\* The context with its baggage keys lower-cased, as Extract decodes them.
LowerBaggage(sc) ==
    [sc EXCEPT !.baggage =
        [w \in {[word |-> b.word, upper |-> FALSE] : b \in DOMAIN sc.baggage}
         |-> sc.baggage[CHOOSE b \in DOMAIN sc.baggage : b.word = w.word]]]

\* The tracer-state and baggage entries of a carrier (headers named `other`
\* are none of the propagator's business).
TracerEntries(c) == [k \in {k \in DOMAIN c : k.name # OtherName} |-> c[k]]

-----------------------------------------------------------------------------
(* Properties                                                              *)

TypeOK ==
    /\ DOMAIN carrier \subseteq WireKeys
    /\ sent \in SpanContexts \cup {NilCtx}
    /\ phase \in {"idle", "pass1", "pass2"}
    /\ visited \subseteq DOMAIN carrier
    /\ acc.count \in Nat
    /\ outcome.kind \in {"none", "ok", "notfound", "corrupted"}
    /\ phase # "idle" => outcome = NoOutcome

\* Whatever order Go's map iteration hands the keys to the two ForeachKey
\* callbacks, and whatever the lost first-pass error, Extract returns what
\* spec.md 4.3's decision rule says for the carrier it read.
ExtractFollowsSpec ==
    outcome # NoOutcome => outcome = SpecExtract(carrier)

\* Round trip: a carrier whose tracer and baggage entries are exactly those
\* Inject wrote for `sent` (other headers may sit beside them) extracts to
\* `sent`, baggage keys lower-cased, in every iteration order.
RoundTrip ==
    (outcome # NoOutcome /\ TracerEntries(carrier) = InjectEntries(sent))
        => outcome = [kind |-> "ok", ctx |-> LowerBaggage(sent)]

=============================================================================
