------------------------- MODULE MCTextPropagation -------------------------
(* Instantiates TextPropagation for TLC.  Benign: the carrier only sees    *)
(* Inject, intermediaries dropping headers, and unrelated headers.  The    *)
(* hostile sets add what other producers of headers write.                 *)
EXTENDS TextPropagation

CONSTANTS g   \* model value for Garbage

Key(name, word, upper) == [name |-> name, word |-> word, upper |-> upper]

\* An unrelated header, and a baggage item set by another library.
BenignForeign ==
    { <<Key(OtherName, NoWord, FALSE), "v1">>,
      <<Key(BaggagePrefix, "w1", FALSE), "v2">> }

\* A traceparent from a tracer speaking another version of the format, or
\* with a trace id that is not hex.
MalformedTraceParent ==
    { <<Key(TraceParent, NoWord, FALSE),
        [version |-> "ff", trace |-> 1, span |-> 1, flags |-> "01"]>>,
      <<Key(TraceParent, NoWord, FALSE),
        [version |-> "00", trace |-> g, span |-> 1, flags |-> "01"]>> }

=============================================================================
