\* Both propagators on benign carriers: text maps, http.Header carriers and
\* byte streams; contexts with up to two baggage items.
CONSTANTS
    g = g
    Garbage = g
    TraceIds = {1, 2}
    SpanIds = {1}
    BagWords = {"w1", "w2"}
    BagCases = {FALSE}
    BagValues = {"v1", "v2"}
    MaxBaggage = 2
SPECIFICATION Spec
INVARIANT TextTypeOK
INVARIANT TextExtractFollowsSpec
INVARIANT TextRoundTrip
INVARIANT BinaryRoundTrip
