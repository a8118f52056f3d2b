\* Hostile carriers: MalformedTraceParent written by another producer of headers.
CONSTANTS
    TraceIds = {1, 2}
    SpanIds = {1, 2}
    BagWords = {"w1"}
    BagCases = {FALSE}
    BagValues = {"v1"}
    CanonicalHeaders = FALSE
    MaxBaggage = 0
    Garbage = g
    g = g
    ForeignEntries <- MalformedTraceParent
SPECIFICATION Spec
INVARIANT ExtractFollowsSpec
