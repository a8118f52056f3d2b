CONSTANTS
    t1 = t1
    t2 = t2
    Tests <- MCTests
    Parallel = TRUE
    SubRuns = 1
    MaxDepth = 2
    MaxLayers = 2
    ParallelAt <- NoTests
    FailAt <- NoTests
    SkipAt <- NoTests
SPECIFICATION Spec
INVARIANT OneSpanPerTest
