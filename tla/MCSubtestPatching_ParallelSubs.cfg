\* Sequential top-level tests whose sub tests call t.Parallel; one fails.
CONSTANTS
    t1 = t1
    t2 = t2
    Tests <- MCTests
    Parallel = FALSE
    SubRuns = 2
    MaxDepth = 2
    MaxLayers = 2
    ParallelAt <- SubParallelAt
    FailAt <- SubFailAt
    SkipAt <- NoTests
SPECIFICATION Spec
INVARIANT StatusMatchesVerdict
