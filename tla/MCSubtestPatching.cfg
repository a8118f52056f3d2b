\* Sequential top-level tests, failures and skips at every depth,
\* parallel sub tests at the leaves.
CONSTANTS
    t1 = t1
    t2 = t2
    Tests <- MCTests
    Parallel = FALSE
    SubRuns = 2
    MaxDepth = 3
    MaxLayers = 2
    ParallelAt <- LeafParallelAt
    FailAt <- SeqFailAt
    SkipAt <- SeqSkipAt
SPECIFICATION Spec
INVARIANT TypeOK
INVARIANT OneSpanPerTest
INVARIANT StatusMatchesVerdict
PROPERTY TestsEnd
