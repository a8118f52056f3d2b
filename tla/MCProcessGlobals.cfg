\* The id generator (3 goroutines, one randomID or randomID2 call each) and
\* the source cache (3 goroutines, 2 calls each).
CONSTANTS
    g1 = g1
    g2 = g2
    g3 = g3
    f1 = f1
    NoOne = NoOne
    Nil = Nil
    MaxCalls = 2
SPECIFICATION Spec
INVARIANT TypeOK
PROPERTY IdsAtomic
PROPERTY IdCallsReturn
PROPERTY CacheCallsReturn
