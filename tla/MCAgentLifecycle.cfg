CONSTANTS
    t1 = t1
    t2 = t2
    t3 = t3
    t4 = t4
    Loop = Loop
    Tests <- FourTests
    Spans <- FourTests
    Flushers <- FourTests
    Panics <- TwoPanics
    MaxBuffer = 2
    MaxFailures = 2
SPECIFICATION Spec
INVARIANT TypeOK
INVARIANT StopDeliversAll
PROPERTY DeliveryRefined
PROPERTY Terminates
