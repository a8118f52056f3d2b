CONSTANTS
    r1 = r1
    r2 = r2
    Requests <- MCRequests
    Parented <- OneParented
    UserTraced <- Unparented
    NoClientTrace <- Unparented
    ViaDefaultClient <- DefaultClientRequests
    Methods = {"GET", "HEAD"}
    MaxCloses = 2
    LateHooks <- TransportLateHooks
SPECIFICATION Spec
INVARIANT TypeOK
PROPERTY SpanFinishes
