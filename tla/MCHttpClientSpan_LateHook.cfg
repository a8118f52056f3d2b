CONSTANTS
    r1 = r1
    r2 = r2
    Requests <- MCRequests
    Parented <- OneParented
    UserTraced <- NoRequests
    NoClientTrace <- NoRequests
    ViaDefaultClient <- DefaultClientRequests
    Methods = {"GET", "HEAD"}
    MaxCloses = 1
    LateHooks <- TransportLateHooks
SPECIFICATION Spec
INVARIANT NoMutationAfterFinish
