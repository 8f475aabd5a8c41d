CONSTANTS
    PIPELIMIT = 4
    MaxWindow = 3
    NSeg = 5
    Kinds <- MCKinds
    Samples <- MCSamples
    RttCeiling = 30000000
    RttFloor = 127
    BackoffBase = 400
    MaxTimeouts = 2
    WriteMayFail = TRUE
SPECIFICATION FairSpec
INVARIANT TypeOK
INVARIANT NoAbort
INVARIANT NoOrphanedSegment
INVARIANT RtteStaysBounded
INVARIANT ProbeNotStranded
INVARIANT ClosureBoundToPendingName
PROPERTY ImplementsDelivery
PROPERTY Completion
