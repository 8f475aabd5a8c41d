CONSTANTS
    PIPELIMIT = 4
    MaxWindow = 3
    NSeg = 5
    Kinds <- MCBadKinds
    Samples <- MCSamples
    RttCeiling = 30000000
    RttFloor = 127
    BackoffBase = 400
    MaxTimeouts = 2
    WriteMayFail = FALSE
SPECIFICATION FairSpec
PROPERTY Completion
