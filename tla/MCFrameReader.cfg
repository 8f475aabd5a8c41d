CONSTANTS
    Streams <- MCStreams
    SendMayFail = TRUE
SPECIFICATION FairSpec
CHECK_DEADLOCK FALSE
INVARIANT TypeOK
INVARIANT HandledAreFrames
PROPERTY AllFramesHandled
