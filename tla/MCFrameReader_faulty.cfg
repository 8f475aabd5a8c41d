CONSTANTS
    Streams <- MCStreamsFaulty
    SendMayFail = FALSE
SPECIFICATION Spec
CHECK_DEADLOCK FALSE
INVARIANT HandledAreFrames
