CONSTANTS
    QSize = 2
    TopoMsgs <- MCTopoMsgs
    NodeIds <- MCNodeIds
    MapIds <- MCMapIds
    Readings <- MCReadings
    Interests <- MCOneInterest
    MaxFrames = 3
    MaxAsks = 2
    MaxTicks = 1
    EarlyPeer = FALSE
SPECIFICATION Spec
CHECK_DEADLOCK FALSE
INVARIANT NoTornReading
