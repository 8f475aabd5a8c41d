CONSTANTS
    QSize = 2
    TopoMsgs <- MCTopoMsgs
    NodeIds <- MCNodeIds
    MapIds <- MCMapIds
    Readings <- MCOneReading
    Interests <- MCOneInterest
    MaxFrames = 3
    MaxAsks = 2
    MaxTicks = 1
    EarlyPeer = TRUE
SPECIFICATION Spec
CHECK_DEADLOCK FALSE
INVARIANT TopoQueueFifo
