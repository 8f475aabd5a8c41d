CONSTANTS
    QSize = 3
    TopoMsgs <- MCTopoMsgs
    NodeIds <- MCNodeIds
    MapIds <- MCMapIds
    Readings <- MCOneReading
    Interests <- MCOneInterest
    MaxFrames = 4
    MaxAsks = 1
    MaxTicks = 1
    EarlyPeer = FALSE
SPECIFICATION FairSpec
CHECK_DEADLOCK FALSE
INVARIANT TypeOK
INVARIANT TopoQueueFifo
INVARIANT LocatedWereMapped
PROPERTY TopoDrained
PROPERTY InterestAnswered
