CONSTANTS
    QueueMax = 1
    Packets = 2
    Starts = 1
SPECIFICATION FairSpec
INVARIANTS
    InOrder
    StoppedIsQuiet
PROPERTIES
    ErrorHandled
    StopReturns
CHECK_DEADLOCK FALSE
