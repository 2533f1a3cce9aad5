CONSTANTS
    Parts = {"up", "best-effort up", "best-effort down", "line"}
    Half = 4
    Depth = 3
    MaxPushes = 9
    InFlight = 3
    Drained = TRUE
    t1 = t1
    t2 = t2
    t3 = t3
    r1 = r1
    s1 = s1
    s2 = s2
    Writers <- MCWriters
    StreamDepth = 2
    StreamInFlight = 2
    MaxFragments = 2
    History = 2
    BitmapSize = 2
    Submessages <- MCSubmessages
    NoRequest = NoRequest
    Empty = Empty
    Capacity = 3
    Sizes <- MCSizes
    Careful = TRUE
    Reorders = FALSE
    Garbage = Garbage
    Frames <- MCFrames
    LocalAddr = 1
    SenderAddr = 2
    WriteBuffer = 9
    ReadBuffer = 5
    BufferLength = 2
    Octets = {2, 125, 126}
    MaxLine = 0
    MaxFaults = 1
    BestUpHalf = 3
    BestUpOffset = 1
    BestUpSize = 3
    BestUpDepth = 1
    BestUpWrites = 9
SPECIFICATION LinksSpec
SYMMETRY MCSymmetry
VIEW View
INVARIANTS
    FilterIsRight
    UpWindowsSound
    UpNothingLost
    ConfirmedIsHandled
    RingIsQueue
    OnlyWritten
    IntactReturned
PROPERTIES
    ImplementsChannel
    UpImplementsChannel
    UpNothingForgotten
    BestUpImplementsChannel
