CONSTANTS
    Half = 3
    Depth = 1
    MaxFragments = 2
    CountModulus = 3
    NoRequest = NoRequest
    NoThread = NoThread
    Processing = Processing
    Unlimited = Unlimited
    Builtin = s1
    Readers = {r1, r2}
    Writers = {r1, r2, Processing}
    Submessages = {r1, r2, Processing}
    Streams = {s1, s2}
    Limits = {1}
SPECIFICATION FairSpec
INVARIANTS
    WindowSound
    FragmentsAdjacent
    OneChangesStreams
    NothingLeftUnsent
    AtMostAsked
PROPERTIES
    StopReturns
