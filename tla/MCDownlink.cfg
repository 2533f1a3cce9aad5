CONSTANTS
    Half = 4
    Depth = 2
    MaxFragments = 2
    History = 2
    BitmapSize = 2
    InFlight = 2
    NoRequest = NoRequest
    Empty = Empty
    Writers = {r1}
    Submessages = {s1, s2}
SPECIFICATION Spec
SYMMETRY MCSymmetry
INVARIANTS
    NothingLost
    NothingDeliverable
    WindowsTogether
PROPERTIES
    ImplementsChannel
    NothingForgotten
