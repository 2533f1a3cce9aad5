CONSTANTS
    Parts = {"logins", "requests"}
    Reserved = 1
    MaxId = 3
    MaxList = 2
    Unread = 2
    NoCall = NoCall
    Keys <- MCKeys
    e1 = e1
    e2 = e2
    Endpoints <- MCEndpoints
    SessionIds = {x81}
    Keyed = {}
    v1 = v1
    v2 = v2
    Attempts = 2
    MaxLogins = 3
    Versions <- MCVersions
    Version = v1
    InFlight = 1
    Outages = 1
    Drained = TRUE
SPECIFICATION BothSpec
SYMMETRY MCSymmetry
INVARIANTS
    RegistersSound
    LoginTrue
    WalkStands
    TrueIsAccepted
