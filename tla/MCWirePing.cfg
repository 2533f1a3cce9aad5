SPECIFICATION BothSpec
CONSTANTS
    Parts = {"wire"}
    SessionIds = {1, 129}
    Key <- KeyOctets
    Capacity = 64
    Mtu = 128
    Texts <- FourTexts
    Modes = {6}
    Bodies <- FourBodies
    Addresses <- AddressLists
    Requests <- OnePing
    MaxRequests = 1
INVARIANTS
    PongUnderstood
CHECK_DEADLOCK FALSE
