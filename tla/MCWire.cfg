SPECIFICATION BothSpec
CONSTANTS
    Parts = {"wire", "values"}
    SessionIds = {1, 129}
    Key <- KeyOctets
    Capacity = 64
    Mtu = 128
    Texts <- FourTexts
    Modes = {6}
    Bodies <- FourBodies
    Addresses <- AddressLists
    Requests <- RequestNames
    MaxRequests = 3
INVARIANTS
    Understood
    LengthsTrue
    SidesAgree
    SizesTrue
CHECK_DEADLOCK FALSE
