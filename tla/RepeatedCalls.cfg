SPECIFICATION Spec
CONSTANTS
    U8 = 2
    U32 = 3
    MaxCalls = 4
    MaxPdus = 1
    MaxQueue = 2
    StubLens = {0, 1, 5}
    XmitFrags = {0, 24, 25, 26, 65535}
    ContextIds = {7}
    Proposals <- NoLists
    AckResults <- NoLists
    Levels = {"Connect", "PacketPrivacy"}
    TokenLens = {}
    Faults = {"send", "recv", "ndr"}
INVARIANTS
    RequestTiles
    FragmentsFit
    UnsupportedNeverSends
    TypeInvariant
    IdInvariant
    CallIdSeparation
CHECK_DEADLOCK FALSE
