SPECIFICATION WireSpec
CONSTANTS
    U8 = 3
    Lists <- SmallLists
    PeerCounts = {0, 1, 2}
    PeerLens = {3, 4, 5, 27, 28, 29, 48, 51, 52, 67, 68, 69, 92}
    BodyLens <- Lens
    AddrLens = {0, 1, 2, 3, 4, 5, 6, 65535}
    Counts = {0, 1, 2, 3, 255}
    Codes = {"Acceptance", "UserRejection", "unknown"}
INVARIANTS
    ContextsInside
    AllOrNothing
    ResultsInside
    DecodesExactly
CHECK_DEADLOCK FALSE
