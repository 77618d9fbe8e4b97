SPECIFICATION Spec
CONSTANTS
    StubLens = {0, 1, 8, 65503, 65511, 65512, 65528}
    Pads = {0, 3, 255}
    TokenLens = {0, 1, 16, 65536}
    PeerLens = {0, 15, 16, 17, 24, 25, 26, 40, 300, 65535}
INVARIANTS
    TypeOK
    PiecesTileBuffer
    RoundTrip
    RelayFaithful
CHECK_DEADLOCK FALSE
