SPECIFICATION Spec
CONSTANTS
    U8 = 2
    U32 = 5
    MaxCalls = 1
    MaxPdus = 2
    MaxQueue = 2
    StubLens = {0}
    XmitFrags = {4280}
    ContextIds = {}
    Proposals <- SomeProposals
    AckResults <- SomeResults
    Levels = {"Connect", "PacketIntegrity"}
    TokenLens = {0, 40, 65536}
    Faults = {"send", "recv", "server", "provider"}
INVARIANTS
    RequestsUseAcceptedContext
    HandshakeComplete
CHECK_DEADLOCK FALSE
