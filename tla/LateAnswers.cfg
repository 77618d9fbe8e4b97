SPECIFICATION Spec
CONSTANTS
    U8 = 2
    U32 = 5
    MaxCalls = 3
    MaxPdus = 2
    MaxQueue = 3
    StubLens = {0}
    XmitFrags = {}
    ContextIds = {7}
    Proposals <- NoLists
    AckResults <- NoLists
    Levels = {}
    TokenLens = {}
    Faults = {"send", "recv", "server"}
INVARIANTS
    OkIsWholeAnswer
    StaleCallFails
    FaultIsOurs
PROPERTY
    ImplementsRpcService
CHECK_DEADLOCK FALSE
