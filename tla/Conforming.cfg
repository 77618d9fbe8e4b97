SPECIFICATION FairSpec
CONSTANTS
    U8 = 2
    U32 = 5
    MaxCalls = 2
    MaxPdus = 2
    MaxQueue = 2
    StubLens = {0, 2}
    XmitFrags = {24, 25}
    ContextIds = {7}
    Proposals <- SomeProposals
    AckResults <- SomeResults
    Levels = {"Connect"}
    TokenLens = {0, 40}
    Faults = {}
INVARIANTS
    InStep
PROPERTIES
    ImplementsRpcService
    BindReturns
    CallReturns
CHECK_DEADLOCK FALSE
