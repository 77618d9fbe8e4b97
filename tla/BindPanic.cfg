SPECIFICATION Spec
CONSTANTS
    U8 = 256
    U32 = 5
    MaxCalls = 0
    MaxPdus = 1
    MaxQueue = 1
    StubLens = {0}
    XmitFrags = {4280}
    ContextIds = {}
    Proposals <- TooManySyntaxes
    AckResults <- SomeResults
    Levels = {}
    TokenLens = {0}
    Faults = {}
INVARIANTS
    NoPanic
CHECK_DEADLOCK FALSE
