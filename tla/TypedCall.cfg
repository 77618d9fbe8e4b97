SPECIFICATION Spec
CONSTANTS
    U8 = 256
    NdrDefault = "Ndr32"
    Proposals <- Ndr64ThenNdr32
INVARIANT
    StubsInAcceptedSyntax
CHECK_DEADLOCK FALSE
