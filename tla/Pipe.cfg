SPECIFICATION FairSpec
CONSTANTS
    HeaderLen = 2
    PduLens = {2, 3, 5}
    FragLengths = {1, 4}
    MaxPdus = 2
    MaxRecvs = 3
    Faults = {"io", "close", "header"}
INVARIANTS
    FramingInvariant
    ReceivesThePdus
    LengthMatchesHeader
PROPERTIES
    ImplementsPduChannel
    AllReceived
CHECK_DEADLOCK FALSE
