SPECIFICATION ProviderSpec
CONSTANTS
    MaxInits = 3
INVARIANTS
    ReleasedExactlyOnce
    FailedInitKeepsContext
    EstablishedTrue
    TokensComplete
CHECK_DEADLOCK FALSE
