SPECIFICATION Spec
CONSTANTS
    U8 = 256
    ResultLists <- MCResultLists
    ProposedCounts <- MCProposedCounts
INVARIANTS
    LoopInvariant
    AnswerIsFirstAccepted
CHECK_DEADLOCK FALSE
