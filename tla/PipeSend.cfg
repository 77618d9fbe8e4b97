SPECIFICATION FairSpec
CONSTANTS
    PduLens = {1, 3}
    MaxPdus = 3
INVARIANT
    PeerGetsPdus
PROPERTY
    AnswerComes
CHECK_DEADLOCK FALSE
