SPECIFICATION CooperativeSpec
CONSTANTS
    MaxDuration = 2
    MaxTime = 3
    MaxChunks = 3
CHECK_DEADLOCK FALSE
INVARIANTS
    OutcomeIsTrue
    LateTrafficIsBounded
    NothingInHandIsLost
PROPERTIES
    RelayEnds
