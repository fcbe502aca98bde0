SPECIFICATION FairSpec
CONSTANTS
    Writers = {w1, w2}
    Verifiers = {v1}
    EventIds = {i1, i2}
    Bodies = {b1}
    NoEvent = NoEvent
    MaxCalls = 2
    MaxTampers = 0
CHECK_DEADLOCK FALSE
INVARIANTS
    TypeOK
    ChainIntact
    NoFalseAlarm
    DuplicateIsTrue
PROPERTIES
    ImplementsAuditLog
    CallsTerminate
