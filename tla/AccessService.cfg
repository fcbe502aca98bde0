SPECIFICATION Spec
CONSTANTS
    Procs = {p1, p2}
    PolicyLists <- AllPolicyLists
    MaxPolicies = 1
    Times = {1, 2}
CHECK_DEADLOCK FALSE
SYMMETRY ProcSymmetry
INVARIANTS
    TypeOK
    AuditPrecedesUse
    TrailIsLegal
    ResultIsRecorded
    NoStrandedSession
    CleanupIsHonest
PROPERTIES
    SessionLifeCycle
    UsesBroker
