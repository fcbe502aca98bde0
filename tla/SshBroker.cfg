SPECIFICATION Spec
CONSTANTS
    Keys = {k1, k2}
    PinnedKey = k1
    NoKey = NoKey
    MaxCalls = 4
CHECK_DEADLOCK FALSE
INVARIANTS
    TypeOK
    PasswordOnlyToPinnedHost

    
