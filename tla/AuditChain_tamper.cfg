SPECIFICATION TamperSpec
CONSTANTS
    Writers = {w1}
    Verifiers = {v1}
    EventIds = {i1, i2, i3}
    Bodies = {b1}
    NoEvent = NoEvent
    MaxCalls = 3
    MaxTampers = 1
SYMMETRY ChainSymmetry
CHECK_DEADLOCK FALSE
INVARIANTS
    AcceptedIsGenuine
    AcceptedIsTable
