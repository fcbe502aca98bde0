SPECIFICATION Spec
CONSTANTS
    Procs = {p1}
    PolicyLists <- AllPolicyLists
    MaxPolicies = 1
    Times = {1}
CHECK_DEADLOCK FALSE
INVARIANTS
    PolicyFailureDenies
