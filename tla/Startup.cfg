SPECIFICATION Spec
CONSTANTS
    Procs = {p1, p2}
    Files <- FileNames
    NoProc = NoProc
    Disks <- SomeDisks
    Settings <- SomeSettings
CHECK_DEADLOCK FALSE
INVARIANTS
    OwnDatabaseIsAccepted
    ReadyIsUsable
PROPERTIES
    ForeignIsUntouched
