SPECIFICATION CliFairSpec
CONSTANTS
    Procs = {p1}
    PolicyLists <- UpToTwo
    PolicyRank <- TwoRanks
    Times = {1}
    Username = "alice"
    Target = "target-001"
    VaultKey = "key"
    InitialStore <- LabStore
    Contents <- SomeContents
    MaxEdits = 2
CHECK_DEADLOCK FALSE
INVARIANTS
    GrantIsJustified
    StandingDenialHolds
    VerificationIsUniform
    ExitCodeIsHonest
    TerminalIsRestored
PROPERTIES
    CommandTerminates
