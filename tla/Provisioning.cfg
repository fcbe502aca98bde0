SPECIFICATION Spec
CONSTANTS
    Runs = {r1, r2}
    Ids = {"default", "other"}
    Configs <- SomeConfigs
SYMMETRY RunSymmetry
CHECK_DEADLOCK FALSE
INVARIANTS
    TypeOK
    CredentialComesLast
    CredentialIsReadable
    CompleteIsUsable
PROPERTIES
    NothingIsOverwritten
