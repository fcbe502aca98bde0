SPECIFICATION Spec
CONSTANTS
    Runs = {r1}
    Ids = {"default", "other"}
    Configs <- SomeConfigs
CHECK_DEADLOCK FALSE
INVARIANTS
    ExistingArtifactAborts
