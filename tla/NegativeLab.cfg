SPECIFICATION Spec
CONSTANTS
    Preparers = {p1, p2}
    Destinations = {d1, d2}
    Baselines <- SomeBaselines
    NoFile = NoFile
    Torn = Torn
    MaxEvents = 2
    PolicyRank <- Ranks
SYMMETRY LabSymmetry
CHECK_DEADLOCK FALSE
INVARIANTS
    ScenarioBlocks
    CopyIsOwnAndWhole
