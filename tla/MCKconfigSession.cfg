SPECIFICATION Spec
CONSTANTS
    Kconfigs <- MCKconfigs
    Files <- MCFiles
    Inputs <- MCInputs
    AsgRead <- MCAsgRead
    MaxChanges = 3
INVARIANTS
    CacheCoherent
    AssignableTruthful
    ValuesLegal
    SavedStandsForIt
    LostValuesReported
    ReplaceSetsValues
PROPERTY
    ImplementsCache
CHECK_DEADLOCK FALSE
