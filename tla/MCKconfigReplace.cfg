SPECIFICATION Spec
CONSTANTS
    Kconfigs <- MCKconfigs
    Files <- MCFiles
    Inputs <- MCInputs
    AsgRead <- MCAsgRead
    MaxChanges = 3
INVARIANT ReplaceClears
CHECK_DEADLOCK FALSE
