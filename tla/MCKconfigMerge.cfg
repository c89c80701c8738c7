SPECIFICATION Spec
CONSTANTS
    Kconfigs <- MCKconfigs
    Files <- MCFiles
    Inputs <- MCInputs
    AsgRead <- MCAsgRead
    MaxChanges = 3
INVARIANT LoadsAfterUnset
CHECK_DEADLOCK FALSE
