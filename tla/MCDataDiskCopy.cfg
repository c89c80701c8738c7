SPECIFICATION Spec
CONSTANTS
    Torn = Torn
    Foreign = Foreign
    Fresh = Fresh
    None = None
    MaxWrites = 1
    MaxLosses = 1
INVARIANTS
    FailedCopyNotMounted
