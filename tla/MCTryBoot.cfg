SPECIFICATION Spec
CONSTANTS
    r0 = r0
    bad = bad
    Images <- MCImages
    Good <- MCGood
    Factory = r0
    Torn = Torn
    Empty = Empty
    None = None
    MaxLosses = 1
INVARIANTS
    TrialSound
    FallbackStays
    IdKept
PROPERTIES
    ImplementsABUpdate
    FailedTrialReturns
