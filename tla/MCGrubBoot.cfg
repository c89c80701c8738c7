SPECIFICATION Spec
CONSTANTS
    r0 = r0
    bad = bad
    Images <- MCImages
    Good <- MCGood
    Factory = r0
    Torn = Torn
    Empty = Empty
    HasSpl = FALSE
    Tries = 3
    Corrupt = Corrupt
    NoEnv = NoEnv
    MaxLosses = 2
INVARIANTS
    BootStateSound
    OkSlotWhole
PROPERTIES
    ImplementsABUpdate
    FallsBack
