SPECIFICATION Spec
CONSTANTS
    r0 = r0
    bad = bad
    Images <- MCImages
    Good <- MCGood
    Factory = r0
    Torn = Torn
    Empty = Empty
    HasSpl = TRUE
    Tries = 3
    Corrupt = Corrupt
    NoEnv = NoEnv
    MaxLosses = 1
INVARIANTS
    TypeOK
    BootOrderWhole
    RunningSlotInOrder
    FirstBootOnce
    BootPartitionKept
    BoundedRetries
PROPERTIES
    ImplementsABUpdate
    KeepsComingUp
