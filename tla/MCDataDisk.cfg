SPECIFICATION Spec
CONSTANTS
    Torn = Torn
    Foreign = Foreign
    Fresh = Fresh
    None = None
    MaxWrites = 3
    MaxLosses = 2
INVARIANTS
    BootLeavesOrder
    RightDataMounted
    LatestSurvives
PROPERTIES
    DataFound
