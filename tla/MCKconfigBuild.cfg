SPECIFICATION Spec
CONSTANTS
    Bools = {"B", "R"}
    Strings = {"S"}
    Configs <- MCConfigs
    MaxBuilds = 3
    MaxCrashes = 2
INVARIANTS
    ObjectsUpToDate
    FilesSound
PROPERTIES
    TouchedForAChange
CHECK_DEADLOCK FALSE
