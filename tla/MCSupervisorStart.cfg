SPECIFICATION Spec
CONSTANTS
    v1 = v1
    v2 = v2
    Versions <- MCVersions
    None = None
    Burst = 3
    MaxDamage = 2
INVARIANTS
    TypeOK
PROPERTIES
    StartsCurrentContainer
    HealsItself
