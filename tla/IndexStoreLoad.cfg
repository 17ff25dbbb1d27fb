SPECIFICATION Spec
CONSTANTS
    Fields <- TwoFields
    Keys = {1, 2}
    Locations = {7}
    MaxDamage = 1
    MaxLateFailures = 1
CHECK_DEADLOCK FALSE
INVARIANTS
    TypeOK
    LoadedIsStored
    StoreTells
