SPECIFICATION Spec
CONSTANTS
    Fields <- TwoFields
    Keys = {1, 2}
    Locations = {7}
    MaxDamage = 0
    MaxLateFailures = 1
CHECK_DEADLOCK FALSE
INVARIANTS
    SuccessMeansWhole
