SPECIFICATION Spec
CONSTANTS
    Schema <- FourFields
    Values <- SmallValues
    Blocks <- UpToTwo
CHECK_DEADLOCK FALSE
INVARIANTS
    TypeOK
    RoundTrip
    InStep
    MarkersTold
