SPECIFICATION Spec
CONSTANTS
    Ids = {0, 1, 2}
    LastMayBeBad = FALSE
    Files <- SmallFiles
CHECK_DEADLOCK FALSE
INVARIANTS
    TypeOK
    ReportsUnfinished
    Verdict
    AgreesWithDbWAL
PROPERTIES
    Terminates
