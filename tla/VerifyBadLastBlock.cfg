SPECIFICATION Spec
CONSTANTS
    Ids = {1}
    LastMayBeBad = TRUE
    Files <- SmallFiles
CHECK_DEADLOCK FALSE
PROPERTIES
    Terminates
