SPECIFICATION Spec
CONSTANTS
    MaxLength = 3
    MaxEnd = 7
    ConsolidationThreshold = 3
    MaxInsertions = 4
    KeepsOldFile = FALSE
CHECK_DEADLOCK FALSE
INVARIANTS
    TypeOK
    FreeIsFree
    NothingForgotten
    ConsolidationMerges
PROPERTIES
    GrowsOnlyWithoutRoom
    CompleteFileRestores
