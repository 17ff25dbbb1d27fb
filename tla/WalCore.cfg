SPECIFICATION Spec
CONSTANTS
    t1 = t1
    t2 = t2
    t3 = t3
    Threads <- ThreeThreads
    Owner = t1
    EntrySizes <- SmallOrLarge
    SizeModulus = 1048576
    IdModulus = 100
    TruncatesOnOpen = FALSE
    ClearAfterRecovery = TRUE
    MaxOps = 4
    MaxEpoch = 1
    MaxIoFailures = 0
CHECK_DEADLOCK FALSE
SYMMETRY Symmetry
INVARIANTS
    TypeOK
    UnfinishedReported
    FinishedNotReported
    ReportedOnce
    ReplayInOrder
    BlocksWellFormed
    Responsible
    NoFatalAbort
PROPERTIES
    ServiceSpec
