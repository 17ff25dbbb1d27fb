SPECIFICATION FairSpec
CONSTANTS
    t1 = t1
    t2 = t2
    t3 = t3
    Threads <- TwoThreads
    Owner = t1
    EntrySizes <- Oversized
    SizeModulus = 1048576
    IdModulus = 100
    TruncatesOnOpen = FALSE
    ClearAfterRecovery = TRUE
    MaxOps = 4
    MaxEpoch = 1
    MaxIoFailures = 2
CHECK_DEADLOCK FALSE
INVARIANTS
    AckedInLog
    Responsible
PROPERTIES
    CallsReturn
