SPECIFICATION Spec
CONSTANTS
    t1 = t1
    t2 = t2
    t3 = t3
    Threads <- TwoThreads
    Owner = t1
    EntrySizes <- Oversized
    SizeModulus = 1048576
    IdModulus = 100
    TruncatesOnOpen = FALSE
    ClearAfterRecovery = TRUE
    MaxOps = 3
    MaxEpoch = 0
    MaxIoFailures = 0
CHECK_DEADLOCK FALSE
INVARIANTS
    BlocksWellFormed
