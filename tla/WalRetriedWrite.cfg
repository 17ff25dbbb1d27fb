SPECIFICATION Spec
CONSTANTS
    t1 = t1
    t2 = t2
    t3 = t3
    Threads <- TwoThreads
    Owner = t1
    EntrySizes <- TwoPerBlock
    SizeModulus = 1048576
    IdModulus = 100
    TruncatesOnOpen = FALSE
    ClearAfterRecovery = TRUE
    MaxOps = 4
    MaxEpoch = 1
    MaxIoFailures = 1
CHECK_DEADLOCK FALSE
INVARIANTS
    ReplayedOnce
