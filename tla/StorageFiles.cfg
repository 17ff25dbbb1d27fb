SPECIFICATION Spec
CONSTANTS
    t1 = t1
    t2 = t2
    Threads = {t1, t2}
    Adapters <- AllAdapters
    Capacity = 5
    LongModulus = 64
    MaxFailures = 2
    Units = {1, 2}
    MaxSize = 5
    Pages = {0, 1, 3}
    PageSize = 2
    MaxRecords = 3
CHECK_DEADLOCK FALSE
INVARIANTS
    TypeOK
    ReadsARecord
    NoUndefinedBehaviour
    OnlyLatestMayBeLost
PROPERTIES
    FileSpec
