SPECIFICATION Spec
CONSTANTS
    Partition = {0}
    User = {u1}
    Route <- ToZero
    Orders <- AnyOrder
    Semantic = "AtMostOnce"
    BatchSize = 2
    QueueSize = 2
    Big = {}
    TooLarge = {}
    MayRefuse = TRUE
    Filtered = {}
    MaxRecords = 2
    MaxFlushes = 0
    MaxFaults = 1
INVARIANT OffsetIsTrue
CHECK_DEADLOCK FALSE
