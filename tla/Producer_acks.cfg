SPECIFICATION Spec
CONSTANTS
    Partition = {0, 1}
    User = {u1}
    Route <- ToZero
    Orders <- Crossed
    Semantic = "AtLeastOnce"
    BatchSize = 2
    QueueSize = 2
    Big = {}
    TooLarge = {4}
    MayRefuse = TRUE
    Filtered = {3}
    MaxRecords = 4
    MaxFlushes = 1
    MaxFaults = 1
INVARIANTS OffsetIsTrue OffsetsInOrder 
PROPERTY EveryRecordResolves
CHECK_DEADLOCK FALSE
