SPECIFICATION FairSpec
CONSTANTS
    Key = {p, q}
    Permanent = {p}
    Kinds = {"spu", "client"}
    Capacity = 2
    MaxWrites = 3
    MaxResyncs = 1
    MaxReconnects = 1
    MaxInFlight = 1
INVARIANT
    CopyCurrent
PROPERTIES
    StoreMovesForward
    Converges
CHECK_DEADLOCK FALSE
