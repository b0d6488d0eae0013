SPECIFICATION Spec
CONSTANTS
    Spu = {1, 2, 3}
    First = 1
    Up = {1, 2, 3}
    MaxLag = 2
    MaxWrites = 1
    MaxDrops = 1
    MaxQueue = 1
INVARIANT LeaderHasCommitted
PROPERTY LeaderKnown
CHECK_DEADLOCK FALSE
