SPECIFICATION Spec
CONSTANTS
    Spu = {1, 2}
    First = 1
    Up = {1, 2}
    MaxLag = 2
    MaxWrites = 2
    MaxDrops = 1
    MaxQueue = 1
INVARIANT ReplicasAgree
CHECK_DEADLOCK FALSE
