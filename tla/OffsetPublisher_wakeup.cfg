SPECIFICATION FairSpec
CONSTANTS
    Listener = {l1, l2}
    MaxValue = 3
INVARIANT
    NoLostWakeup
PROPERTY
    CatchesUp
CHECK_DEADLOCK FALSE
