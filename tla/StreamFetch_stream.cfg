SPECIFICATION FairSpec
CONSTANTS
    SmartModules = {TRUE, FALSE}
    Passing = {1, 3}
    Failing = {2}
    Big = {}
    SegmentBase = {0}
    MayStop = TRUE
    MaxEnd = 4
INVARIANT
    NothingSkipped
PROPERTIES
    EverythingDelivered
    SignalEndsStream
CHECK_DEADLOCK FALSE
