SPECIFICATION Spec
CONSTANTS
    SmartModules = {TRUE}
    Passing = {1, 3}
    Failing = {}
    Big = {}
    SegmentBase = {0, 1}
    MayStop = FALSE
    MaxEnd = 4
INVARIANT
    NothingSkipped
CHECK_DEADLOCK FALSE
