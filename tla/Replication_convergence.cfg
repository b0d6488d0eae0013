SPECIFICATION FairSpec
CONSTANTS
    Leader = leader
    Followers = {f1}
    Record = {a}
    MaxLeo = 1
    MaxInFlight = 1
    MayRestart = {f1}
    MaxFaults = 2
    MaxLeaderRestarts = 0
INVARIANT
    FollowerLogIsPrefix
PROPERTIES
    Convergence
CHECK_DEADLOCK FALSE
