SPECIFICATION FairSpec
CONSTANTS
    Leader = leader
    Followers = {f1}
    Record = {a}
    MaxLeo = 1
    MaxInFlight = 1
    MayRestart = {leader}
    MaxFaults = 1
    MaxLeaderRestarts = 1
PROPERTIES
    Convergence
CHECK_DEADLOCK FALSE
