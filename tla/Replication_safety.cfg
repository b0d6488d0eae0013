SPECIFICATION Spec
CONSTANTS
    Leader = leader
    Followers = {f1}
    Record = {a, b}
    MaxLeo = 2
    MaxInFlight = 1
    MayRestart = {leader}
    MaxFaults = 1
    MaxLeaderRestarts = 1
SYMMETRY RecordSymmetry
INVARIANTS
    FollowerLogIsPrefix
    FollowerBehindLeader
    FollowersNotOverestimated
    AckedIsReplicated
    CommittedIsReplicated
PROPERTIES
    HwMonotonic
    ImplementsCommittedLog
CHECK_DEADLOCK FALSE
