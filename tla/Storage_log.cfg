SPECIFICATION Spec
CONSTANTS
    BatchLens = {1, 2, 6}
    MaxBatches = 2
    SegmentMax = 6
    RequestMax = 6
    PartitionMax = 8
    IndexInterval = 2
    Modulus = 65536
    MaxLeo = 6
    MaxCrashes = 1
    MaxFailures = 1
INVARIANTS ReadFindsOffset CommittedReadStops EvictedGoesOn AckedStays
PROPERTY SizeEnforced
