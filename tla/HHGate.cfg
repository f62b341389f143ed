CONSTANTS
    n1 = n1
    n2 = n2
    n3 = n3
    Nodes <- ThreeNodes
    MaxActive = 2
    MaxActiveSettings = {1, 2}
    MaxResizes = 2
    RetryInterval = 1
    RetryMaxInterval = 2
    QueueCap = 2
    ShardIDs = {1}
    PointSlices <- OnePoint
    MaxWrites = 0
    MaxFaults = 1
    MaxCrashes = 0
    AdvanceCanFail = FALSE
    OpenCanFail = TRUE
SPECIFICATION Spec
INVARIANT GateBound
INVARIANT GateCountsHolders
SYMMETRY NodeSymmetry
