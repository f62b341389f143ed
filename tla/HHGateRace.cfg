CONSTANTS
    n1 = n1
    n2 = n2
    n3 = n3
    Nodes <- OneNode
    MaxActive = 1
    MaxActiveSettings = {0}
    MaxResizes = 1
    RetryInterval = 1
    RetryMaxInterval = 2
    QueueCap = 1
    ShardIDs = {1}
    PointSlices <- OnePoint
    MaxWrites = 0
    MaxFaults = 0
    MaxCrashes = 0
    AdvanceCanFail = FALSE
    OpenCanFail = FALSE
SPECIFICATION Spec
INVARIANT GateCountsHolders
