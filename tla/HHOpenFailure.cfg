CONSTANTS
    n1 = n1
    n2 = n2
    n3 = n3
    Nodes <- OneNode
    MaxActive = 0
    MaxActiveSettings = {}
    MaxResizes = 0
    RetryInterval = 1
    RetryMaxInterval = 2
    QueueCap = 2
    ShardIDs = {1}
    PointSlices <- OnePoint
    MaxWrites = 1
    MaxFaults = 1
    MaxCrashes = 0
    AdvanceCanFail = FALSE
    OpenCanFail = TRUE
SPECIFICATION Spec
INVARIANT OpenedProcessorRuns
