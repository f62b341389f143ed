CONSTANTS
    n1 = n1
    n2 = n2
    n3 = n3
    Nodes <- OneNode
    MaxActive = 1
    MaxActiveSettings = {0}
    MaxResizes = 1
    RetryInterval = 1
    RetryMaxInterval = 2
    QueueCap = 2
    ShardIDs = {2561}
    PointSlices <- TwoPoints
    MaxWrites = 3
    MaxFaults = 1
    MaxCrashes = 1
    AdvanceCanFail = TRUE
    OpenCanFail = TRUE
SPECIFICATION FairSpec
INVARIANT TypeOK
INVARIANT FramesDecodeToTheirWrite
PROPERTY DeliverySpec
 
