CONSTANTS
    r1 = r1
    r2 = r2
    c1 = c1
    c2 = c2
    RPOrder <- MCRPOrder
    InitialRPs = {r1}
    NodeIds = {1, 2}
    InitialNodes = {}
    Creators <- OneCreator
    Timestamps = {1, 3}
    Times = {1, 2, 3}
    PrecreateWindows <- MCWindows
    ShardGroupDuration = 2
    ReplicaN = 1
    MaxCommits = 3
    Sources <- SamePolicyTwice
    QueryWindow <- MCQueryWindow
    Waiting = FALSE
    AllowRestore = FALSE
SPECIFICATION Spec
INVARIANT ShardsByTimeRangeDistinct
CHECK_DEADLOCK FALSE
