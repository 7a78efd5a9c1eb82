CONSTANTS
    ClusterNames = {c1, c2}
    FirstName = c1
    NoName = NoName
    Plans <- MCPlans
    MaxEvents = 0
    Ids = {b1, b2, b3}
    NoId = NoId
    Images = {"i1", "i2"}
    Cells <- OneCell
    SpecRequests <- OneRequest
    Updates <- MCUpdates
    MaxOps = 3
    MaxAttempts = 0
    Keys = {k1, k2, NoKey}
    NoKey = NoKey
    NoPassword = NoPassword
    PoolClusters = {p1, p2}
    OwnCluster = OwnCluster
    MaxLost = 3
SPECIFICATION BranchSpec
INVARIANT RestoreReadsSource
CHECK_DEADLOCK FALSE
