CONSTANTS
    ClusterNames = {c1, c2}
    FirstName = c1
    NoName = NoName
    Plans <- MCPlans
    MaxEvents = 2
    Ids = {b1, b2, b3}
    NoId = NoId
    Images = {"i1", "i2"}
    Cells <- MCCells
    SpecRequests <- MCRequests
    Updates <- MCUpdates
    MaxOps = 5
    MaxAttempts = 2
    Keys = {k1, k2, NoKey}
    NoKey = NoKey
    NoPassword = NoPassword
    PoolClusters = {p1, p2}
    OwnCluster = OwnCluster
    MaxLost = 3
SPECIFICATION BranchSpec
INVARIANTS ReadyMeansConverged  SettingsHold  AckedIsOurs
PROPERTIES ResourcesConverge BackupDataIsNoticed BackupsStayPut PasswordIsKept
CHECK_DEADLOCK FALSE
