SPECIFICATION FairSpec
CONSTANTS
    Workers = {w1, w2}
    Branches = {b1, b2}
    ScaleToZero = {b1}
    Plain = {b2}
    NoBranch = NoBranch
    Lease = 3
    SyncTimeout = 1
    MaxBackoff = 1
    BookkeepingTimeout = 1
    ClaimDelay = 0
    MaxWrites = 2
    MaxFaults = 2
INVARIANTS OneSyncAtATime 
 
