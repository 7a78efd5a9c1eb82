SPECIFICATION FairSpec
CONSTANTS
    Branches = {b1}
    Clusters = {c1, c2}
    Calls = {k1}
    None = None
    MaxXVols = 3
    MaxRequests = 1
    MaxHibernations = 1
    MaxFaults = 1
CHECK_DEADLOCK FALSE
 
PROPERTIES OpenRequestIsServed
