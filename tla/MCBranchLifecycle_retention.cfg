CONSTANTS
    Branches = {b1}
    Clusters = {c1, c2}
    Calls = {k1}
    None = None
    MaxXVols = 2
    MaxRequests = 1
    MaxHibernations = 1
    MaxFaults = 0
SPECIFICATION Spec
SYMMETRY Symmetry
CHECK_DEADLOCK FALSE
INVARIANT NamedBranchNeedsNoRetention
