CONSTANTS
    Branches = {b1, b2}
    Clusters = {c1, c2}
    Calls = {k1, k2}
    None = None
    MaxXVols = 2
    MaxRequests = 2
    MaxHibernations = 1
    MaxFaults = 0
SPECIFICATION Spec
SYMMETRY Symmetry
CHECK_DEADLOCK FALSE
CONSTRAINT Narrow
INVARIANTS TypeOK ClaimedOnce
PROPERTIES OutcomeIsFinal
