CONSTANTS
    r1 = r1
    r2 = r2
    r3 = r3
    Requests = {r1, r2, r3}
    Duties <- LiveDuties
    Projects = {p1, p2}
    BranchIds = {b1, b2}
    Cells = {c1}
    Filters = {Open}
    Open = Open
    None = None
    MaxProjects = 1
    MaxBranches = 2
    MaxDepth = 2
    MaxStoreFaults = 0
SPECIFICATION StoreFairSpec
INVARIANT ProjectLimit
PROPERTY EveryRequestReturns
CHECK_DEADLOCK FALSE
