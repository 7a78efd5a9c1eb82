CONSTANTS
    r1 = r1
    r2 = r2
    r3 = r3
    Requests = {r1, r2, r3}
    Duties <- MCDuties
    Projects = {p1}
    BranchIds = {b1, b2, b3}
    Cells = {c1, c2}
    Filters = {Open, Shut}
    Open = Open
    None = None
    MaxProjects = 1
    MaxBranches = 1
    MaxDepth = 2
    MaxStoreFaults = 1
SPECIFICATION StoreSpec
INVARIANTS BranchOvershoot  DeletedIsGone
CHECK_DEADLOCK FALSE
SYMMETRY Symmetry
