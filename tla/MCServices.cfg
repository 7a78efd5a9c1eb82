INIT ServicesInit
NEXT ServicesNext
SYMMETRY Symmetry
CONSTANTS
    Callers = {a1, a2}
    Keys = {k1}
    NoFlight = NoFlight
    NoInstance = NoInstance
    NoCluster = NoCluster
    Primary = i1
    MaxHibernations = 1
    Targets = {"rw", "ro"}
    ScaleToZero = {TRUE, FALSE}
    MaxCrashes = 1
    Users = {"a", "b", "u"}
    NestedAdmins = {"u"}
    RoleCalls = {"r1", "r2", "r3"}
    RoleRequests <- MCRoleRequests
    MaxRoleFaults = 1
    KeyCalls = {"k1", "k2", "k3"}
    KeyRequests <- MCKeyRequests
    Projects = {"p1", "p2"}
    ProjectOf <- MCProjectOf
    MaxAPIKeys = 2
    MaxClock = 2
    Orgs = {"x", "y"}
    OrgCalls = {"o1", "o2", "o3"}
    OrgRequests <- MCOrgRequests
    MaxOrgFaults = 1
    Requesters = {"q1", "q2"}
    MaxRevocations = 2
    Installs <- MCInstalls
    Provisions <- MCProvisions
    Adds <- MCAdds
    Resources = {"r1", "r2"}
    Clients = {"u1", "u2"}
    configurableParameters <- MCConfigurableParameters
    InstanceOverrides <- MCInstanceOverrides
    PreloadRequired <- MCPreloadRequired
    DefaultLibraries <- MCDefaultLibraries
    BackupsEnabled = TRUE
    MinInstances = 1
    MaxInstances = 3
    MaxStorage = 100
    Bodies <- MCBodies
    Configurations <- MCConfigurations
    MaxVcpus = 3
    Vcpus <- MCVcpus
    MaxSettingRequests = 3
INVARIANTS
    
    
    NoForeignCancel
    KeepsAnAdmin
    
    
    StatusSettles
    LinksHold
 
CHECK_DEADLOCK FALSE
