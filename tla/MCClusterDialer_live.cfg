CONSTANTS
    Callers = {a1, a2}
    Keys = {k1}
    NoFlight = NoFlight
    NoInstance = NoInstance
    NoCluster = NoCluster
    Primary = i1
    MaxHibernations = 1
    Targets = {"rw"}
    ScaleToZero = {TRUE}
    MaxCrashes = 0
SPECIFICATION FairSpec
CHECK_DEADLOCK FALSE
PROPERTIES EveryDialReturns EveryDialConnects AbandonedFlightEnds
