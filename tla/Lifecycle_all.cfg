SPECIFICATION Spec
CONSTANTS
    FailureThreshold = 3
    RecoveryThreshold = 2
    Custom = {"host"}
    Touched = {"npcap", "windivert", "iphelper"}
    Reported = {"windivert"}
    Policies = {"None", "RoundRobin"}
    HasRoutes = TRUE
    Faults = TRUE
    None = None
INVARIANTS NoTransientAtRest EngineMatchesNative UnhealthyNotAvailable QuiescedAfterShutdown
PROPERTY RoutesMoveToHealthy
CHECK_DEADLOCK FALSE
