SPECIFICATION Spec
CONSTANTS
    FailureThreshold = 3
    RecoveryThreshold = 2
    Custom = {"host"}
    Touched = {"npcap", "windivert", "iphelper"}
    Reported = {"windivert"}
    Policies = {"None", "RoundRobin"}
    HasRoutes = TRUE
    Faults = FALSE
    None = None
CHECK_DEADLOCK FALSE
INVARIANT ShutdownSucceeds
