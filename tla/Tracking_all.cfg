SPECIFICATION Spec
CONSTANTS
    Endpoints = {"a", "b"}
    MaxEntries = 2
    IdleTimeout = 1
    MaxClock = 2
    MaxCount = 2
    MaxCreated = 2
    Unset = Unset
    Observations <- MCObservations
    DedupSize = 2
    MaxObservations = 3
    Nothing = Nothing
    Threads = {t1, t2}
    GatewayPolicies = {p1}
    NoPolicy = NoPolicy
    RuleArguments <- MCRuleArguments
    Packets <- MCPackets
    MaxRules = 2
    Open = Open
    CacheKeys = {k1, k2, k3}
    CacheValues = {v1, v2}
    CacheLimit = 2
    Ttls = {0, 1, 2}
    MaxSeconds = 2
    Radix = 4
    Hosts <- MCHosts
    Segments <- MCSegments
    CheckAt = 3
    Recorders = {r1, r2}
    Sizes = {1, 3}
    Bounds <- MCBounds
    BucketNames <- MCBuckets
    MaxCalls = 3
INVARIANTS ProcessingInv ParserSafe
PROPERTIES FlowsOnlyGrow
CHECK_DEADLOCK FALSE
