SPECIFICATION Spec
SYMMETRY GatewaySymmetry
CONSTANTS
    Endpoints = {e1, e2}
    MaxConnections = 1
    Originals = {o1, o2}
    Translations = {x1, x2}
    MaxNat = 2
    MaxNatId = 2
    Neighbors <- MCNeighbors
    MaxNeighbors = 1
    NeighborReports = {"Reachable", "Probe"}
    Timeouts = {0, 1}
    MaxNow = 1
    None = None
    CapabilitySets <- MCCapabilitySets
    Interfaces = {1, 2}
    OsRoutes <- MCRoutes
    OsNeighbors <- MCOsNeighbors
    OsConnections <- MCConnections
    MaxChanges = 2
    Bits = 2
    StaticEntries <- MCStatic
    MaxEntries = 2
    Absent = Absent
    GatewayConfigs <- MCGatewayConfigs
    KnownInterfaces = {1, 2}
    TableRoutes <- MCTableRoutes
    MaxTableRoutes = 3
    IngressPackets <- MCIngress
    Parts = {"interfaces", "routes"}
    Tables <- MCTables
    DnsConfigs <- MCDnsConfigs
    DnsServers = {1, 2}
    MaxServers = 2
    MaxGeneration = 4
INVARIANTS  InsertMakesRoom NetworkInv RefreshIsExact 
PROPERTIES ConnectionsOnlyAdvance OnlyHostDiscards
CHECK_DEADLOCK FALSE
