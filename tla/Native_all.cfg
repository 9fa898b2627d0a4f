SPECIFICATION Spec
CONSTANTS
    Interfaces = {0, 1, 2}
    DeviceNames = {"nic"}
    NoName = NoName
    Snaplens = {1, 2}
    MaxSnaplen = 1
    MaxLength = 2
    MaxCounter = 3
    MaxCaptures = 2
    MaxObserved = 2
    NoHandle = NoHandle
    Filters <- MCFilters
    Conditions <- MCConditions
    MaxInstalled = 2
    MaxSessions = 3
    Null = Null
    FlowIds = {1, 2, 3}
    MaxFlows = 2
    MaxTotal = 2
    Sizes = {0, 1, 2}
    Times = {0, 1, 2}
    MaxRegistrations = 2
    Unregistered = Unregistered
    Addresses <- MCAddresses
    WdCapacity = 2
    WdFilters = {"true", "", "nul"}
    WdLayers = {"network", "networkforward", "bogus"}
    MaxIntercepted = 2
    MaxRuntimes = 2
    MaxDivertHandles = 2
    PacketSizes = {0, 1, 2, 3}
    MaxPacketSize = 2
    QueuePackets = 2
    QueueBytes = 3
    NoNative = NoNative
INVARIANTS NativeHandlesOwned TablesMatchNative
PROPERTIES FlowsNeverResume
