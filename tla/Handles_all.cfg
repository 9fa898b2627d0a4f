SPECIFICATION DataSpec
CONSTANTS
    Hosts = {h1, h2}
    Capturer = capturer
    Processor = processor
    MaxId = 2
    MaxHandle = 2
    MaxStarts = 1
    Capacity = 1
    Threads <- MCThreads
    Ids <- MCIds
    Ops <- DataOps
    None = None
SYMMETRY HostPerms
INVARIANTS OneHandlePerPacket SentAtMostOnce Accounted
           ShutdownResolvesPackets ReadsWhileRunning
CHECK_DEADLOCK FALSE
