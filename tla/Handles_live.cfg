SPECIFICATION FairDataSpec
CONSTANTS
    Hosts = {h1, h2}
    Capturer = capturer
    Processor = processor
    MaxId = 1
    MaxHandle = 1
    MaxStarts = 2
    Capacity = 1
    Threads <- MCThreads
    Ids <- MCIds
    Ops <- DataOps
    None = None
PROPERTY EngineLockReturned
CHECK_DEADLOCK FALSE
