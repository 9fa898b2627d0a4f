SPECIFICATION StorageSpec
CONSTANTS
    Threads = {t1, t2, t3, t4}
    Capacities <- SmallCapacities
    Callers = {t1, t2}
    MaxSize = 2
    Capacity = 1
    Word = 5
    MaxUpsets = 2
    None = None
    MaxWord = 1300
    QueueSizes <- MCQueueSizes
    Watermarks <- MCWatermarks
    Unasked = Unasked
    WorkerCount = 2
    QueueCapacity = 1
    Idle = Idle
    Exited = Exited
    MaxEnriched = 3
INVARIANTS NoLostWakeup NoHopelessWait PoolInv BackpressureIsExact EnrichmentInv
PROPERTIES CloseReleasesAll RefinesBoundedPool PipelineDrains
