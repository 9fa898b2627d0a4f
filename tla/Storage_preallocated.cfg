SPECIFICATION PoolSpec
CONSTANTS
    Callers = {t1, t2}
    MaxSize = 2
    Capacity = 1
    Word = 5
    MaxUpsets = 0
    None = None
PROPERTY IdleBuffersServe
