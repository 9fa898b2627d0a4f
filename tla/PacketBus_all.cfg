SPECIFICATION Spec
CONSTANTS
    Threads = {t1, t2, t3}
    Ids = {p1, p2}
    Capacity = 2
    Ops <- AllOps
    None = None
SYMMETRY Perms
INVARIANTS SingleLiveCopy HolderIsOwner ConsumerRecordsAreLive
PROPERTY OwnershipFollowsTable
CHECK_DEADLOCK FALSE
