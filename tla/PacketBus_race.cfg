SPECIFICATION Spec
CONSTANTS
    Threads = {t1, t2, t3}
    Ids = {p1, p2}
    Capacity = 3
    Ops <- NeverClosed
    None = None
SYMMETRY Perms
INVARIANT NoOrphanOwnership
CHECK_DEADLOCK FALSE
