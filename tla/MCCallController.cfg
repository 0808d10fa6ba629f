SPECIFICATION MCSpec
CONSTANTS
    i1 = i1
    i2 = i2
    a1 = a1
    a2 = a2
    b1 = b1
    b2 = b2
    t1 = t1
    t2 = t2
    CallIds = {i1, i2}
    ActiveCalls = {a1, a2}
    Bridges = {b1, b2}
    Threads = {t1, t2}
    None = None
    MaxCalls = 1
    MaxPending = 1
SYMMETRY MCSymmetry
INVARIANTS
    OvershootIsBounded
    OneCleanupReleases
    EndedIsCleanedUp
    NoOrphanBridge
CHECK_DEADLOCK FALSE
