SPECIFICATION FairSpec
CONSTANTS
    i1 = i1
    i2 = i2
    s1 = s1
    s2 = s2
    t1 = t1
    t2 = t2
    g1 = g1
    g2 = g2
    Instances = {i1}
    Subs = {s1, s2}
    Threads = {t1, t2}
    Emitters = {g1}
    None = None
    Capacity = 1
    MaxCalls = 1
    MaxHandlers = 1
INVARIANT
    MappedIsLive
PROPERTIES
    EventsFlow
CHECK_DEADLOCK FALSE
