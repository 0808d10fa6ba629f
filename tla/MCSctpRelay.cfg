SPECIFICATION FairSpec
CONSTANTS
    i1 = i1
    c1 = c1
    c2 = c2
    c3 = c3
    Ids = {i1}
    Conns = {c1, c2}
    None = None
    MaxDials = 2
INVARIANTS
    ListedIsAlive
    ListedOpenIsReal
PROPERTIES
    DialSettles
CHECK_DEADLOCK FALSE
