SPECIFICATION FairSpec
CONSTANTS
    Threads = {t1, t2}
    Endpoints = {e1, e2}
    Usable = {e1}
    Reasons = {userEnded}
    NoReason = NoReason
    MaxCallbacks = 1
INVARIANTS
    NoLostPromotion
    EndedReleasesMedia
    LastReportIsTrue
PROPERTIES
    Lifecycle
    EndedIsForgotten
    OutgoingReachesActive
CHECK_DEADLOCK FALSE
