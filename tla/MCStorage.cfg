SPECIFICATION Spec
CONSTANTS
    p1 = p1
    r1 = r1
    Scenarios <- MCScenarios
    Ignored = {"groups"}
    Attempts = 2
    People = {p1}
    Readers = {r1}
    UpdateAttempts = 2
    MaxChanges = 2
    MaxRefreshes = 1
    t1 = t1
    t2 = t2
    h1 = h1
    h2 = h2
    Threads = {t1, t2}
    Handlers = {h1, h2}
    None = None
    MaxReceipts = 2
INVARIANTS
    ViewsAgree
    NullLabelIsExplained
    VersionMatchesMembers
    CaughtUp
    SettingFollowsGroup
PROPERTIES
    StatusFallsOnlyByRace
    AnswerEndsWait
CHECK_DEADLOCK FALSE
