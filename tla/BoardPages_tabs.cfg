CONSTANTS
    p1 = p1
    u1 = u1
    u2 = u2
    k1 = k1
    k2 = k2
    t1 = t1
    t2 = t2
    Posts = {p1}
    Applicants = {u1, u2}
    Keys = {k1, k2}
    Tasks = {t1, t2}
    MaxRows = 3
    None = None
    Scenarios <- PageScenarios
    TabUser <- Tabs
    Params = {"all", "narrow"}
    Matches <- MCMatches
SPECIFICATION ListingsSpec
INVARIANTS
    ReviewedOnce
    ListingTypeOK
    ShownIsLatest
PROPERTIES
    OnlyStalePagesUndo
    SuccessIsTrue
    DeadlineIsKept
    NothingHangs
CHECK_DEADLOCK FALSE
