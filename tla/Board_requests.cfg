CONSTANTS
    p1 = p1
    u1 = u1
    u2 = u2
    k1 = k1
    k2 = k2
    Posts = {p1}
    Applicants = {u1, u2}
    Keys = {k1, k2}
    Tasks = {t1, t2}
    MaxRows = 4
    None = None
    Scenarios <- MCScenarios
SPECIFICATION BoardSpec
INVARIANTS
    IndexIsCurrent
    AppliedOnce
    SavedOnce
    PhotosAreStored
    DeadlineGoesWithPost
PROPERTIES
    StaysClosed
    ClosedBeforeCompleted
CHECK_DEADLOCK FALSE
