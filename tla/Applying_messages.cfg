\* The messages of a post in any order, one of them redelivered; one request at a time.
CONSTANTS
    Ids = {p1}
    employer = employer
    Users = {employer, u1}
    Employer <- OneEmployer
    Keys = {k1, k2}
    Requests = {r1}
    Idle = Idle
    NoRow = NoRow
    NoCopy = NoCopy
    NoApp = NoApp
    MaxTime = 2
    MaxFeed = 3
    MaxRestarts = 0
    MaxDuplicates = 1
SPECIFICATION Spec
SYMMETRY Symmetry
INVARIANTS
    CopyFollowsFeed
PROPERTIES
    ConsumersRespectDecisions
CHECK_DEADLOCK FALSE
