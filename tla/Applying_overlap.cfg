\* Two requests overlap each other, the consumers of two events and a restart.
CONSTANTS
    Ids = {p1}
    employer = employer
    Users = {employer, u1}
    Employer <- OneEmployer
    Keys = {k1, k2}
    Requests = {r1, r2}
    Idle = Idle
    NoRow = NoRow
    NoCopy = NoCopy
    NoApp = NoApp
    MaxTime = 1
    MaxFeed = 2
    MaxRestarts = 1
    MaxDuplicates = 0
SPECIFICATION Spec
SYMMETRY Symmetry
INVARIANTS
    OverlapBoundsDuplicates
PROPERTIES
    SealedForGood
CHECK_DEADLOCK FALSE
