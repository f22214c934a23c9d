\* The last event of a batch is staged and never saved.
CONSTANTS
    Ids = {p1}
    Users = {u1}
    SeedEmployer = seedEmployer
    Contents = {c1}
    Images = {}
    Requests = {r1}
    NoRow = NoRow
    Idle = Idle
    None = None
    MaxTime = 2
    MaxFeed = 1
    SeedCount = 0
    MaxStarts = 1
    MaxImaged = 0
SPECIFICATION Spec
INVARIANTS
    CompletedIsAnnounced
CHECK_DEADLOCK FALSE
