\* Two posts expire together and form one batch of the checker; requests come one at a time.
CONSTANTS
    Ids = {p1, p2}
    Users = {u1}
    SeedEmployer = seedEmployer
    Contents = {c1}
    Images = {}
    Requests = {r1}
    NoRow = NoRow
    Idle = Idle
    None = None
    MaxTime = 2
    MaxFeed = 2
    SeedCount = 0
    MaxStarts = 2
    MaxImaged = 0
SPECIFICATION FairSpec
INVARIANTS
    AnnouncedAtMostOnce
PROPERTIES
    OnlyLastOfBatchIsLost
    OverdueIsCompleted
CHECK_DEADLOCK FALSE
