\* Two requests overlap each other and the checker on one post.
CONSTANTS
    Ids = {p1}
    Users = {u1}
    SeedEmployer = seedEmployer
    Contents = {c1}
    Images = {i1}
    Requests = {r1, r2}
    NoRow = NoRow
    Idle = Idle
    None = None
    MaxTime = 2
    MaxFeed = 2
    SeedCount = 1
    MaxStarts = 2
    MaxImaged = 1
SPECIFICATION Spec
SYMMETRY Symmetry
INVARIANTS
    FeedMatchesTable
    LatestEventMatchesRow
PROPERTIES
    OnlyStaleImageWriteReopens
    ImplementsPostFeed
CHECK_DEADLOCK FALSE
