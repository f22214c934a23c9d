\* Every order, repetition and loss of the events of one post, with restarts and fair consumers.
CONSTANTS
    Ids = {p1}
    Columns = {c1, c2}
    NoRow = NoRow
    NoDoc = NoDoc
    Retries = 1
    MaxFeed = 2
    MaxDuplicates = 1
    MaxRestarts = 2
SPECIFICATION FairSpec
INVARIANTS
    LivePostIsIndexed
    UpdateSurvivesReordering
PROPERTIES
    OnlyLateCreateOrResyncRestores
    QueueDrains
CHECK_DEADLOCK FALSE
