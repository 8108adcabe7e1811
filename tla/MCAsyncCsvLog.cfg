SPECIFICATION FairSpec
CONSTANTS
    Row = {r1, r2}
    Callers = {c1, c2}
    MaxQueueRows = 2
    StatsInterval = 2
    MaxOffers = 4
    r1 = r1
    r2 = r2
    c1 = c1
    c2 = c2
INVARIANTS
    CountersMatchRows
    WakeupPending
    DestroyedImpliesDrained
PROPERTIES
    ImplementsRowLog
    QueuedRowsReachDisk
    DestructorReturns
CHECK_DEADLOCK FALSE
