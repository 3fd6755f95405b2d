SPECIFICATION Spec
CONSTANTS
    None = None
    l1 = l1
    l2 = l2
    w1 = w1
    w2 = w2
    Logs = {l1, l2}
    Wells = {w1}
    WellOf <- OneWell
    DirOf <- Mixed
    IndexCurve <- Depth
    Curve <- C1
    MaxIdx = 1
    Capacity = 3
    Concurrency = 2
    SnapshotEvery = 1
    MaxLives = 2
    AllowCrash = TRUE
    AllowStop = TRUE
    AllowDbFail = TRUE
    AllowMiss = TRUE
INVARIANTS
    WarmExactlyOnce
    HistoryOncePerLife
PROPERTIES
    SavedCursorMonotone
    ImplementsStream
CHECK_DEADLOCK FALSE
