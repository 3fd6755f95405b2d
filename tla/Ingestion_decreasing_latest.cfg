SPECIFICATION Spec
CONSTANTS
    None = None
    l1 = l1
    l2 = l2
    w1 = w1
    w2 = w2
    Logs = {l1}
    Wells = {w1, w2}
    WellOf <- WellsApart
    DirOf <- AllDecreasing
    IndexCurve <- Depth
    Curve <- Rop
    MaxIdx = 2
    Capacity = 4
    Concurrency = 1
    SnapshotEvery = 2
    MaxLives = 1
    AllowCrash = FALSE
    AllowStop = FALSE
    AllowDbFail = FALSE
    AllowMiss = FALSE
INVARIANTS
    LatestIsNewest
