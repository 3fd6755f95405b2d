SPECIFICATION Spec
CONSTANTS
    None = None
    l1 = l1
    l2 = l2
    w1 = w1
    w2 = w2
    Logs = {l1}
    Wells = {w1, w2}
    WellOf <- WellsApart
    DirOf <- AllIncreasing
    IndexCurve <- Depth
    Curve <- C1
    MaxIdx = 1
    Capacity = 2
    Concurrency = 1
    SnapshotEvery = 2
    MaxLives = 2
    AllowCrash = TRUE
    AllowStop = FALSE
    AllowDbFail = FALSE
    AllowMiss = FALSE
INVARIANTS
    IndexCurveFirst
