SPECIFICATION Spec
CONSTANTS
    None = None
    l1 = l1
    l2 = l2
    w1 = w1
    w2 = w2
    Logs = {l1}
    Wells = {w1, w2}
    WellOf <- WellsApart
    DirOf <- AllIncreasing
    IndexCurve <- Depth
    Curve <- Rop
    MaxIdx = 1
    Capacity = 2
    Concurrency = 1
    SnapshotEvery = 2
    MaxLives = 2
    AllowCrash = FALSE
    AllowStop = TRUE
    AllowDbFail = FALSE
    AllowMiss = FALSE
INVARIANTS
    ResumeLosesNothing
CHECK_DEADLOCK FALSE
