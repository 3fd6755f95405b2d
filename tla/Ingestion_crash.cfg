SPECIFICATION Spec
CONSTANTS
    None = None
    l1 = l1
    l2 = l2
    w1 = w1
    w2 = w2
    Logs = {l1, l2}
    Wells = {w1, w2}
    WellOf <- WellsApart
    DirOf <- AllIncreasing
    IndexCurve <- Depth
    Curve <- Rop
    MaxIdx = 2
    Capacity = 2
    Concurrency = 2
    SnapshotEvery = 2
    MaxLives = 2
    AllowCrash = TRUE
    AllowStop = FALSE
    AllowDbFail = FALSE
    AllowMiss = FALSE
SYMMETRY Symmetry
INVARIANTS
    TypeOK
    WarmExactlyOnce
    ResumeLosesNothing
    BufferKeepsNewest
    LatestIsNewest
