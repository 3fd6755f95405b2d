SPECIFICATION Spec
CONSTANTS
    None = None
    Fleet <- OneWell
    Other = "w2"
    DepthCols <- Depth3
    TimeCols <- Time2
    Nullable = {"C2"}
    StartDepth = 3
    MaxIdx = 3
    MaxTime = 1
    BurstEvery = 2
    BurstRows = 2
    Attempts = 2
    MaxDisturbances = 2
    MaxWrites = 1
INVARIANTS
    TypeOK
    CellsAligned
    LatestMatchesExtent
    NothingBehindCursor
    OnlySurfaceRowStale
PROPERTIES
    OnlyAdditions
    FleetRecovers
    LogsComeBack
