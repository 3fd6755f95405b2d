SPECIFICATION Spec
CONSTANTS
    None = None
    Objects <- Catalogue
    Mnems = {"c1", "c2"}
    MaxIdx = 3
    Capacity = 2
    Limits = {2, 8}
    MaxWells = 2
    Named = {"w1", "w2", "w3"}
    MaxSteps = 3
    MaxFailures = 1
    MaxRequests = 1
INVARIANTS
    TypeOK
    ExportComplete
    ExportWarmWins
    TreeComplete
    CompareComplete
CHECK_DEADLOCK FALSE
