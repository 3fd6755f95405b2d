SPECIFICATION Spec
CONSTANTS
    None = None
    r1 = r1
    r2 = r2
    r3 = r3
    Requests = {r1, r2, r3}
    Tables = {"users", "pages", "parameters", "unit_defs", "server_connections", "saved_searches"}
    n1 = n1
    n2 = n2
    Names = {n1, n2}
    Values = {0, 2, 3}
    Invalid = 3
    InitialRows <- Rows
    SeedRows <- Seeds
    SeedOrder <- Order
    MaxId = 3
    MaxRequests = 3
INVARIANTS
    TypeOK
    UniqueNames
    NoDangling
PROPERTIES
    FailedChangesNothing
    ConflictIs409
    NoLostUpdate
    GrantsReplaced
SYMMETRY Symmetry
CHECK_DEADLOCK FALSE
