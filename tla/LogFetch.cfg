SPECIFICATION Spec
CONSTANTS
    None = None
    LogKinds <- Kinds
    MaxIdx = 6
    MaxIter = 4
INVARIANTS
    TypeOK
    NoGaps
    CompleteFetch
    CutOffAdvances
PROPERTIES
    EventuallyReturns
