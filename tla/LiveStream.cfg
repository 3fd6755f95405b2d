SPECIFICATION Spec
CONSTANTS
    Wells = {w1, w2}
    Conns = {k1, k2}
    None = None
    MaxSample = 3
    QueueSize = 1
    NetSize = 1
    SnapLimit = 2
    WindowSize = 3
    MaxEvents = 2
INVARIANTS
    TypeOK
    NoLeakedSubscriber
    ViewInOrder
    ViewHasNoGaps
PROPERTIES
    EventuallyCurrent
CHECK_DEADLOCK FALSE
