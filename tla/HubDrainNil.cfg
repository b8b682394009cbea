SPECIFICATION Spec
CONSTANTS
    Client = {c1}
    Drainer = {d1}
    None = none
    MaxConnections = 0
    QCap = 1
    Reap = TRUE
    PeerFails = TRUE

INVARIANTS
    DrainNilMeansEmpty
CHECK_DEADLOCK FALSE
