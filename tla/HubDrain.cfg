SPECIFICATION FairSpec
CONSTANTS
    Client = {c1, c2}
    Drainer = {d1}
    None = none
    MaxConnections = 0
    QCap = 1
    Reap = TRUE
    PeerFails = FALSE

INVARIANTS
    CloseFrameSent
PROPERTIES
    DrainTerminates
CHECK_DEADLOCK FALSE
