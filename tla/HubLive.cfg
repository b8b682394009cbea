SPECIFICATION FairSpec
CONSTANTS
    Client = {c1, c2}
    Drainer = {}
    None = none
    MaxConnections = 0
    QCap = 1
    Reap = TRUE
    PeerFails = TRUE
PROPERTIES
    UpgradeReturns
    ShutdownClosesAll
    ShutdownTerminates
    EventuallyReachable
    DisconnectIsNotified
CHECK_DEADLOCK FALSE
