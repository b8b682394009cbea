SPECIFICATION SafetySpec
CONSTANTS
    RoomClient = {c1, c2, c3}
    Name = {n1, n2}
    RoomObj = {r1, r2, r3, r4}
    Proc = {p1, p2}
    RunLoop = runLoop
    Nil = nil
    MaxClientsPerRoom = 2
    MaxRoomsPerClient = 1
    MaxVersion = 2
    Msg = {n1, n2, m3}
    Blocking = {m3}
    CloseFrame = closeFrame
    Cap = 2
    Client = {n1, n2}
    Drainer = {p1, p2}
    MaxConnections = 1
    QCap = 1
    None = none
    NoMsg = noMsg
    PeerFails = TRUE
    PeerBreaks = TRUE
    Reap = TRUE
SYMMETRY Symmetry
INVARIANTS
    Limits
    NoEmptyRoomLeak
    ExactlyOnePlace
    WireInOrder
    CountTracksClients
    PumpedIsRegistered
    ConnHasOwner
    ConnectionLimit
    NoLostDrainSignal
PROPERTIES
    OnlyLeaversLeave
    RoomsImplementCounts
    StateNeverRegresses
CHECK_DEADLOCK FALSE
