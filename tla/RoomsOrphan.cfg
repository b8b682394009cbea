SPECIFICATION RoomsSpec
CONSTANTS
    RoomClient = {c1, c2}
    Name = {n1}
    RoomObj = {r1, r2, r3}
    Proc = {p1, p2}
    RunLoop = runLoop
    Nil = nil
    MaxClientsPerRoom = 0
    MaxRoomsPerClient = 0
    MaxVersion = 3

INVARIANTS
    JoinedIsListed
CHECK_DEADLOCK FALSE
