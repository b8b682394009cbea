SPECIFICATION MembershipSpec
CONSTANTS
    RoomClient = {c1, c2}
    Name = {n1}
    RoomObj = {r1, r2}
    Proc = {p1}
    RunLoop = runLoop
    Nil = nil
    MaxClientsPerRoom = 0
    MaxRoomsPerClient = 0
    MaxVersion = 3
    IndexedClient = {c1, c2}
    User = {u1, u2}
    NoUser = noUser
    Nobody = nobody
    MaxPerUser = 0
INVARIANTS
    LookupsFindRegistered
CHECK_DEADLOCK FALSE
