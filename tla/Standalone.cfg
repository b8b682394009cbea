SPECIFICATION StandaloneSpec
CONSTANTS
    Msg = {m1, m2, m3}
    Blocking = {}
    CloseFrame = closeFrame
    NoMsg = none
    Cap = 1
    PeerBreaks = FALSE
    RoomName = {a}
    Caller = {w1, w2}
    NoReport = noReport
    TTL = 1
    BusCap = 1
    MaxBumps = 2
    MaxArrivals = 1
    IndexedClient = {k1, k2, k3}
    User = {u1, u2}
    NoUser = noUser
    Nobody = nobody
    MaxPerUser = 1
    NatsSub = {s1, s2, s3}
    NoSub = noSub
    RedisSub = {r1, r2, r3}
    NoCancel = noCancel
    MaxMessageRate = 2
    Second = 3
    MaxTick = 6
    Handshake = {h1, h2, h3}
    LogInterval = 2
    MaxNano = 5
    DrainTimeout = 3
    FloorInterval = 2
    MaxInstant = 9
INVARIANTS
    GracefulFlush
    UserLimit
    IndexTracksUsers
    RateExact
    LinesSpaced
    TicksDecide
PROPERTIES
    TrySendReturns
    PresenceConverges
    NatsImplements
    RedisImplements
    AdaptersLetGo
CHECK_DEADLOCK FALSE
