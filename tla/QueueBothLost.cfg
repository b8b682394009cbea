SPECIFICATION QueueSpec
CONSTANTS
    Msg = {m1, m2, m3, m4}
    Blocking = {}
    CloseFrame = closeFrame
    NoMsg = none
    Cap = 1
    PeerBreaks = FALSE

INVARIANTS
    NotBothLost
CHECK_DEADLOCK FALSE
