SPECIFICATION FairSpec
CONSTANTS
    Call = {plain, withCtx}
    WithContext = {withCtx}
    Worker = {w1, w2}
    Stopper = {s1, s2}
    PerWorker = 1
    MaxClients = 3
    Sizes = {2, 3}
    BatchSize = 2
    Stuck = {2}
    None = none
INVARIANTS
    NothingOutlivesCall
    EveryClientOnce
    ShutdownDrains
PROPERTIES
    CallReturns
    ShutdownFollowsCalls
CHECK_DEADLOCK FALSE
