SPECIFICATION FairSpec
CONSTANTS
    Call = {withCtx}
    WithContext = {withCtx}
    Worker = {w1, w2}
    Stopper = {s1}
    PerWorker = 1
    MaxClients = 3
    Sizes = {3}
    BatchSize = 2
    Stuck = {2}
    None = none
PROPERTIES
    ShutdownReturns
CHECK_DEADLOCK FALSE
