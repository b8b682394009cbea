SPECIFICATION FairReaperSpec
CONSTANTS
    DrainTimeout = 8
    FloorInterval = 1
    MaxInstant = 14
PROPERTIES
    TimeoutAsDocumented
CHECK_DEADLOCK FALSE
