SPECIFICATION Spec
CONSTANTS
    Second = 2
    Milli = 2
    Conf <- SmallConf
    frame_size = 2
    PoolSize = 2
    BufSize = 2
    MaxStep = 1
    MaxTime = 6
    MaxSessions = 2
CHECK_DEADLOCK FALSE
INVARIANTS
    StreamsKeepToClock
PROPERTY
    StampsIncrease
