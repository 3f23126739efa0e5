SPECIFICATION PathSpec
CONSTANTS
    PoolSize = 2
    MaxFrames = 4
    Recycle = TRUE
    EncodeFails = TRUE
    Spurious = TRUE
    NoFrame = NoFrame
    UnitSizes <- MCUnitSizes
    ReceiveSize = 2
    PrivateSize = 5
    StartCode = 1
    MaxUnits = 2
    MaxEpoch = 1
CHECK_DEADLOCK FALSE
INVARIANTS
    PoolNeverExhausted
    CondMapLive
    UnitsWhole
PROPERTIES
    EncodedInOrder
    PipesAreLossyQueues
    EncoderStops
    VideoFlows
