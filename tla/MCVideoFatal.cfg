SPECIFICATION Spec
CONSTANTS
    PoolSize = 8
    MaxFrames = 2
    Recycle = FALSE
    EncodeFails = FALSE
    Spurious = FALSE
    NoFrame = NoFrame
CHECK_DEADLOCK FALSE
INVARIANTS
    FilterNeverFatal
