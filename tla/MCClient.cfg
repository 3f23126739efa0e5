SPECIFICATION FairSpec
CONSTANTS
    Media <- MCMedia
    PoolSize = 2
    QueueSize = 2
    IdleDetection = 0
    IdleMaximum = 1
    HasDuration = TRUE
    MaxPictures = 4
    MaxAudio = 1
CHECK_DEADLOCK FALSE
INVARIANTS
    OneWindow
PROPERTIES
    PicturesShown
    StalledClientEnds
    QuitEnds
