SPECIFICATION SoundPathSpec
CONSTANTS
    ChunkSize = 2
    FrameSize = 3
    MaxSamples = 12
    EncodeFails = TRUE
    NoSample = NoSample
    PacketSizes <- MCPacketSizes
    Asked = 2
    BufferMax = 6
    SilenceSize = 1
    MaxPackets = 4
    MaxQueue = 2
    Grain = 2
    Period = 2
    Nap = 5
    Late = 1
    Chunk = 4
    MaxTime = 24
    MaxBursts = 2
CHECK_DEADLOCK FALSE
PROPERTIES
    ImplementsSampleQueue
    PacketsInOrder
    EncoderStops
INVARIANTS
    SoundWhole
    SoundKeepsClock
