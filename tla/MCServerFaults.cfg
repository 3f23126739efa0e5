SPECIFICATION ConnectionsSpec
CONSTANTS
    Client = {c1, c2}
    video = video
    Encoders <- VideoOnly
    Tid = {t1, t2}
    SessionId = {s1}
    Transports = {"udp", "tcp"}
    NoClient = NoClient
    NoThread = NoThread
    NULL = NULL
    Polite = FALSE
    CreateFails = TRUE
    EncodeFails = TRUE
    WriteFails = TRUE
    Fd = {f1, f2}
    Unit <- MCUnit
    Request <- MCRequest
    RbufSize = 6
    TextMax = 4
    MaxUnits = 3
    NoRequest = NoRequest
CHECK_DEADLOCK FALSE
INVARIANTS
    NoDanglingContext
    PlayingHasSession
    ConnectionsServed
    AnsweredInOrder
PROPERTIES
    StreamsStable
    RequestsAnswered
