SPECIFICATION Spec
CONSTANTS
    Client = {c1}
    video = video
    audio = audio
    Encoders <- VideoOnly
    Tid = {t1}
    SessionId = {s1}
    Transports = {"tcp"}
    NoClient = NoClient
    NoThread = NoThread
    NULL = NULL
    Polite = TRUE
    CreateFails = FALSE
    EncodeFails = FALSE
    WriteFails = TRUE
CHECK_DEADLOCK FALSE
INVARIANTS
    WriterMutexReleased
