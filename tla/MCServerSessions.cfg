SPECIFICATION FairSpec
CONSTANTS
    Client = {c1, c2}
    video = video
    audio = audio
    Encoders <- VideoAndAudio
    Tid = {t1, t2, t3}
    SessionId = {s1}
    Transports = {"udp"}
    NoClient = NoClient
    NoThread = NoThread
    NULL = NULL
    Polite = TRUE
    CreateFails = FALSE
    EncodeFails = FALSE
    WriteFails = FALSE
INVARIANTS
    EncodersServeClients
    ClockArmedBetweenSessions
    PoliteClientsAreSafe
PROPERTY
    DepartingClientLeaves
