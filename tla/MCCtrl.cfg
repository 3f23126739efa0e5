SPECIFICATION FairInputSpec
CONSTANTS
    Protos = {"tcp", "udp"}
    Client = {c1, c2}
    c1 = c1
    c2 = c2
    Messages <- MCMessages
    Malformed <- Garbage
    Handshakes <- Greetings
    MyId <- Hello
    BufLen = 7
    MaxSent = 3
    MaxFlying = 2
    Tidy = TRUE
    NoClient = NoClient
    NoRect = NoRect
    NoKey = NoKey
    Anywhere = Anywhere
    Machines <- MCMachines
    Toggled <- MCToggled
    Wire <- MCWire
CHECK_DEADLOCK FALSE
INVARIANTS
    ReplayedInOrder
    NoStuckKeys
PROPERTIES
    EverythingReplayed
