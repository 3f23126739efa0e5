SPECIFICATION Spec
CONSTANTS
    Protos = {"tcp"}
    Client = {c1, c2}
    Messages <- TwoMessages
    Malformed <- Garbage
    Handshakes <- Greetings
    MyId <- Hello
    BufLen = 6
    MaxSent = 3
    MaxFlying = 2
    Tidy = FALSE
    NoClient = NoClient
CHECK_DEADLOCK FALSE
INVARIANT
    MessagesIntact
