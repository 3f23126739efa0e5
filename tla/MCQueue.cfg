SPECIFICATION FairQueueSpec
CONSTANTS
    Units = 4
    Writer = {w1, w2}
    Msg = {m1, m2}
    NoMsg = NoMsg
    NoUnit = NoUnit
    ConnectFails = TRUE
    SendFails = TRUE
    Spurious = TRUE
CHECK_DEADLOCK FALSE
PROPERTIES
    ImplementsBoundedFifo
    EventsFlow
