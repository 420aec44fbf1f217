SPECIFICATION TPFairSpec
CONSTANTS
    Modes = {TRUE}
    Links = {"COM"}
    Arrivals = {"ACK"}
    SendFails = FALSE
    TornFlags = TRUE
    RetryNak = 1
    RetryTimeout = 1
    ErrorTimeout = 1
    LessInterval = 1
    PingConnect = 0
    PingError = 1
    InitClient = 0
    InitServer = 1
    Width = 100
    ClockStart = 0
    TickMax = 1
PROPERTIES
    TPCloseReturns
