SPECIFICATION TPFairSpec
CONSTANTS
    Modes = {TRUE, FALSE}
    Links = {"COM"}
    Arrivals = {"NAK", "REQ_ID", "KEYINFO"}
    SendFails = TRUE
    TornFlags = FALSE
    RetryNak = 1
    RetryTimeout = 1
    ErrorTimeout = 0
    LessInterval = 0
    PingConnect = 0
    PingError = 0
    InitClient = 0
    InitServer = 0
    Width = 100
    ClockStart = 0
    TickMax = 1
INVARIANTS
    TimerWoken
    ReportedFaithfully
PROPERTIES
    TPCloseReturns
    UnplugNoticed
