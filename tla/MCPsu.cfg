SPECIFICATION BoundedSpec
CONSTANTS
    p = p
    q = q
    Callers <- TwoCallers
    SendQueueSize = 3
    RecvQueueSize = 3
    StackSize = 2
    PacketBytes = 1
    TimeoutLimit = 2
    TimeoutRetryLimit = 2
    SendNakLimit = 2
    RecvNakLimit = 2
    BootRequests = 1
    Interrupts = TRUE
    RequestMax = 3
    NoiseMax = 4
    CallerNoiseMax = 1
INVARIANTS
    FifoOrder
    HalfDuplex
    FailureRecorded
    WokenByFinished
PROPERTIES
    
    RequestEnds
