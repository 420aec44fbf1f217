SPECIFICATION Spec
CONSTANTS
    p = p
    q = q
    Callers = {p}
    SendQueueSize = 3
    RecvQueueSize = 3
    StackSize = 2
    PacketBytes = 1
    TimeoutLimit = 2
    TimeoutRetryLimit = 2
    SendNakLimit = 2
    RecvNakLimit = 2
    BootRequests = 1
    Interrupts = FALSE
    RequestMax = 3
    NoiseMax = 0
    CallerNoiseMax = 0
INVARIANTS
    SyncAnswered
