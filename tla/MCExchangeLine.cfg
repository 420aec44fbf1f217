SPECIFICATION FairSpec
CHECK_DEADLOCK FALSE
CONSTANTS
    a = a
    b = b
    Clients = {a}
    Solo = a
    Links = {"TCP", "COM"}
    WdtLinks = {"TCP"}
    Ops = {"EXECUTE", "START_WDT", "GET", "RELEASE", "STOP", "START_BAD", "START_MALFORMED"}
    Handles = {1, 2}
    TryMax = 2
    SerialMax = 9
    ClientMax = 1
    ObjectMax = 2
    SerialStarts = {9}
    Faults = {"client_send", "server_send", "close"}
    CallMax = 2
    MishapMax = 1
    SessionMax = 1
    QueueMax = 2
INVARIANTS
    VectorExact
    HandOver
PROPERTIES
    CallFaithful
    PacketsUntouched
    ServerReturns
    RequestsHandedOver
