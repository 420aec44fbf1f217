SPECIFICATION Spec
CHECK_DEADLOCK FALSE
CONSTANTS
    a = a
    b = b
    Clients <- TwoClients
    Solo = a
    Links = {"UDP"}
    WdtLinks = {"UDP"}
    Ops = {"EXECUTE", "START_WDT"}
    Handles = {1}
    TryMax = 2
    SerialMax = 9
    ClientMax = 1
    ObjectMax = 1
    SerialStarts = {9}
    Faults = {}
    CallMax = 2
    MishapMax = 0
    SessionMax = 1
    QueueMax = 1
INVARIANTS
    RetryMeansResponded
