SPECIFICATION Spec
CHECK_DEADLOCK FALSE
CONSTANTS
    a = a
    b = b
    Clients = {a}
    Solo = a
    Links = {"UDP"}
    WdtLinks = {}
    Ops = {"START", "STOP"}
    Handles = {1}
    TryMax = 2
    SerialMax = 9
    ClientMax = 1
    ObjectMax = 1
    SerialStarts = {5}
    Faults = {}
    CallMax = 2
    MishapMax = 1
    SessionMax = 2
    QueueMax = 2
INVARIANTS
    OnceIfRemembered
    RetryMeansSameCall
