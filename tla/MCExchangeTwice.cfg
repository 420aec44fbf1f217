SPECIFICATION Spec
CHECK_DEADLOCK FALSE
CONSTANTS
    a = a
    b = b
    Clients = {a}
    Solo = a
    Links = {"UDP"}
    WdtLinks = {}
    Ops = {"EXECUTE"}
    Handles = {1}
    TryMax = 3
    SerialMax = 9
    ClientMax = 1
    ObjectMax = 1
    SerialStarts = {1}
    Faults = {}
    CallMax = 1
    MishapMax = 2
    SessionMax = 1
    QueueMax = 2
INVARIANTS
    AtMostOnce
