SPECIFICATION Spec
CHECK_DEADLOCK FALSE
CONSTANTS
    a = a
    b = b
    Clients = {a}
    Solo = a
    Links = {"COM"}
    WdtLinks = {}
    Ops = {"EXECUTE", "START"}
    Handles = {1}
    TryMax = 2
    SerialMax = 9
    ClientMax = 1
    ObjectMax = 1
    SerialStarts = {1}
    Faults = {}
    CallMax = 2
    MishapMax = 0
    SessionMax = 2
    QueueMax = 2
INVARIANTS
    RetryMeansSameCall
