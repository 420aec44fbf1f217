SPECIFICATION LibrarySpec
CHECK_DEADLOCK FALSE
CONSTANTS
    n1 = n1
    n2 = n2
    n3 = n3
    s1 = s1
    s2 = s2
    Nodes <- ThreeNodes
    Root = Root
    Null = Null
    ClientMax = 3
    AddFails = FALSE
    Timed = {TRUE, FALSE}
    Spurious = FALSE
    Called <- MostFunctions
    Handles = {1, 2}
    ObjectMax = 3
    Lines = {"tcp", "com", "rtk"}
    Contents <- TwoPackets
    Noise <- Stray
    SpoilMax = 2
    BufferMax = 12
    PacketMax = 8
    NakMax = 2
    Arguments <- ArgumentLists
    Day = 6
    Epoch = 3
    Steps = 16
    Filler = Filler
    BCAP_HEADER = BCAP_HEADER
    BCAP_TERMINATOR = BCAP_TERMINATOR
    Garbage = Garbage
    NotYet = NotYet
    Refused = Refused
    Threads = {"t1", "t2"}
    BCAP_CONN_MAX = 2
    Connects <- SomeConnects
    Retries = {0, 9}
    RETRY_MIN = 1
    RETRY_MAX = 7
    Serialised = TRUE
    StateFails = FALSE
    OptionLists <- ShortLists
    Keys <- SoughtKeys
    EndOfText = EndOfText
    Characters <- Letters
    Slots <- TwoSlots
    BlockMax = 6
    LengthMax = 1
    OperationMax = 5
INVARIANTS
    
    NoLostSignal
    TablesAgree
    
    ArgumentsArrive
    ResourcesAccounted
    OptionFound
    OwnedOnce
PROPERTIES
    ListsFaithful
    
    HandedOver
    StreamArrives
