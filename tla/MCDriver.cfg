SPECIFICATION DriverSpec
CONSTANTS
    Writers = {1, 2}
    Slots = {1,2}
    FaultSlot = 1
    I2cCheck = 1
    I2cRetry = 2
    PobCheck = 1
    PobRetry = 1
    IoCallers = {1, 2}
    Troubles = {"REVERSE", "NO_SUPPLY", "IO_FUSE", "ACCESS"}
    IoCheck = 1
    BoardCallers = {1, 2}
    Outputs = {1}
    Switches = {"EMERGENCY1"}
    Speeds = {100}
    WdtAllow = 1
    FramWriters = {1, 2}
    Reserved = 1
    UserLength = 2
    Words = {0, 1}
INVARIANTS
    
    LockHasOwner
    
    
PROPERTIES
    OvervoltageEnds
    ModeKept
    
    OutputsKept
    PartBoardServes
