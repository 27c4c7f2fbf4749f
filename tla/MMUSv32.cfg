CONSTANTS
    Radix = 4
    MemWords = 24
    RootPPN = 1
    TLBSize = 2
    FetchVA <- Code
    LoadVA <- Loads
    StoreVA <- Stores
    Stored <- OddWords
    InitMem <- Mem0
SPECIFICATION Spec
PROPERTY StoresFollowSv32
CHECK_DEADLOCK FALSE
