CONSTANTS
    Radix = 4
    MemWords = 24
    RootPPN = 1
    TLBSize = 2
    FetchVA <- Code
    LoadVA <- Loads
    StoreVA <- Stores
    Stored <- Words
    InitMem <- Mem0
SPECIFICATION Spec
INVARIANTS
    TypeOK
    Coherent
    AgreesWithSv32
PROPERTIES
    SideEffects
CHECK_DEADLOCK FALSE
