CONSTANTS
    N = 4
    Word <- Words
    Inst <- Decode
    VMap <- Pages
    Program <- JitPrograms
    CacheSize = 2
    Jit = TRUE
    Threshold = 1
    MaxInsts = 0
    Garbage <- Freed
    CountCap = 9
    StatCap = 4
SPECIFICATION Spec
INVARIANTS
    TypeOK
    Fresh
    TraceAlive
    JitWhenHot
    CountExact
    StatisticsAddUp
PROPERTIES
    ImplementsFenceMachine
