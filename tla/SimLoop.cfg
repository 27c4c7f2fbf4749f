CONSTANTS
    N = 4
    Word <- Words
    Inst <- Decode
    VMap <- Pages
    Program <- LoopPrograms
    CacheSize = 2
    Jit = TRUE
    Threshold = 1
    MaxInsts = 5
    Garbage <- Freed
    CountCap = 9
    StatCap = 4
SPECIFICATION FairSpec
PROPERTY Stops
