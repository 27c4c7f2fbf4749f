CONSTANTS
    N = 4
    Word <- Words
    Inst <- Decode
    VMap <- Pages
    Program <- EndPrograms
    CacheSize = 2
    Jit = FALSE
    Threshold = 0
    MaxInsts = 5
    Garbage <- Freed
    CountCap = 9
    StatCap = 4
SPECIFICATION FairSpec
PROPERTIES
    Stops
