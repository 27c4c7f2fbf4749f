CONSTANTS
    CommandLines <- MCCommandLines
    Number <- MCNumber
    DefaultSizes <- MCSizes
    Writable <- MCWritable
    PageSize = 8
    Files <- MCFiles
    WordSize = 4
    Calls <- MCCalls
    Inputs = {0, 2, 4}
    PageMap <- MCPageMap
    AddrSpace = 64
    TvSize = 4
    TzSize = 2
    MaxCalls = 2
SPECIFICATION FairSpec
INVARIANTS
    TypeOK
    ParsedAsAsked
    ImageLoaded
    InsideMemory
    StandardStreams
    ReadTransfers
    WriteTransfers
    TimeStored
PROPERTIES
    OnlyBuffers
    CallsReturn
