SPECIFICATION FairSpec
CONSTANTS
    Session = {s1, s2}
    Base = 4
    Word = 64
    BufferWords = 2
    b1 = b1  b2 = b2  b3 = b3
    Block <- MCBlock
    Address <- MCAddress
    Image <- MCImage
    TextAddress = 3
    L2Size = 2
    CtxAddress = 44
    Size = {1, 2}
    DefaultSize = 1
    Chars <- MCChars
    ArgumentList <- MCArgumentList
    NULL = NULL
    MONITOR = MONITOR
INVARIANTS TypeOK RegionsOwn LoadedInRegion InstallIntact  ResolvedWords ResolveAnswered
 
CHECK_DEADLOCK FALSE
