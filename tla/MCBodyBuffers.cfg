SPECIFICATION FairSpec
CONSTANTS
    HeadSizes = {0, 1, 3}
    TailSizes = {1, 2, 3}
    MaxChunk = 5
    MaxWritten = 10
INVARIANTS
    TypeOK
    HeadIsFirst
    LenIsStored
PROPERTIES
    
    WriteReturns
