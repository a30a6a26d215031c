CONSTANTS
    Elenum <- MCElenum
    GetTryNum <- MCGetTryNum
    NsPerSec <- MCNsPerSec
    GetWaitTime <- MCGetWaitTime
    Nullptr = Nullptr
SPECIFICATION FairSpec
INVARIANTS
    TypeOK
    Accounting
    Conserved
    DestroyedQuiet
    TooSmallMeansExhausted
PROPERTIES
    ImplementsFifo
    CallsReturn
