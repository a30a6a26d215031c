CONSTANTS
    Elenum = 2
    Rqnum = 2
    Producers = {p1, p2}
    Nullptr = Nullptr
    GetTryNum = 1
    NsPerSec = 2
    GetWaitTime = 1
SPECIFICATION FairSpec
INVARIANTS
    NoAlias
    RingSound
    PermitsAddUp
PROPERTIES
    ImplementsFifo
    GetterReturns
