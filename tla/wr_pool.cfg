CONSTANTS
    Elenum = 2
    Rqnum = 3
    Producers = {p1, p2}
    Nullptr = Nullptr
SPECIFICATION FairSpec
INVARIANTS
    NoAlias
    RingSound
    SpinsForCause
PROPERTIES
    ImplementsFifo
    PutProgress
