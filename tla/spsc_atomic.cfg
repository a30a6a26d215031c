CONSTANTS
    Elenum = 3
    GetTryNum = 2
    Nullptr = Nullptr
SPECIFICATION FairSpec
INVARIANTS
    Accounting
    EachOnce
PROPERTIES
    ImplementsFifo
    CallsReturn
