CONSTANTS
    Elenum = 2
    Rqnum = 3
    Producers = {p1, p2}
    Nullptr = Nullptr
    GetTryNum = 2
SPECIFICATION Spec
INVARIANT IndicesInArrays
