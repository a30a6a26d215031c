CONSTANTS
    Rqnum = 3
    Elems = {e1, e2, e3}
    Consumers = {c1, c2}
    Single = c1
    Nullptr = Nullptr
SPECIFICATION FairSpec
INVARIANTS
    NoDoubleDelivery
    RoomForPut
    SpinsForCause
    FreedDrained
PROPERTIES
    ImplementsFifo
    Handled
