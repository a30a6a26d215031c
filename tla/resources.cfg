CONSTANTS
    Names = {n1, n2, n3}
    MaxPorts = 2
    Mtus = {1, 5}
    Sizes = {3, 512}
    NoDevice = NoDevice
    Objects = {o1, o2, o3, o4}
    Capacity = 2
    Null = Null
SPECIFICATION ResourcesSpec
SYMMETRY Symmetry
INVARIANTS
    ReleaseSafe
    ReleasedOnce
    WaitsRight
    SharedUntilLeft
