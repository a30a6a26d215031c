CONSTANTS
    Threads = {t1, t2}
    Width = 4
    Length = 4
    Sizes = {1, 3}
    MaxOffset = 4
SPECIFICATION ShmSpec
INVARIANTS
    PositionInside
