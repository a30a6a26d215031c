CONSTANTS
    Threads = {t1, t2}
    Width = 4
    Length = 3
    Sizes = {1, 2}
    MaxOffset = 3
SPECIFICATION ShmSpec
INVARIANTS
    AccessInside
