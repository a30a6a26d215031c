CONSTANTS
    Elenum = 3
    MaxWorkers = 2
    MaxQpWr = 3
    QpCapacity = 2
    None = None
SPECIFICATION FairSpec
INVARIANTS
    OnePlace
    Outstanding
    CleanShutdown
PROPERTIES
    Contracts
    Handled
    ThreadsEnd
