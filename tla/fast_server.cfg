\* The listener, two connection slots and two descriptors more.
SPECIFICATION FairSpec
CONSTANTS
    Limit = 2
    MaxFd = 5
INVARIANTS
    TypeOK
    WorkersCounted
    OwnDescriptor
    FreedWhenUnused
PROPERTIES
    StopReturns
