\* Five chunks, three requests at a time, a window of three: refusals happen.
SPECIFICATION FairSpec
CONSTANTS
    Count = 5
    Parallelism = 3
    Slots = 3
    Faults = {"drop", "cancel", "expire"}
INVARIANTS
    TypeOK
    ActiveExact
    ResendsOnlyMissing
    NoEarlyComplete
    DoneMeansPublished
PROPERTIES
    TransferSettles
