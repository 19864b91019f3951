\* The window is twice the parallelism, as in upload.h; nothing fails.
SPECIFICATION FairSpec
CONSTANTS
    Count = 5
    Parallelism = 2
    Slots = 4
    Faults = {}
PROPERTIES
    RetriedChunkAccepted
