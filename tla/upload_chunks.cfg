\* Ranged uploads of three chunks through a staging window of two.
SPECIFICATION Spec
CONSTANTS
    t1 = t1
    t2 = t2
    t3 = t3
    a1 = a1
    a2 = a2
    NoThread = NoThread
    NoAuth = NoAuth
    AuthMode = "pin"
    Threads = {t1, t2}
    Auths = {a1}
    MaxUploads = 2
    Sizes = {3}
    Hashes = {"none"}
    MaxChunks = 3
    ChunkUnits = 1
    BufferUnits = 1
    QueueDepth = 1
    ChunkSlots = 2
    MaxFiles = 2
    MaxNames = 2
    Kinds = {"prepare", "chunk", "fastchunk", "complete", "cancel"}
    Faults = {"contend", "drop", "length", "foreign"}
SYMMETRY ThreadSymmetry
INVARIANTS
    TypeOK
    StagingWindow
    ChunkCounters
    WriterOnChunk
    NoOrphanPart
    PublishedGenuine
PROPERTIES
    RefinesFileDrop
