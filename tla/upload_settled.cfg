\* Every way to upload a file: clients take turns, cancel nothing and keep their leases.
SPECIFICATION FairSpec
CONSTANTS
    t1 = t1
    t2 = t2
    t3 = t3
    a1 = a1
    a2 = a2
    NoThread = NoThread
    NoAuth = NoAuth
    AuthMode = "pin"
    Threads = {t1, t2}
    Auths = {a1}
    MaxUploads = 2
    Sizes = {1, 3}
    Hashes = {"good", "bad"}
    MaxChunks = 2
    ChunkUnits = 2
    BufferUnits = 2
    QueueDepth = 1
    ChunkSlots = 2
    MaxFiles = 2
    MaxNames = 1
    Kinds = {"prepare", "stream", "direct", "chunk", "fastchunk", "complete", "status"}
    Faults = {"drop", "disk"}
INVARIANTS
    PublishedGenuine
    IntegrityVerified
    TailIsFree
    NoOrphanPart
    WriterHasFile
PROPERTIES
    SlotKeptWhileHashing
    EveryCallReturns
