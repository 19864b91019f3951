\* A cancelled stream whose handler waits for the writer.
SPECIFICATION Spec
CONSTANTS
    t1 = t1
    t2 = t2
    t3 = t3
    a1 = a1
    a2 = a2
    NoThread = NoThread
    NoAuth = NoAuth
    AuthMode = "pin"
    Threads = {t1, t2}
    Auths = {a1}
    MaxUploads = 2
    Sizes = {2}
    Hashes = {"none"}
    MaxChunks = 2
    ChunkUnits = 1
    BufferUnits = 1
    QueueDepth = 1
    ChunkSlots = 2
    MaxFiles = 2
    MaxNames = 2
    Kinds = {"prepare", "stream", "cancel"}
    Faults = {"drop"}
SYMMETRY ThreadSymmetry
INVARIANTS
    PublishedGenuine
