CONSTANTS
    Clients = {t1}
    Loaders = {l1}
    Syncers = {s1, s2}
    MaxChunks = 3
    MaxCached = 3
    SizeMask = 1
    SyncLimit = 1
    PurgeFactor = 5
    CacheOnly = TRUE
    Values = {0}
    Zero = 0
    HoldMax = 1
    QueueMax = 0
    Recycle = TRUE
SPECIFICATION HSpec
SYMMETRY Threads
INVARIANTS OneSync OnlyExcusedLeft
CHECK_DEADLOCK FALSE
