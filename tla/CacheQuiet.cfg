CONSTANTS
    Clients = {t1}
    Loaders = {l1}
    Syncers = {s1}
    MaxChunks = 2
    MaxCached = 2
    SizeMask = 1
    SyncLimit = 1
    PurgeFactor = 5
    CacheOnly = TRUE
    Values = {0}
    Zero = 0
    HoldMax = 2
    QueueMax = 1
    Recycle = TRUE
SPECIFICATION Spec
INVARIANT NothingLeftToSync
CHECK_DEADLOCK FALSE
