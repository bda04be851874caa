CONSTANTS
    Clients = {t1}
    Loaders = {l1, l2}
    Syncers = {s1}
    MaxChunks = 2
    MaxCached = 1
    SizeMask = 1
    SyncLimit = 1
    PurgeFactor = 5
    CacheOnly = FALSE
    Values = {0}
    Zero = 0
    HoldMax = 1
    QueueMax = 1
    Recycle = TRUE
SPECIFICATION Spec
INVARIANT InUseMarked
CHECK_DEADLOCK FALSE
