CONSTANTS
    Clients = {t1, t2}
    Loaders = {l1, l2}
    Syncers = {s1}
    MaxChunks = 2
    MaxCached = 2
    SizeMask = 1
    SyncLimit = 1
    PurgeFactor = 5
    CacheOnly = TRUE
    Values = {0}
    Zero = 0
    HoldMax = 1
    QueueMax = 0
    Recycle = TRUE
SPECIFICATION FairSpec
INVARIANT SyncCountExact
PROPERTIES LoadsEnd SyncsEnd FetchServed
CHECK_DEADLOCK FALSE
