CONSTANTS
    Clients = {t1}
    Loaders = {l1, l2}
    Syncers = {s1}
    MaxChunks = 3
    MaxCached = 1
    SizeMask = 1
    SyncLimit = 1
    PurgeFactor = 1
    CacheOnly = FALSE
    Values = {0, 1}
    Zero = 0
    HoldMax = 1
    QueueMax = 2
    Recycle = FALSE
SPECIFICATION Spec
SYMMETRY Threads
INVARIANTS PointerValid SlotOwned ToSyncQueued
PROPERTIES HeldWordStable ImplementsStore
CHECK_DEADLOCK FALSE
