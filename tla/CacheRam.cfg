CONSTANTS
    Clients = {t1, t2}
    Loaders = {l1, l2}
    Syncers = {s1}
    MaxChunks = 2
    MaxCached = 2
    SizeMask = 1
    SyncLimit = 3
    PurgeFactor = 5
    CacheOnly = TRUE
    Values = {0, 1}
    Zero = 0
    HoldMax = 1
    QueueMax = 1
    Recycle = TRUE
SPECIFICATION Spec
SYMMETRY Threads
INVARIANTS TypeOK OneHolder PointerValid HeldWord OneLoad
    IdsKept SlotForLoad
PROPERTIES HeldWordStable ImplementsStore
CHECK_DEADLOCK FALSE
