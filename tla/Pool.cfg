CONSTANTS
    Callers = {main, other}
    Owner = main
    MaxThreads = 2
    Tasks = {p, c, t1}
    parent = p
    child = c
    Follow <- FollowOne
    Block = 16
SPECIFICATION FairSpec
INVARIANTS TypeOK WaitedDone RunBlocks
PROPERTIES ImplementsBag TasksDone WaitEnds
CHECK_DEADLOCK FALSE
