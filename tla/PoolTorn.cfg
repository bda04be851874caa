CONSTANTS
    Callers = {main}
    Owner = main
    MaxThreads = 2
    Tasks = {p, t1, t2}
    parent = p
    child = c
    Follow <- FollowNone
    Block = 2
SPECIFICATION Spec
INVARIANT RunBlocks
CHECK_DEADLOCK FALSE
