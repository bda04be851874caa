CONSTANTS
    Callers = {main}
    Owner = main
    MaxThreads = 2
    Tasks = {p, c}
    parent = p
    child = c
    Follow <- FollowOne
    Block = 16
SPECIFICATION Spec
INVARIANT WaitedForAll
CHECK_DEADLOCK FALSE
