CONSTANTS
    b = 16
    PageBits = 3
    Workers = {w1, w2}
    roots_limit = 3
SPECIFICATION SaveSpec
INVARIANTS SavedOrReturned
