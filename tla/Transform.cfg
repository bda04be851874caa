CONSTANTS
    b = 16
    PageBits = 2
    RowBits = 1
    GroupBits = 1
    ctp_threads = 2
    tg2Bits = 3
SPECIFICATION Spec
INVARIANTS ProductCyclic Tg2IsGraeffe EvalInterpolates HeldOnce NoChunkLost FieldExact SizesFit KernelsReadTheirFactors
