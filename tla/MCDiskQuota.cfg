CONSTANTS
    w1 = w1
    w2 = w2
    f1 = f1
    f2 = f2
    MaxInt64 = 100
    Workers <- MCWorkers
    Files <- MCFiles
    Limits <- MCLimits
    MaxSize = 2
    MaxOps = 3
SPECIFICATION LedgerSpec
INVARIANT TypeOK
PROPERTIES LedgerKept WalkRepairs
SYMMETRY Symmetry
CHECK_DEADLOCK FALSE
