SPECIFICATION FairSpec
CONSTANTS
    MaxRow = 3
    Groups = {1, 2}
    Max = 1
    Chunk = 1
    Threads = {t1, t2}
    MaxTries = 2
    MaxFaults = 2
INVARIANTS TypeOK NothingLost AtMostOnce
PROPERTY Drained
