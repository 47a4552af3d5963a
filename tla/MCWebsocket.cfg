CONSTANTS
    Conns = {c1}
    Threads = {t1, t2}
    Limit = 1
    MaxEpoch = 1
SPECIFICATION WebsocketFairSpec
INVARIANTS WebsocketTypeOK RevokedIsCutOff
PROPERTIES ShutOut ListenersEnd
CHECK_DEADLOCK FALSE
