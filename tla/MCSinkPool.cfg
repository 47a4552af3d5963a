CONSTANTS
    p1 = p1
    p2 = p2
    l1 = l1
    l2 = l2
    Publishers <- MCPublishers
    Listeners <- MCListeners
    Capacity <- MCCapacity
    MaxMsgs <- MCMaxMsgs
SPECIFICATION FairSpec
INVARIANTS TypeOK NeverPanics
PROPERTIES ImplementsFeed PushReturns ListenersLeave
CHECK_DEADLOCK FALSE
