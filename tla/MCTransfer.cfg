\* Two transfers of a server, one after the other; two failures, one cancellation.
SPECIFICATION FairSpec
CONSTANTS
    p1 = p1
    p2 = p2
    Pushes <- MCPushes
    Callers <- MCCallers
    Bodies = {"success", "failure"}
    MaxTries = 2
    Overlap = FALSE
    MaxFaults = 2
    MaxCancels = 1
INVARIANT TypeOK
PROPERTIES ImplementsHandover SourceUnblocked
