\* The second transfer begins while the target still handles the first.
SPECIFICATION Spec
CONSTANTS
    p1 = p1
    p2 = p2
    Pushes <- MCPushes
    Callers <- MCCallers
    Bodies = {"success", "failure"}
    MaxTries = 1
    Overlap = TRUE
    MaxFaults = 2
    MaxCancels = 1
INVARIANT OnlyFailedDeleted
