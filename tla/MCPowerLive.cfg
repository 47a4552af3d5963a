\* Liveness of power requests: two clients.  The system stops when a write to
\* a cleared stream kills the daemon.
SPECIFICATION FairSpec
CONSTANTS
  Clients = {c1, c2}
  Handlers = {}
  Consoles = {}
  Threads = {c1, c2}
  Readers = {r1}
  NoStream = NoStream
  StopTypes = {"signal", "command", "native"}
  MaxEvents = 1
  Ops = {"start", "stop", "restart", "kill", "delete"}
  CrashDetectionEnabled = FALSE
  DetectCleanExitAsCrash = TRUE
PROPERTIES RequestsFinish LockIsFreed
CHECK_DEADLOCK FALSE
