\* One client, one event handler that may become a crash handler, console lines.
SPECIFICATION Spec
CONSTANTS
  Clients = {c1}
  Handlers = {h1}
  Consoles = {o1}
  Threads = {c1, h1, o1}
  Readers = {r1}
  NoStream = NoStream
  StopTypes = {"signal"}
  MaxEvents = 1
  Ops = {"start", "kill", "delete"}
  CrashDetectionEnabled = TRUE
  DetectCleanExitAsCrash = FALSE
PROPERTY ImplementsPowerSync
SYMMETRY Symmetry
CHECK_DEADLOCK FALSE
