\* Two requests of any kind; state events are not handled.
SPECIFICATION Spec
CONSTANTS
  Clients = {c1, c2}
  Handlers = {}
  Consoles = {}
  Threads = {c1, c2}
  Readers = {r1}
  NoStream = NoStream
  StopTypes = {"signal", "command", "native"}
  MaxEvents = 1
  Ops = {"start", "stop", "restart", "kill", "enforce", "transfer", "command", "delete"}
  CrashDetectionEnabled = TRUE
  DetectCleanExitAsCrash = TRUE
INVARIANTS TypeOK PowerActionsExclusive StoppedMeansStopped DeletedNeverRuns
PROPERTY ImplementsPowerSync
SYMMETRY Symmetry
CHECK_DEADLOCK FALSE
