SPECIFICATION Spec
CONSTANTS
  Jobs = {j1, j2}
  Workers = {w1, w2}
  Streams = {s1}
  NoJob = NoJob
  Faults = {"error", "database", "kill", "redis_down", "api_crash", "disconnect"}
  MaxWork = 2
SYMMETRY Symmetry
INVARIANTS
  StoredBeforeReported
  DoneIsLast
PROPERTIES
  StreamForward
  ImplementsLifecycle
CHECK_DEADLOCK FALSE
