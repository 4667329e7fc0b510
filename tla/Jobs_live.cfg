SPECIFICATION FairSpec
CONSTANTS
  Jobs = {j1, j2}
  Workers = {w1}
  Streams = {s1}
  NoJob = NoJob
  Faults = {"error", "timeout", "database", "kill", "redis_down", "disconnect"}
  MaxWork = 1
PROPERTIES
  JobsAndStreamsEnd
CHECK_DEADLOCK FALSE
