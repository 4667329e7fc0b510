SPECIFICATION Spec
CONSTANTS
  Jobs = {j1}
  Workers = {w1}
  Streams = {s1}
  NoJob = NoJob
  Faults = {"lost_reply"}
  MaxWork = 1

INVARIANTS DoneIsLast

CHECK_DEADLOCK FALSE
