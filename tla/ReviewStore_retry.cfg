SPECIFICATION Spec
CONSTANTS
  Reads = {r1}
  Views = {v1}
  Plates = {p1}
  NoPlate = NoPlate
  NoRead = NoRead
  Confirm = Confirm
  Requests = {t1}
  Faults = TRUE
  DiskFull = FALSE
  MaxChunks = 3
SYMMETRY Symmetry
INVARIANTS
  EachCropOnce
CHECK_DEADLOCK FALSE
