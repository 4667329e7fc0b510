SPECIFICATION Spec
CONSTANTS
  Reads = {r1, r2}
  Views = {v1}
  Plates = {p1, p2}
  NoPlate = NoPlate
  NoRead = NoRead
  Confirm = Confirm
  Requests = {t1}
  Faults = FALSE
  DiskFull = FALSE
  MaxChunks = 4
SYMMETRY Symmetry
INVARIANTS
  Validates
  StoredViewsHaveCrops
CHECK_DEADLOCK FALSE
