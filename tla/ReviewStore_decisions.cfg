SPECIFICATION Spec
CONSTANTS
  Reads = {r1}
  Views = {v1, v2}
  Plates = {p1, p2}
  NoPlate = NoPlate
  NoRead = NoRead
  Confirm = Confirm
  Requests = {t1, t2}
  Faults = TRUE
  DiskFull = TRUE
  MaxChunks = 2
SYMMETRY Symmetry
INVARIANTS
  LabelsAreTrue
  TablesAgree
  ExportedHasLabels
PROPERTIES
  NothingTakenBack
CHECK_DEADLOCK FALSE
