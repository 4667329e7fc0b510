SPECIFICATION Spec
CONSTANTS
  Files = {f1, f2}
  Requests = {q1, q2}
  MaxPhotos = 2
  NoView = NoView

INVARIANTS PageIsConsistent
PROPERTIES ReadingEnds
CHECK_DEADLOCK FALSE
