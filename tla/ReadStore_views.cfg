SPECIFICATION Spec
CONSTANTS
  Files = {f1, f2}
  Requests = {q1, q2}
  MaxPhotos = 2
  NoView = NoView

INVARIANTS ViewIsThePhoto

CHECK_DEADLOCK FALSE
