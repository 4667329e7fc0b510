SPECIFICATION MCSpec
CONSTANTS
  Boxes <- MCBoxes
  Overlap <- MCOverlap
  Threshold = 1
  MaxMisses = 1
  MaxDets = 2
  MaxFrames = 4
  Commands = {p1, p2}
  MaxStarts = 3
  MaxLabels = 1
  Jobs = {"train", "sweep"}
  Epochs = 3
  EpochSize = 2
  TuneEpochs = 2
  Scores = {0, 1, 2}
  Trials = 2
  Seeds = {1, 2}
  Size = 2
  Versions = {1, 2}
  Evaluations = {e1, e2}
  MaxRuns = 3
  None = None
  Plated <- MCPlated
  RowLists <- MCRowLists
  Broken = Broken
  Damaged = {empty, toPillow, toOpenCV, cut}
  PillowRejects = {empty, toPillow}
  OpenCvRejects = {empty, toOpenCV}
INVARIANTS TracksAreKept NoPairPassedOver ModelsAgree ReturnsTheBest FinishedSetFits ResultsAreReproducible FolderIsUsable MeasurementsAreNamed
SYMMETRY MCSymmetry
CHECK_DEADLOCK FALSE
