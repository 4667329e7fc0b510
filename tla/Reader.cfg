SPECIFICATION Spec
CONSTANTS
  Symbols <- MCSymbols
  Members <- MCMembers
  Declarations <- MCDeclarations
  Code <- MCCode
  Floor = 4
  Served <- MCServed
  Photos <- MCPhotos
  Settings <- MCSettings
  MaxPhotos = 2
  MaxOdd = 1
  Wide <- MCWide
  Hyphen <- MCHyphen
  Space <- MCSpace
  Removed <- MCRemoved
  Folding <- MCFolding
  Lookalikes <- MCLookalikes
  Spaced <- MCSpaced
  Registered <- MCRegistered
  Size = 8
  Stride = 4
  Conf = 2
INVARIANTS GrammarIsRight BeamsAreExact SearchIsComplete OrderOfViewsIsIrrelevant
  UnreviewedIsCertain AlignmentsAreMinimal ThresholdsCover BrowserAgrees MCTextsDenote
  MCBoxesComeBack MCVoteIsReproduced MCScoresAddUp EvaluationIsServed
CHECK_DEADLOCK FALSE
