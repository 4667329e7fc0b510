SPECIFICATION MCSpec
CONSTANTS
  Photos = {photo1, photo2, photo3}
  Calls = {c1, c2}
  None = None
  Jobs = {j1, j2}
  Complete = 1
  Others = {j2}
  Requests = {q1, q2}
  MaxFailures = 1
  Selections = {s1, s2}
  Workers = {w1, w2}
  Nothing = Nothing
INVARIANTS SettledSession PreviewIsTrue OneRunAtATime
PROPERTIES FollowedGoesForward ListCatchesUp ButtonsReturn
CHECK_DEADLOCK FALSE
