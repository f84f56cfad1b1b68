CONSTANTS
  p1 = p1
  p2 = p2
  Participant = {p1, p2}
  Infinite = 5
  Step = 2
  FollowsRealTime = FALSE
  HasParent = TRUE
  RealTimeFactors = {100}
  WallSteps = {1}
  MaxTasks = 1
SPECIFICATION Spec
SYMMETRY Symmetry
PROPERTIES AnnouncesSafeTimes
