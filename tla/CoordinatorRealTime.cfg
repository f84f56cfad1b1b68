CONSTANTS
  p1 = p1
  p2 = p2
  Participant = {p1, p2}
  Infinite = 3
  Step = 1
  FollowsRealTime = TRUE
  HasParent = FALSE
  RealTimeFactors = {0, 50, 100}
  WallSteps = {1}
  MaxTasks = 1
SPECIFICATION FairSpec
INVARIANTS TypeOK SpeedLimit
PROPERTIES NonFollowerHoldsClock FollowersDoNotHoldClock
