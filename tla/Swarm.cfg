CONSTANTS
  a = a
  b = b
  Participant = {a, b}
  Loopers = {a}
  Spinners = {b}
  Periods = {1, 2}
  MayCrash = {a}
  ControlValues = {TRUE}
  MaxMessages = 2
  Infinite = 5
  Step = 2
  FollowsRealTime = FALSE
  HasParent = FALSE
  RealTimeFactors = {100}
  WallSteps = {}
  MaxTasks = 1
SPECIFICATION SwarmFairSpec
INVARIANTS WakesOnTime
PROPERTIES ImplementsLockStepClock PinHoldsClock SleeperWakes DeadSleeperCleared
