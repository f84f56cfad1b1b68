CONSTANTS
  p1 = p1
  p2 = p2
  Participant = {p1, p2}
  Infinite = 6
  Step = 2
  FollowsRealTime = FALSE
  HasParent = FALSE
  RealTimeFactors = {0, 100}
  WallSteps = {1}
  MaxTasks = 2
SPECIFICATION FairSpec
INVARIANTS NoGrantOwed NoMissedAdvance ClockStreamInOrder
PROPERTIES NoOvertake WaitingClockMoves
