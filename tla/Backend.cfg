CONSTANTS
  p = p
  q = q
  Participant = {p, q}
  Self = p
  Reused = FALSE
  MaxRequests = 1
  Infinite = 3
  Step = 1
  FollowsRealTime = TRUE
  HasParent = FALSE
  RealTimeFactors = {100}
  WallSteps = {1}
  MaxTasks = 1
SPECIFICATION BackendSpec
INVARIANTS ReplyAnswersRequest SettingLasts AnswerIsComing
PROPERTIES ComputingHoldsClock
