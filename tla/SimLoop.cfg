CONSTANTS
  Period = 2
  StreamPeriod = 3
  Starts = {0, 4}
  Horizon = 9
  MaxJumps = 1
SPECIFICATION Spec
INVARIANTS TickBudget NoDrift StreamsKeepUp DynamicsFollowClock
CHECK_DEADLOCK FALSE
