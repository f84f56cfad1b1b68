CONSTANTS
  c = c
  a = a
  b = b
  Child = c
  Local = {a, b}
  Repinning = {b}
  LateJoiners = {b}
  RunningValues = {TRUE, FALSE}
  Infinite = 6
  Step = 2
  RealTimeFactors = {100}
  MaxTasks = 1
SPECIFICATION CascadeFairSpec
INVARIANTS ChildFollowsRoot
PROPERTIES SleepersNotOvertaken LocalSleeperWakes
