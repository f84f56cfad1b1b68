CONSTANTS
  MaxTasks = 2
SPECIFICATION FairSpec
INVARIANTS ExitedIsDrained
PROPERTIES TasksTaken PublishWorkerStops
CHECK_DEADLOCK FALSE
