CONSTANTS
  Commands <- MCCommands
  LossTime = 1
  StatusPeriod = 1
SPECIFICATION CommandingFairSpec
PROPERTIES SuccessMeansDone CallsReturn OffboardResumes
