CONSTANTS
  Commands <- MCCommands
  Setpoints = {"up", "attitude"}
  LossTime = 1
  StatusPeriod = 2
  LandTime = 2
  SpoolupTime = 1
  RampTime = 4
  LiftOff = 1
  FreshTime = 1
SPECIFICATION FlightFairSpec
INVARIANTS OffboardFollowsSetpoints ControlModeIsCurrent
PROPERTIES FlightEndsOnGround TakesOff
