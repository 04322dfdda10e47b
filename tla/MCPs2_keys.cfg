SPECIFICATION Spec
CONSTANTS
  FirmwareConfigs <- Configs
  TestResults <- Passed
  MaxEvents = 1
INVARIANT
  InitialisedMeansEnabled
CHECK_DEADLOCK FALSE
