SPECIFICATION Spec
CONSTANTS
  FirmwareConfigs <- Configs
  TestResults <- PassedOrStuck
  MaxEvents = 3
INVARIANTS
  TypeOK
  OwnAnswers
  FlagsMatchKeyboard
  FailureLeavesPortOff
  UndisturbedMeansEnabled
PROPERTY
  KeysAreRead
CHECK_DEADLOCK FALSE
