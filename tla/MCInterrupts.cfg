SPECIFICATION Spec
CONSTANT OtherDevices <- MCOtherDevices
INVARIANTS
  TypeOK
  AckedBeforeReturn
  FirmwareMasksRestored
  VectorIdentifiesLine
  OnlyFaultsHaltAfterRemap
  NoStuckKeyboard
PROPERTIES
  EoiRetiresOwnRequest
  BootCompletes
  KeyboardServed
CHECK_DEADLOCK FALSE
