SPECIFICATION Spec
CONSTANT OtherDevices <- MCOtherDevices
INVARIANT ExceptionReportsAreReal
CHECK_DEADLOCK FALSE
