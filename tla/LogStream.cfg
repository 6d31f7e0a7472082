SPECIFICATION Spec
CONSTANTS
  MaxLines = 4
  Window = 2
INVARIANTS
  TypeOK
  LogComplete
PROPERTIES
  InstanceLogReturns
  LogEndsUnlessSendFails
CHECK_DEADLOCK FALSE
