SPECIFICATION Spec
CONSTANTS
  NDevices = 2
  MaxControllers = 2
  MaxUpdates = 1
  LogChoices = {TRUE, FALSE}
  CanFail = TRUE
INVARIANTS
  ServesItsDevice
  OneOperator
PROPERTIES
  StopsOwnThread
CHECK_DEADLOCK FALSE
