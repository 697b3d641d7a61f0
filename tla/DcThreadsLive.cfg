SPECIFICATION EnabledFairSpec
CONSTANTS
  NDevices = 1
  MaxControllers = 3
  MaxUpdates = 2
  LogChoices = {TRUE, FALSE}
  CanFail = FALSE
PROPERTIES
  ChangeApplied
CHECK_DEADLOCK FALSE
