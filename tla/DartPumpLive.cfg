SPECIFICATION ResetFairSpec
CONSTANTS
  MaxUartError = 1
  NozzleCount = 1
  CountersSettings = {FALSE}
  AutoStart = FALSE
  MaxOrders = 1
  MaxEvents = 2
  MaxFaults = 1
PROPERTIES
  StopIsHeard
  LossIsNoticed
