SPECIFICATION MixedSpec
CONSTANTS
  MaxUartError = 1
  NozzleCount = 1
  CountersSettings = {TRUE, FALSE}
  AutoStart = FALSE
  MaxOrders = 2
  MaxEvents = 2
  MaxFaults = 1
INVARIANTS
  StopOvertakes
  PaymentAfterFill
PROPERTIES
  CompletedWasTaken
  StartsAsOrdered
