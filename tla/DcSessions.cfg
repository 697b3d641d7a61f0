SPECIFICATION LateFairSpec
CONSTANTS
  NControllers = 1
  NSlots = 2
  NConns = 3
INVARIANTS
  OneClientPerSlot
  NoSlotLeak
  ReaderWithinClient
PROPERTIES
  ClientThreadEnds
  SettledStopCompletes
CHECK_DEADLOCK FALSE
