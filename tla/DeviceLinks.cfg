SPECIFICATION LinkedFairSpec
CONSTANTS
 MaxPending=2
 MaxBreaks=1
 Slots = {1,2}
 Peers = {1,2}
 MaxFrames=1
 Setups <- Devices
INVARIANTS
 
 
 
 PricesHonoured
PROPERTY
 LoadCompletes
CHECK_DEADLOCK FALSE
