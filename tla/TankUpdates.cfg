SPECIFICATION LinkedSpec
CONSTANTS
 MaxPending=1
 MaxBreaks=0
 Slots = {1,2}
 Peers = {1,2}
 MaxFrames=1
 Setups <- TankDevices
INVARIANT
 TanksTold
CHECK_DEADLOCK FALSE
