SPECIFICATION Spec
CONSTANTS
  Clients = {c1, c2}
  c1 = c1
  c2 = c2
  Points = {f1}
  NoPoint = NoPoint
  Doses = {1}
  SeqLimit = 4
  ByteMod = 3
  MaxFrames = 2
  Plans <- MCPlans
INVARIANTS OneAnswer  RecordedOnce 
PROPERTIES NoFuelAfterRejection SalesStay ClearTakesItsSale
CHECK_DEADLOCK FALSE
