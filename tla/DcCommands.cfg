SPECIFICATION TwoModesSpec
CONSTANTS
  NClients = 2
  NDisps = 1
  Kinds = {"Start", "Stop", "Reset"}
  Outcomes = {"NoError", "Busy"}
  Filterings = {TRUE, FALSE}
  Levels = {1, 2}
  MaxMsg = 2
  MaxSess = 2
  MaxVer = 0
  MaxTurns = 0
INVARIANTS
  LoginFirst
  NoSilentLoss
PROPERTIES
  ServiceSpec
