SPECIFICATION FairSpec
CONSTANTS
  NClients = 1
  NDisps = 1
  Kinds = {"Start"}
  Outcomes = {"NoError"}
  Filterings = {TRUE, FALSE}
  Levels = {1}
  MaxMsg = 2
  MaxSess = 1
  MaxVer = 1
  MaxTurns = 1
PROPERTIES
  
  DataDelivered
