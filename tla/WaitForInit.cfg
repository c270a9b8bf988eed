CONSTANTS
  Client = {"c", "d"}
  MaxLoads = 2
SPECIFICATION FairSpec
PROPERTY ConnectReturns
CHECK_DEADLOCK FALSE
