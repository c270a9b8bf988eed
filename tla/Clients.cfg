CONSTANTS
  k1 = k1
  k2 = k2
  f1 = f1
  v1 = v1
  NoValue = NoValue
  Key = {k1, k2}
  Field = {f1}
  Value = {v1}
  MaxEvents = 3
SPECIFICATION PartsFairSpec
INVARIANTS
  PartsTypeOK
  FollowsTable
  WaitersTruthful
  LevelsFollow
  CliTruthful
  KernelTruthful
PROPERTIES
  CatchesUp
  WaitsEnd
CHECK_DEADLOCK FALSE
