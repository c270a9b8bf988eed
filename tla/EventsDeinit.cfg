CONSTANTS
  s1 = s1
  Source = {s1}
  Elder = s1
  Before = 0
  SeqWidth = 3
  MAX_PUBLISHERS_COUNT = 1
  PruneSlack = 0
  Filters = {{s1}}
  MaxIds = 1
  MaxSent = 2
  MaxSubscribers = 2
  MaxFaults = 1
  MaxNow = 0
SPECIFICATION FairSpec
CHECK_DEADLOCK FALSE
PROPERTY
  DeinitReturns
