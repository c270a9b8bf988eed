CONSTANTS
  s1 = s1
  s2 = s2
  Source = {s1, s2}
  Elder = s1
  Before = 6
  SeqWidth = 3
  MAX_PUBLISHERS_COUNT = 1
  PruneSlack = 0
  Filters = {{s1, s2}}
  MaxIds = 3
  MaxSent = 3
  MaxSubscribers = 2
  MaxFaults = 1
  MaxNow = 1
SPECIFICATION Spec
CHECK_DEADLOCK FALSE
INVARIANTS
  TypeOK
  TrackingExact
  HandoverExact
