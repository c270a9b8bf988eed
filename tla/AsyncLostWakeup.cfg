CONSTANTS
  k1 = k1
  f1 = f1
  v1 = v1
  NoValue = NoValue
  Key = {k1}
  Field = {f1}
  Value = {v1}
  MaxQueue = 2
  Destroyed = FALSE
SPECIFICATION FairSpec
PROPERTY EveryUpdateWritten
