CONSTANTS
  k1 = k1
  k2 = k2
  f1 = f1
  f2 = f2
  v1 = v1
  NoValue = NoValue
  NullField = NullField
  Key = {k1, k2}
  Field = {f1, f2}
  Value = {v1}
  POP_BATCH_SIZE = 2
  MaxBatch = 2
  MaxPending = 2
  Api = {"pop", "pops"}
  EmptySets = TRUE
  ColonDatabase = TRUE
SPECIFICATION TempSpec
SYMMETRY KeySymmetry
INVARIANTS
  ViewSwitched
  QueueEmptyOnTimeout
PROPERTY MinimalSwitch
