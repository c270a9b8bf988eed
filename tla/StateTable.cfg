CONSTANTS
  k1 = k1
  k2 = k2
  f1 = f1
  f2 = f2
  v1 = v1
  NoValue = NoValue
  Key = {k1, k2}
  Field = {f1, f2}
  Value = {v1}
  POP_BATCH_SIZE = 2
  MaxBatch = 1
  MaxPending = 3
  Api = {"pop", "pops"}
  EmptySets = FALSE
SPECIFICATION FairSpec
INVARIANTS
  NoCallLost
  NoKeyStranded
  BufferMatchesTable
PROPERTIES
  ImplementsKeyValueView
  EventuallyInSync
