CONSTANTS
  k1 = k1
  k2 = k2
  f1 = f1
  v1 = v1
  NoValue = NoValue
  Key = {k1, k2}
  Field = {f1}
  Value = {v1}
  POP_BATCH_SIZE = 2
  MaxQueue = 3
  m_modifyRedis = TRUE
  Unsupported = TRUE
SPECIFICATION Spec
SYMMETRY KeySymmetry
INVARIANTS
  TableFollowsQueue
  OperationsAnnounced
PROPERTY ImplementsFifo
