CONSTANTS
  c1 = c1
  q1 = q1
  q2 = q2
  Client = {c1}
  Consumer = {q1, q2}
  NoHandler = NoHandler
  MQ_WATERMARK = 1
  MQ_MAX_RETRY = 1
  m_popBatchSize = 1
  MaxOps = 3
  MaxBatch = 2
  MaxFaults = 1
  MaxRequests = 3
  MaxTimeouts = 2
  MaxServers = 2
  k1 = k1
  f1 = f1
  f2 = f2
  v1 = v1
  NoValue = NoValue
  Key = {k1}
  Field = {f1, f2}
  Value = {v1}
  MaxQueue = 2
SPECIFICATION AllSpec
CHECK_DEADLOCK FALSE
INVARIANTS
  AllTypeOK
  OperationsInOrder
  OneToOne
PROPERTIES
  ServerStops
  EventuallyTaken
