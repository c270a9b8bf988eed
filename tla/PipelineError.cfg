CONSTANTS
  k1 = k1
  k2 = k2
  f1 = f1
  v1 = v1
  NoValue = NoValue
  Key = {k1, k2}
  Field = {f1}
  Value = {v1}
  POP_BATCH_SIZE = 2
  MaxBatch = 1
  MaxPending = 2
  Api = {"pops"}
  EmptySets = FALSE
  COMMAND_MAX = 2
  FlushPubErrors = TRUE
SPECIFICATION PipeSpec
INVARIANT QuietPipelineLeavesNothing
