CONSTANTS
  s1 = s1
  s2 = s2
  s3 = s3
  Selectable = {s1, s2, s3}
  Kind <- Kinds
  Pri <- Priorities
  Removable = {s1}
  MaxData = 2
  Failures = TRUE
  c1 = c1
  c2 = c2
  Quoted = {"q"}
  Malformed = {""}
  POP_BATCH_SIZE = 2
  MaxSent = 3
  MaxFailures = 2
SPECIFICATION AllSpec
CHECK_DEADLOCK FALSE
INVARIANTS
  AllTypeOK
  ReadyWhenData
  QueueAsPromised
PROPERTIES
  HighestFirst
  EventuallyServed
