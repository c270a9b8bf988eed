CONSTANTS
  Thread = {"t", "u"}
  Key = {"", "asic0"}
  EmptyKey = ""
  NoThread = "none"
  MaxParses = 2
  k1 = k1
  k2 = k2
  f1 = f1
  v1 = v1
  Writer = {"w", "p"}
  Pipe = {"p"}
  ConfigRow = {r1, r2}
  ConfigField = {"NULL", "a"}
  ConfigValue = {"v"}
  NoValue = ""
  NullField = "NULL"
  BatchSize = 1
  MaxCalls = 2
  Client = {"c", "d"}
  Item = {"i", "j"}
  StaticItem = {"i"}
  MaxProfileCalls = 3
  App = {"a", "b"}
  MaxChanges = 4
  Oid = {"o", "n"}
  MaxNameChanges = 1
SPECIFICATION MCSpec
SYMMETRY Symmetry
INVARIANTS
  AllTypeOK
  ConfigConsistent
  ConfigDBConsistent
  ReadsTrue
  WarmStartsCounted
  ConversionsExact
  QuietPipelineLeavesNothing
PROPERTY CallsExact
CHECK_DEADLOCK FALSE
