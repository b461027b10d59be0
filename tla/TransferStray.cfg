SPECIFICATION Spec
CHECK_DEADLOCK FALSE
CONSTANTS
  Kinds = {"dump"}
  LastTable = 2
  MaxRows = 3
  BatchSize = 2
  PoolSize = 3
  MaxEdits = 1
  MaxFaults = 1
INVARIANTS
    KillSparesOthers
