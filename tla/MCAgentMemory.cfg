SPECIFICATION Spec
CONSTANTS
  Instances = {1, 2}
  Scopes <- ScopeOrder
  Ids <- IdSet
  FileOf <- FileMap
  MaxEntries = 2
  Faults = {"read", "write", "crash", "override", "early sync"}
  MaxTime = 2
INVARIANTS TypeOK PromisesKept Recalled
PROPERTIES NewerWins
CONSTRAINT Unspoiled
CHECK_DEADLOCK FALSE
