SPECIFICATION Spec
CONSTANTS
  Instances = {1, 2}
  Scopes <- ScopeOrder
  Ids <- IdSet
  FileOf <- FileMap
  MaxEntries = 2
  Faults = {"override"}
  MaxTime = 2
INVARIANT GoodDataKept
CHECK_DEADLOCK FALSE
