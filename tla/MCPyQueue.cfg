SPECIFICATION FairSpec
CONSTANTS
  pa = pa  pc = pc  pd = pd  s1 = s1  f1 = f1
  None = None
  Execs = {pa, pc, pd}
  Filesystems = {f1}
  FsOf <- FsMap
  Sessions = {s1}
  SessionOf <- SessionMap
  Faults <- FaultMap
INVARIANTS Serialized NoLostWakeup NoStrayWorker
PROPERTIES AnsweredNeverStarts StartKillsNone EveryCallReturns
CHECK_DEADLOCK FALSE
