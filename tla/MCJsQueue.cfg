SPECIFICATION FairSpec
CONSTANTS
  ja = ja  jb = jb  jc = jc  jd = jd  s1 = s1
  None = None
  Execs = {ja, jb, jc}
  Sessions = {s1}
  SessionOf <- SessionMap
INVARIANTS NoLostWakeup Serialized NoStrayWorker
PROPERTIES ImplementsTurns EveryCallAnswered
CHECK_DEADLOCK FALSE
