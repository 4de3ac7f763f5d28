SPECIFICATION FairSpec
CONSTANTS
  ja = ja  jb = jb  jc = jc  jd = jd  s1 = s1
  None = None
  Execs = {jc}
  Sessions = {s1}
  SessionOf <- SessionMap
PROPERTY SessionResultReachesCaller
CHECK_DEADLOCK FALSE
