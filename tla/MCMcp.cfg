SPECIFICATION FairSpec
CONSTANTS
  sa = sa  ha = ha  ba = ba  bb = bb  ka = ka  kb = kb  kc = kc
  x = x  browser = browser
  None = None
  Connects = {sa, ha, ba, bb}
  Calls = {ka, kb, kc}
  Ids = {x, browser}
  IdOf <- IdMap
  TargetOf <- TargetMap
  Http = {ha}
  BrowserConnects = {ba, bb}
  BrowserCalls = {kb, kc}
  BrowserId = browser
  MaxMcpServers = 1
  MaxMcpToolCalls = 2
INVARIANTS TypeOK PendingTimed NoMistakenReply NoOrphan OneBrowser
PROPERTY EverySettles
CHECK_DEADLOCK FALSE
