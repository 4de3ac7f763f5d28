SPECIFICATION Spec
CONSTANTS
  a = a
  b = b
  Bytes = {a, b}
  Payloads <- Contents
  ChunkSize = 2
  MaxTransfer = 3
  MaxCalls = 2
  MaxEdits = 1
  None = None
INVARIANT WokenWithAnswer
CHECK_DEADLOCK FALSE
