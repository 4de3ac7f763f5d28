SPECIFICATION FairSpec
CONSTANTS
  a = a
  b = b
  Bytes = {a, b}
  Payloads <- Contents
  ChunkSize = 2
  MaxTransfer = 3
  MaxCalls = 2
  MaxEdits = 1
  None = None
INVARIANTS Handshake Transfer
PROPERTIES ImplementsAtomicFile EveryRequestAnswered
CHECK_DEADLOCK FALSE
