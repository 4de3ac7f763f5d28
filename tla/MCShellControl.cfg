CONSTANTS
  MaxDepth = 3
  MaxLevels = 2
  MaxLeaked = 1
  Constructs = {"if", "case", "group", "for", "while", "until", "subshell", "function", "eval", "source", "subst", "userScript"}
  Faults = {"posixFatal", "limit", "nounset", "arithmetic"}
  Signals = {"EXIT", "ERR"}
SPECIFICATION Spec
INVARIANTS CountersCount ErrexitOutsideConditions
PROPERTIES JumpLands LeavesAsFound
