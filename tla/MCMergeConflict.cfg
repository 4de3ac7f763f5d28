SPECIFICATION Spec
CONSTANTS
  Agents = {a1}
  Ops = {o1}
  Paths <- MCPaths
  Above <- MCAbove
  Scaffold = {"bin"}
  InitialFiles = {"f"}
  InitialDirs = {"bin", "d"}
  Binary = {o1}
  Replaced = Replaced
  MaxSubAgents = 1
  Targets = {"d", "f"}
  Kinds <- MCKinds
  NoAgent = NoAgent
  NoPath = NoPath
INVARIANT ConflictMeansBothModified
CHECK_DEADLOCK FALSE
