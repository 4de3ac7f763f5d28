SPECIFICATION Spec
CONSTANTS
  sh1 = sh1  sh2 = sh2  ex1 = ex1  ex2 = ex2  ex3 = ex3
  sn1 = sn1  sn2 = sn2  rs1 = rs1  rs2 = rs2
  None = None
  Root = sh1
  Shells = {sh1, sh2}
  Execs = {ex1, ex2}
  Snaps = {sn1}
  Restores = {rs1}
  Fields = {"cwd", "env", "fs"}
  DefaultPersistState = FALSE
  CustomFs = FALSE
SYMMETRY Symmetry
INVARIANTS InstancesDisjoint Ownership PrivateExecState NoDirtyRead
PROPERTIES SnapshotFrozen ImplementsValues
CHECK_DEADLOCK FALSE
