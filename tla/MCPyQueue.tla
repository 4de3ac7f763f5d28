------------------------------ MODULE MCPyQueue ------------------------------
(***************************************************************************)
(* Instances of PyQueue for TLC: one filesystem, pc and pd in one session. *)
(* Each fault is given to one call, so that the faults of the three meet   *)
(* in every order.                                                         *)
(***************************************************************************)
EXTENDS PyQueue

CONSTANTS pa, pc, pd, s1, f1

SessionMap == [e \in Execs |-> IF e \in {pc, pd} THEN s1 ELSE None]
FsMap == [e \in Execs |-> f1]
FaultMap == [e \in Execs |->
  IF e = pa THEN {"death", "bridge"}
  ELSE IF e = pc THEN {"deadline"} ELSE {"spawn", "violation"}]

=============================================================================
