--------------------------- MODULE MCShellSession ---------------------------
(***************************************************************************)
(* Instances of ShellSession for TLC.                                      *)
(***************************************************************************)
EXTENDS ShellSession, TLC

CONSTANTS sh1, sh2, ex1, ex2, ex3, sn1, sn2, rs1, rs2

Symmetry == Permutations(Execs) \cup Permutations(Restores)

=============================================================================
