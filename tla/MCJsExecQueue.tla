---------------------------- MODULE MCJsExecQueue ----------------------------
(***************************************************************************)
(* Instances of JsExecQueue for TLC: jc and jd run in one session.         *)
(***************************************************************************)
EXTENDS JsExecQueue

CONSTANTS ja, jb, jc, jd, s1

SessionMap == [e \in Execs |-> IF e \in {jc, jd} THEN s1 ELSE None]

=============================================================================
