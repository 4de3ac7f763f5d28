---------------------------- MODULE MCAgentMemory ----------------------------
(***************************************************************************)
(* Instances of AgentMemory for TLC: two entries of one file and one of    *)
(* another scope and type of agent, in a map that has room for two.        *)
(***************************************************************************)
EXTENDS AgentMemory

Id(s, t, k) == [scope |-> s, type |-> t, key |-> k]
IdSet   == {Id("user", "planner", "k1"), Id("user", "planner", "k2"), Id("project", "coder", "k1")}
ScopeOrder == <<"user", "project">>
FileMap == [t \in {"planner", "coder"} |-> t]

\* Bound: what follows the save of a memory that was loaded in part is not explored.
Unspoiled == ~spoiled
=============================================================================
