--------------------------- MODULE MCAgentOverlays ---------------------------
(* Instances of AgentOverlays for TLC: the standard directory bin, and a file *)
(* f in a directory d.                                                        *)
EXTENDS AgentOverlays

MCPaths  == {"bin", "d", "f"}
MCAbove  == [p \in MCPaths |-> IF p = "f" THEN {"d"} ELSE {}]
MCKinds  == AllKinds
=============================================================================
