----------------------------- MODULE MCMcpClient -----------------------------
(***************************************************************************)
(* Instances of McpClient for TLC: sa and ha are a stdio and an HTTP       *)
(* connect of one name, ba and bb are connects of the browser tools; ka is *)
(* a call for the first name, the other calls are of the browser tools.    *)
(***************************************************************************)
EXTENDS McpClient

CONSTANTS sa, ha, ba, bb, ka, kb, kc, x, browser

IdMap == [c \in Connects |-> IF c \in {ba, bb} THEN browser ELSE x]
TargetMap == [k \in Calls |-> IF k = ka THEN x ELSE browser]

=============================================================================
