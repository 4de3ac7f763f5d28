--------------------------- MODULE MCWorkerBridge ---------------------------
(* Instances of WorkerBridge: payloads that are empty, as long as the data  *)
(* window, longer than it, and longer than a transfer may be.              *)
EXTENDS WorkerBridge

CONSTANTS a, b

Contents == {<<>>, <<a, a>>, <<a, a, b>>, <<b, b, b, b>>}
=============================================================================
