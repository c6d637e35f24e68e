--------------------------- MODULE MCRuntimeServer ---------------------------
(***************************************************************************)
(* Instance of RuntimeServer for TLC: a query over gRPC, one of the same   *)
(* priority over REST, and a lookup in the catalog.                        *)
(***************************************************************************)
EXTENDS RuntimeServer, TLC

CONSTANTS q1, q2, c1

MCPriority == q1 :> 1 @@ q2 :> 1
=============================================================================
