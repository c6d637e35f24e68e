-------------------------- MODULE MCPriorityWorker --------------------------
(* Instances of PriorityWorker for TLC: three jobs, two of them of equal    *)
(* priority and one above them.                                             *)
EXTENDS PriorityWorker

CONSTANTS j1, j2, j3

MCPriority == [j \in Jobs |-> IF j = j3 THEN 2 ELSE 1]
=============================================================================
