--------------------------- MODULE MCBatchedState ---------------------------
(* Instances of BatchedState for TLC.                                       *)
EXTENDS BatchedState

CONSTANTS w1, w2
=============================================================================
