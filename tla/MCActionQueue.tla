--------------------------- MODULE MCActionQueue ---------------------------
(* Instances of ActionQueue for TLC: three entities, two priority levels.    *)
EXTENDS ActionQueue

CONSTANTS e1, e2, e3
=============================================================================
