--------------------------- MODULE MCModelEditing ---------------------------
(* Instances of ModelEditing for TLC.                                       *)
EXTENDS ModelEditing

CONSTANTS none, good, other, copy, modelCopy, wrong, broken, a, b, x, y

\* A result for x is late once the profile is that of another query.
QueryColumns == [q \in Queries |-> CASE q = good -> {x, y} [] q \in {none, wrong} -> {} [] OTHER -> {y}]
=============================================================================
