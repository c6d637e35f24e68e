------------------------------- MODULE MCHeap -------------------------------
(* Instances of Heap for TLC.  Six items make a heap of three levels.       *)
EXTENDS Heap, TLC

CONSTANTS i1, i2, i3, i4, i5, i6

Perms == Permutations(Ids)
=============================================================================
