------------------------- MODULE MCCatalogMigration -------------------------
(***************************************************************************)
(* Instances of CatalogMigration for TLC: two names, one of them in two    *)
(* spellings.                                                              *)
(***************************************************************************)
EXTENDS CatalogMigration, TLC

MCNames == {"s", "S", "t"}
MCLower == [n \in MCNames |-> IF n = "S" THEN "s" ELSE n]
MCProps == {"p", "q"}
MCForeign == {"x", "y"}
Symmetry == Permutations(Requests)
=============================================================================
