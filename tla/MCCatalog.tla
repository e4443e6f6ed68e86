----------------------------- MODULE MCCatalog -----------------------------
(***************************************************************************)
(* Small instances of Catalog.                                             *)
(***************************************************************************)
EXTENDS Catalog, TLC

Symmetry == Permutations(NewProducts) \cup Permutations(NewVariants)
                \cup Permutations(Slugs) \cup Permutations(Skus)
============================================================================
