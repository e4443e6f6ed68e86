-------------------------- MODULE MCProductImages --------------------------
(***************************************************************************)
(* Small instances of ProductImages.                                       *)
(***************************************************************************)
EXTENDS ProductImages, TLC

Symmetry == Permutations(Uploads) \cup Permutations(Removals)
                \cup Permutations(Streams)
============================================================================
