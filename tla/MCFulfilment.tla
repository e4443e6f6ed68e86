---------------------------- MODULE MCFulfilment ----------------------------
(***************************************************************************)
(* Small instances of Fulfilment.                                          *)
(***************************************************************************)
EXTENDS Fulfilment, TLC

Symmetry == Permutations(VendorOrders) \cup Permutations(Slots)
============================================================================
