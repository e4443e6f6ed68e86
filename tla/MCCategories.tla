---------------------------- MODULE MCCategories ----------------------------
(***************************************************************************)
(* Small instances of Categories.                                          *)
(***************************************************************************)
EXTENDS Categories
============================================================================
