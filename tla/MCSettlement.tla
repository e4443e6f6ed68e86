---------------------------- MODULE MCSettlement ----------------------------
(***************************************************************************)
(* Small instances of Settlement.                                          *)
(***************************************************************************)
EXTENDS Settlement, TLC

Symmetry ==
    UNION {Permutations(S) :
             S \in {Creates, Retries, RefundRequests, Deliveries, Events}}
============================================================================
