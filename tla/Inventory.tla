----------------------------- MODULE Inventory -----------------------------
(***************************************************************************)
(* InventoryService: the vendor's own stock movements.  Each handler reads *)
(* the Inventory row's id (which never changes) and then runs one short    *)
(* transaction that updates that row and appends its ledger entry; its     *)
(* only lock is that row's, so the transaction is one atomic action.       *)
(***************************************************************************)
EXTENDS Tables

\* Stock is moved as soon as no open checkout keeps the row locked.
Movable(r, v) ==
    /\ pc[r] = "new"
    /\ ~StockLocked(v)

\* Mutant: the movement is not booked.
MoveUnbooked(v, change, entry) ==
    /\ inventory' = [inventory EXCEPT ![v].onHand = @ + change]
    /\ UNCHANGED <<carts, cartItems, catalog, ledger, orders, locals>>

Move(v, change, entry) ==
    /\ inventory' = [inventory EXCEPT ![v].onHand = @ + change]
    /\ ledger' = [ledger EXCEPT ![v] = entry]
    /\ UNCHANGED <<carts, cartItems, catalog, orders, locals>>

\* Mutant: the column's width is not looked at.
NeverOverflows(v, change) == FALSE

\* An int4 column refuses a larger value: SQLSTATE 22003, a 500.
Overflows(v, change) == inventory[v].onHand + change > MaxInt

\* Mutant: the reserved units are forgotten.
AdjustmentNotNegative(v, delta) == inventory[v].onHand + delta >= 0

\* The WHERE clause of adjust.
AdjustmentAllowed(v, delta) ==
    /\ inventory[v].onHand + delta >= 0
    /\ inventory[v].onHand + delta >= inventory[v].reserved

\* findVariantInventory finds no such variant, or the delta is 0.
Refuse(r) ==
    /\ pc[r] = "new"
    /\ Fail(r, "4xx")

Restock(r) ==
    \/ Refuse(r)
    \/ \E v \in Variants, q \in 1..MaxQuantity :
          /\ Movable(r, v)
          /\ IF Overflows(v, q)
             THEN Fail(r, "5xx")
             ELSE /\ Move(v, q, [ledger[v] EXCEPT !.restock = @ + q])
                  /\ Finish(r, "2xx")

Adjust(r) ==
    \/ Refuse(r)
    \/ \E v \in Variants, delta \in (-MaxQuantity..MaxQuantity) \ {0} :
          /\ Movable(r, v)
          /\ \/ /\ Overflows(v, delta)
                /\ Fail(r, "5xx")
             \/ /\ ~Overflows(v, delta)
                /\ ~AdjustmentAllowed(v, delta)
                /\ Fail(r, "4xx")
             \/ /\ ~Overflows(v, delta)
                /\ AdjustmentAllowed(v, delta)
                /\ Move(v, delta, [ledger[v] EXCEPT !.adjustment = @ + delta])
                /\ Finish(r, "2xx")
============================================================================
