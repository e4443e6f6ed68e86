------------------------------ MODULE Purchase ------------------------------
(***************************************************************************)
(* Carts, stock and checkout together: the concurrent requests of several  *)
(* customers and vendors over the shared tables.                           *)
(***************************************************************************)
EXTENDS Inventory, Cart, Checkout

\* ProductVariantsService.update, and the product, vendor and administrator
\* operations that make a variant available or not.
UpdateVariant(v) ==
    /\ \E row \in [available : BOOLEAN, currency : Currencies] :
          catalog' = [catalog EXCEPT ![v] = row]
    /\ UNCHANGED <<carts, cartItems, inventory, ledger, orders,
                   pc, answer, locals>>

\* A request that dies between two statements: the process stops, the
\* connection is lost, the interactive transaction exceeds its time limit, or
\* no free order number is found.  PostgreSQL rolls back what is not committed.
Interrupt(r) ==
    /\ pc[r] \notin {"new", "done"}
    /\ Fail(r, "5xx")

Step(r) ==
    \/ r \in AddRequests /\ AddItem(r)
    \/ r \in ItemRequests /\ ChangeItem(r)
    \/ r \in CheckoutRequests /\ CheckoutStep(r)
    \/ r \in StockRequests /\ (Restock(r) \/ Adjust(r))

Next ==
    \/ \E r \in Requests : Step(r) \/ Interrupt(r)
    \/ \E v \in Variants : UpdateVariant(v)

Spec == Init /\ [][Next]_vars

\* The Node event loop and PostgreSQL run every statement that is not waiting
\* for a lock; nothing obliges a customer to send a request.
Fairness == \A r \in Requests : WF_vars(pc[r] # "new" /\ Step(r))

FairSpec == Spec /\ Fairness
============================================================================
