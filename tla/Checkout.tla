------------------------------ MODULE Checkout ------------------------------
(***************************************************************************)
(* CheckoutService.checkout: two reads outside any transaction, then one   *)
(* transaction that converts the cart, reserves the stock of every line    *)
(* with one conditional UPDATE each and inserts the orders.                *)
(***************************************************************************)
EXTENDS Tables

\* Both queries of findFirst({ include: items }).  A cart converted between
\* them is refused later, by ConvertCart.
LoadCart(r) ==
    /\ pc[r] = "new"
    /\ \E c \in FindActiveCart(UserOf[r]) :
          IF c = NoRow \/ ItemsOf(c) = {}
          THEN Fail(r, "4xx")
          ELSE /\ cartRef' = [cartRef EXCEPT ![r] = c]
               /\ lines' = [lines EXCEPT ![r] =
                    {[variant |-> cartItems[i].variant,
                      quantity |-> cartItems[i].quantity,
                      currency |-> cartItems[i].currency] : i \in ItemsOf(c)}]
               /\ Goto(r, "cart read")
               /\ UNCHANGED <<tables, itemRef, taken, current>>

\* Mutant: the currency is not compared.
LineAvailable(r, l) ==
    /\ Available(l.variant)
    /\ inventory[l.variant].onHand - inventory[l.variant].reserved >= l.quantity

\* The check of one line in validateAndLoadLines.
LineValid(r, l) ==
    /\ Available(l.variant)
    /\ catalog[l.variant].currency = carts[cartRef[r]].currency
    /\ inventory[l.variant].onHand - inventory[l.variant].reserved >= l.quantity

\* validateAndLoadLines: from here on a line holds the variant as just read.
LoadLines(r) ==
    /\ pc[r] = "cart read"
    /\ IF \A l \in lines[r] : LineValid(r, l)
       THEN /\ lines' = [lines EXCEPT ![r] =
                 {[l EXCEPT !.currency = catalog[l.variant].currency] :
                    l \in lines[r]}]
            /\ Goto(r, "lines loaded")
            /\ UNCHANGED <<tables, cartRef, itemRef, taken, current>>
       ELSE Fail(r, "4xx")

\* The lines are reserved in the order of the items array, which no ORDER BY
\* fixes: the next one is any that is left, and it is chosen before its row is
\* waited for.
ChooseLine(r, left) ==
    IF left = {} THEN current' = [current EXCEPT ![r] = NoRow]
    ELSE \E l \in left : current' = [current EXCEPT ![r] = l]

\* Mutant: the conversion is not conditional.
CartNotChecked(r) == TRUE

\* The WHERE clause of the cart's updateMany.
CartStillActive(r) == carts[cartRef[r]].status = "ACTIVE"

ConvertCart(r) ==
    /\ pc[r] = "lines loaded"
    /\ ~CartLocked(cartRef[r])
    /\ IF CartStillActive(r)
       THEN /\ Goto(r, "reserving")
            /\ ChooseLine(r, lines[r])
            /\ UNCHANGED <<tables, cartRef, itemRef, lines, taken>>
       ELSE Fail(r, "4xx")

\* Mutant: the check of validateAndLoadLines is trusted.
StockNotChecked(l) == TRUE

\* The WHERE clause of the reservation UPDATE, on the row as last committed.
EnoughStock(l) ==
    inventory[l.variant].onHand - inventory[l.variant].reserved >= l.quantity

\* Mutant: the UPDATE is sent outside the transaction and commits at once.
ReserveStockOutside(r) ==
    LET l == current[r]
    IN  /\ pc[r] = "reserving"
        /\ l # NoRow
        /\ ~StockLocked(l.variant)
        /\ IF EnoughStock(l)
           THEN /\ taken' = [taken EXCEPT ![r] = @ \cup {l}]
                /\ inventory' = [inventory EXCEPT
                      ![l.variant].reserved = @ + l.quantity]
                /\ ChooseLine(r, lines[r] \ (taken[r] \cup {l}))
                /\ UNCHANGED <<carts, cartItems, catalog, ledger, orders,
                               pc, answer, cartRef, itemRef, lines>>
           ELSE Fail(r, "4xx")

\* Mutant: a line that is out of stock is tried again instead of refused.
ReserveStockOrRetry(r) ==
    LET l == current[r]
    IN  /\ pc[r] = "reserving"
        /\ l # NoRow
        /\ ~StockLocked(l.variant)
        /\ EnoughStock(l)
        /\ taken' = [taken EXCEPT ![r] = @ \cup {l}]
        /\ ChooseLine(r, lines[r] \ (taken[r] \cup {l}))
        /\ UNCHANGED <<tables, pc, answer, cartRef, itemRef, lines>>

ReserveStock(r) ==
    LET l == current[r]
    IN  /\ pc[r] = "reserving"
        /\ l # NoRow
        /\ ~StockLocked(l.variant)
        /\ IF EnoughStock(l)
           THEN /\ taken' = [taken EXCEPT ![r] = @ \cup {l}]
                /\ ChooseLine(r, lines[r] \ (taken[r] \cup {l}))
                /\ UNCHANGED <<tables, pc, answer, cartRef, itemRef, lines>>
           ELSE Fail(r, "4xx")

\* Mutant: every vendor order gets all the lines.
GroupTogether(ls) == [w \in Vendors |-> ls]

\* groupedByVendor; a vendor without a line gets no VendorOrder.
GroupByVendor(ls) ==
    [w \in Vendors |-> {l \in ls : VendorOf[l.variant] = w}]

\* The units that the lines of ls take of variant v.  A cart holds a variant
\* once, so there is at most one such line.
Units(ls, v) ==
    IF \E l \in ls : l.variant = v
    THEN (CHOOSE l \in ls : l.variant = v).quantity
    ELSE 0

\* The inserts, and the commit that publishes them with the conversion and the
\* reservations.  The customer may not receive the answer of a commit.
\* (The order's cart is not a column; it is kept here to state properties.)
PlaceOrder(r) ==
    LET c == cartRef[r]
    IN  /\ pc[r] = "reserving"
        /\ taken[r] = lines[r]
        /\ carts' = [carts EXCEPT ![c].status = "CONVERTED"]
        /\ inventory' = [v \in Variants |->
              [inventory[v] EXCEPT !.reserved = @ + Units(taken[r], v)]]
        /\ ledger' = [v \in Variants |->
              [ledger[v] EXCEPT !.reservation = @ + Units(lines[r], v)]]
        /\ orders' = [orders EXCEPT ![r] =
              [user |-> UserOf[r], cart |-> c, currency |-> carts[c].currency,
               vendorOrders |-> GroupByVendor(lines[r])]]
        /\ \E a \in {"2xx", "5xx"} : Finish(r, a)
        /\ UNCHANGED <<cartItems, catalog, locals>>

\* Another checkout has inserted the order number since it was counted: the
\* unique index refuses the insert, and the transaction rolls back.
NumberCollides(r) ==
    /\ pc[r] = "reserving"
    /\ taken[r] = lines[r]
    /\ Fail(r, "4xx")

\* Checkout r waits for a stock row that checkout s keeps locked.
WaitsFor(r, s) ==
    /\ r \in InTransaction
    /\ current[r] # NoRow
    /\ LocksStock(s, current[r].variant)

\* A row has one locker, so S is a set of cycles of the waits-for graph.
Deadlocked(r) ==
    \E S \in SUBSET InTransaction :
        /\ r \in S
        /\ \A s \in S : (\E t \in S : WaitsFor(s, t)) /\ (\E t \in S : WaitsFor(t, s))

\* PostgreSQL's deadlock detector rolls back one transaction of the cycle.
DeadlockVictim(r) ==
    /\ Deadlocked(r)
    /\ Fail(r, "5xx")

CheckoutStep(r) ==
    LoadCart(r) \/ LoadLines(r) \/ ConvertCart(r) \/ ReserveStock(r)
        \/ PlaceOrder(r) \/ NumberCollides(r) \/ DeadlockVictim(r)
============================================================================
