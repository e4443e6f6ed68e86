-------------------------------- MODULE Cart --------------------------------
(***************************************************************************)
(* CartService: adding, changing, removing and clearing cart items.  Every *)
(* read and every statement that commits on its own is one action, so that *)
(* requests of the same customer interleave between them.                  *)
(***************************************************************************)
EXTENDS Tables

\* The one line an add request carries.
LineOf(r) == CHOOSE l \in lines[r] : TRUE

\* validateVariantForAdd.
ReadVariant(r) ==
    /\ pc[r] = "new"
    /\ \E v \in Variants, q \in 1..MaxQuantity :
          IF Available(v)
          THEN /\ lines' = [lines EXCEPT ![r] =
                    {[variant |-> v, quantity |-> q,
                      currency |-> catalog[v].currency]}]
               /\ Goto(r, "variant read")
               /\ UNCHANGED <<tables, cartRef, itemRef, taken, current>>
          ELSE Fail(r, "4xx")

\* The currency check of addItem, on the cart as it is before the transaction.
CheckCurrency(r) ==
    /\ pc[r] = "variant read"
    /\ \E c \in FindActiveCart(UserOf[r]) :
          IF c # NoRow /\ carts[c].currency # LineOf(r).currency
          THEN Fail(r, "4xx")
          ELSE /\ Goto(r, "cart read")
               /\ UNCHANGED <<tables, locals>>

\* getOrCreateActiveCart: the read the transaction begins with.
FindCart(r) ==
    /\ pc[r] = "cart read"
    /\ \E c \in FindActiveCart(UserOf[r]) :
          cartRef' = [cartRef EXCEPT ![r] = c]
    /\ Goto(r, "in transaction")
    /\ UNCHANGED <<tables, itemRef, lines, taken, current>>

NewItem(r, c) ==
    [cart |-> c, variant |-> LineOf(r).variant,
     quantity |-> LineOf(r).quantity, currency |-> LineOf(r).currency]

\* Mutant: the index is missing.
AnyCartAllowed(u) == TRUE

\* What the unique index cart_one_active_per_user asks of an insert.
CartAllowed(u) == ActiveCartsOf(u) = {}

\* The insert of a second ACTIVE cart violates cart_one_active_per_user.  The
\* error aborts the transaction, so the read of the winner's row in the catch
\* block fails too.  An open checkout of the existing cart is waited for.
CreateCart(r) ==
    LET u == UserOf[r]
    IN  /\ pc[r] = "in transaction"
        /\ cartRef[r] = NoRow
        /\ \A c \in ActiveCartsOf(u) : ~CartLocked(c)
        /\ IF CartAllowed(u)
           THEN /\ carts' = [carts EXCEPT ![r] =
                      [user |-> u, currency |-> LineOf(r).currency,
                       status |-> "ACTIVE"]]
                /\ cartItems' = [cartItems EXCEPT ![r] = NewItem(r, r)]
                /\ Finish(r, "2xx")
                /\ UNCHANGED <<catalog, inventory, ledger, orders, locals>>
           ELSE Fail(r, "5xx")

\* Mutant: a new row for every add.
NoSuchItem(c, v) == {}

\* The row that the upsert's unique key (cartId, variantId) finds.
SameItem(c, v) == {i \in ItemsOf(c) : cartItems[i].variant = v}

\* INSERT ... ON CONFLICT (cart_id, variant_id) DO UPDATE, then commit.
UpsertItem(r) ==
    LET c == cartRef[r]
        l == LineOf(r)
        same == SameItem(c, l.variant)
    IN  /\ pc[r] = "in transaction"
        /\ c # NoRow
        /\ \/ /\ same = {}
              /\ cartItems' = [cartItems EXCEPT ![r] = NewItem(r, c)]
              /\ Finish(r, "2xx")
              /\ UNCHANGED <<carts, catalog, inventory, ledger, orders, locals>>
           \/ \E i \in same :
                LET sum == cartItems[i].quantity + l.quantity
                IN  IF sum > MaxInt
                    THEN Fail(r, "5xx")
                    ELSE /\ cartItems' = [cartItems EXCEPT
                              ![i] = [@ EXCEPT !.quantity = sum,
                                               !.currency = l.currency]]
                         /\ Finish(r, "2xx")
                         /\ UNCHANGED <<carts, catalog, inventory, ledger,
                                        orders, locals>>

AddItem(r) ==
    ReadVariant(r) \/ CheckCurrency(r) \/ FindCart(r)
        \/ CreateCart(r) \/ UpsertItem(r)

----------------------------------------------------------------------------
\* findOwnedActiveItem, shared by updateItemQuantity and removeItem.
OwnedActiveItem(r, i) ==
    /\ cartItems[i] # NoRow
    /\ cartItems[i].cart \in ActiveCartsOf(UserOf[r])

FindItem(r) ==
    /\ pc[r] = "new"
    /\ \E i \in AddRequests, write \in {"updating", "removing"} :
          IF OwnedActiveItem(r, i)
          THEN /\ itemRef' = [itemRef EXCEPT ![r] = i]
               /\ Goto(r, write)
               /\ UNCHANGED <<tables, cartRef, lines, taken, current>>
          ELSE Fail(r, "4xx")

\* Both writes name the item by id alone; a row that is gone is P2025, a 404.
UpdateItemQuantity(r) ==
    /\ pc[r] = "updating"
    /\ \E q \in 1..MaxQuantity :
          IF cartItems[itemRef[r]] # NoRow
          THEN /\ cartItems' = [cartItems EXCEPT ![itemRef[r]].quantity = q]
               /\ Finish(r, "2xx")
               /\ UNCHANGED <<carts, catalog, inventory, ledger, orders, locals>>
          ELSE Fail(r, "4xx")

RemoveItem(r) ==
    /\ pc[r] = "removing"
    /\ IF cartItems[itemRef[r]] # NoRow
       THEN /\ cartItems' = [cartItems EXCEPT ![itemRef[r]] = NoRow]
            /\ Finish(r, "2xx")
            /\ UNCHANGED <<carts, catalog, inventory, ledger, orders, locals>>
       ELSE Fail(r, "4xx")

FindCartToClear(r) ==
    /\ pc[r] = "new"
    /\ \E c \in FindActiveCart(UserOf[r]) :
          IF c = NoRow
          THEN /\ Finish(r, "2xx")
               /\ UNCHANGED <<tables, locals>>
          ELSE /\ cartRef' = [cartRef EXCEPT ![r] = c]
               /\ Goto(r, "clearing")
               /\ UNCHANGED <<tables, itemRef, lines, taken, current>>

ClearCart(r) ==
    /\ pc[r] = "clearing"
    /\ cartItems' = [i \in AddRequests |->
                        IF i \in ItemsOf(cartRef[r]) THEN NoRow
                        ELSE cartItems[i]]
    /\ Finish(r, "2xx")
    /\ UNCHANGED <<carts, catalog, inventory, ledger, orders, locals>>

ChangeItem(r) ==
    FindItem(r) \/ UpdateItemQuantity(r) \/ RemoveItem(r)
        \/ FindCartToClear(r) \/ ClearCart(r)
============================================================================
