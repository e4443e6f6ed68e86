------------------------- MODULE PurchaseProperties -------------------------
(***************************************************************************)
(* What carts, stock and checkout promise together.                        *)
(***************************************************************************)
EXTENDS Purchase, FiniteSetsExt

\* Every table holds rows of its schema and every request is at a place of
\* its handler, whatever the interleaving.
TypeOK == TablesTypeOK /\ RequestsTypeOK

\* The committed counters of a variant satisfy the three CHECKs of the
\* inventories table and fit in int4.  Nothing in the model enforces the
\* CHECKs, so this says that the conditional UPDATEs of checkout and adjust
\* make them unnecessary: no customer sees a raw constraint violation and no
\* unit is reserved twice.
StockSound ==
    \A v \in Variants : /\ inventory[v].reserved >= 0
                        /\ inventory[v].onHand >= inventory[v].reserved
                        /\ inventory[v].onHand <= MaxInt

\* The stock ledger explains the counters: the RESTOCK and ADJUSTMENT entries
\* add up to on_hand and the RESERVATION entries to reserved, although
\* restock, adjust and checkout each write counter and entry separately.
LedgerBalances ==
    \A v \in Variants :
        /\ inventory[v].onHand = ledger[v].restock + ledger[v].adjustment
        /\ inventory[v].reserved = ledger[v].reservation

\* What a request has read is there when its next step uses it.
RequestsSound ==
    /\ \A r \in AddRequests :
          pc[r] \in {"variant read", "cart read", "in transaction"} =>
              lines[r] # {}
    /\ \A r \in ItemRequests :
          pc[r] \in {"updating", "removing"} => itemRef[r] \in AddRequests
    /\ \A r \in CheckoutRequests :
          /\ pc[r] \in {"cart read", "lines loaded", "reserving"} =>
                cartRef[r] \in AddRequests /\ carts[cartRef[r]] # NoRow
          /\ pc[r] \in {"new", "cart read", "lines loaded"} => taken[r] = {}

\* The stock an open checkout has taken stays there until it commits: the
\* committed counters leave room for it, and no two checkouts, and no two
\* lines of one, take of the same variant at once.
HeldStockStays ==
    /\ \A r \in InTransaction : \A l \in taken[r] :
          inventory[l.variant].reserved + l.quantity <= inventory[l.variant].onHand
    /\ \A r, s \in InTransaction : \A l \in taken[r], m \in taken[s] :
          l.variant = m.variant => r = s /\ l = m

\* The committed counters are sound, and stay so when the open checkouts
\* commit what they have taken, in whatever order.
StockHolds == StockSound /\ HeldStockStays

\* The inductive invariant behind the stock properties.
PurchaseInv ==
    /\ TypeOK
    /\ StockSound
    /\ LedgerBalances
    /\ RequestsSound
    /\ HeldStockStays

Placed == {r \in CheckoutRequests : orders[r] # NoRow}

LinesOf(o) == UNION {o.vendorOrders[w] : w \in Vendors}

ReservedIsOrdered ==
    \A v \in Variants :
        inventory[v].reserved =
            MapThenSumSet(LAMBDA r : Units(LinesOf(orders[r]), v), Placed)

OrderGroupedByVendor ==
    \A r \in Placed :
        /\ LinesOf(orders[r]) = taken[r] /\ taken[r] # {}
        /\ \A w \in Vendors : \A l \in orders[r].vendorOrders[w] :
              VendorOf[l.variant] = w

\* The units of a variant that are reserved are those in some order's items: a
\* checkout that fails, dies or is chosen as deadlock victim keeps nothing, and
\* an order placed keeps all it needs.  A placed order has a line and gives
\* each vendor exactly the lines of its own variants among those reserved.
OrdersMatchStock == ReservedIsOrdered /\ OrderGroupedByVendor

\* A cart is CONVERTED exactly when one order was placed from it: concurrent
\* and repeated checkouts of a cart never place a second order.
OneOrderPerCart ==
    \A c \in AddRequests :
        LET from == {r \in Placed : orders[r].cart = c}
        IN  /\ \A r, s \in from : r = s
            /\ from # {} <=> carts[c] # NoRow /\ carts[c].status = "CONVERTED"

OneActiveCart ==
    \A u \in Users : \A c, d \in ActiveCartsOf(u) : c = d

OneItemPerVariant ==
    \A c \in AddRequests : \A i, j \in ItemsOf(c) :
        cartItems[i].variant = cartItems[j].variant => i = j

\* No customer has two ACTIVE carts (cart_one_active_per_user), whichever of
\* addItem's racing creations commits first, and a cart holds a variant in at
\* most one row, which concurrent adds of it share.
CartsUnique == OneActiveCart /\ OneItemPerVariant

\* A placed order comes from a cart of the customer who placed it, and all
\* its lines are in the order's currency, even when the cart holds items of
\* another currency or variants were repriced into one.
OrderOfOneCustomerAndCurrency ==
    \A r \in Placed :
        /\ orders[r].user = UserOf[r]
        /\ carts[orders[r].cart].user = UserOf[r]
        /\ \A l \in LinesOf(orders[r]) : l.currency = orders[r].currency

\* A request inserts its rows last; an item's cart exists, and so does the one
\* that an add has found.
RowsSound ==
    /\ \A r \in AddRequests :
          /\ pc[r] # "done" => carts[r] = NoRow /\ cartItems[r] = NoRow
          /\ pc[r] = "in transaction" /\ cartRef[r] # NoRow =>
                carts[cartRef[r]] # NoRow
          /\ cartItems[r] # NoRow => carts[cartItems[r].cart] # NoRow
    /\ \A r \in CheckoutRequests : orders[r] # NoRow => pc[r] = "done"

\* A checkout has read a cart of its customer and lines in its currency; once
\* it has converted the cart, it alone holds it, and it stays ACTIVE for others.
CheckoutsSound ==
    /\ \A r \in CheckoutRequests :
          /\ pc[r] \in {"cart read", "lines loaded", "reserving"} =>
                carts[cartRef[r]].user = UserOf[r]
          /\ pc[r] \in {"lines loaded", "reserving"} =>
                \A l \in lines[r] : l.currency = carts[cartRef[r]].currency
          /\ pc[r] = "reserving" => carts[cartRef[r]].status = "ACTIVE"
    /\ \A r, s \in InTransaction : cartRef[r] = cartRef[s] => r = s

\* The inductive invariant, relative to PurchaseInv, behind the cart properties.
CartsInv ==
    /\ RowsSound /\ CheckoutsSound
    /\ CartsUnique /\ OneOrderPerCart /\ OrderOfOneCustomerAndCurrency

\* An open checkout has lines, and an order the lines that were taken for it.
LinesSound ==
    /\ \A r \in CheckoutRequests :
          pc[r] \in {"cart read", "lines loaded", "reserving"} => lines[r] # {}
    /\ OrderGroupedByVendor

\* Every request whose handler has started ends, whatever rows it waits for
\* and in whatever order carts list their items.
RequestsFinish ==
    \A r \in Requests : pc[r] # "new" ~> pc[r] = "done"

\* The tables as StockBook sees them.
OnHand == [v \in Variants |-> inventory[v].onHand]
Reserved == [v \in Variants |-> inventory[v].reserved]
Bought == [r \in CheckoutRequests |-> [v \in Variants |->
              IF orders[r] = NoRow THEN 0 ELSE Units(LinesOf(orders[r]), v)]]
Spent == {c \in AddRequests : carts[c] # NoRow /\ carts[c].status = "CONVERTED"}

Book == INSTANCE StockBook WITH
    Buyers <- CheckoutRequests, Carts <- AddRequests, MaxStock <- MaxInt,
    onHand <- OnHand, reserved <- Reserved, bought <- Bought, spent <- Spent

\* The many steps of concurrent checkouts, restocks and adjustments amount to
\* the atomic purchases and movements of StockBook: a checkout buys all its
\* lines at its commit, or nothing.
ImplementsStockBook == Book!BookSpec

----------------------------------------------------------------------------
\* What the documents say and the code does not keep (README.md).

\* docs/database/cart.md:645: "The converted cart must become immutable."
ConvertedCartImmutable ==
    [][\A c \in AddRequests :
          carts[c] # NoRow /\ carts[c].status = "CONVERTED" =>
              /\ carts'[c] = carts[c]
              /\ ItemsOf(c)' = ItemsOf(c)
              /\ \A i \in ItemsOf(c) : cartItems'[i] = cartItems[i]]_vars

\* docs/database/cart.md:147: "All cart items must be compatible with the
\* cart's currency."
CartInOneCurrency ==
    \A i \in AddRequests :
        cartItems[i] # NoRow =>
            cartItems[i].currency = carts[cartItems[i].cart].currency

\* cart.service.ts:183: "the loser's `create` throws P2002 and this re-fetches
\* the winner's row instead of failing the request."
LoserGetsWinnersCart ==
    [][\A r \in AddRequests : CreateCart(r) => answer'[r] # "5xx"]_vars
============================================================================
