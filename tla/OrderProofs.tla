---------------------------- MODULE OrderProofs -----------------------------
(***************************************************************************)
(* Carts, stock and checkout, for any customers, variants and requests: the*)
(* stock counters are sound, the ledger and the orders explain them, and   *)
(* what an open checkout has taken stays.  PurchaseInv is inductive; there is*)
(* one lemma per action.  Relative to it, CartsInv and LinesSound are      *)
(* inductive: a cart is ordered once, by its customer, and an order is made*)
(* of the lines that were taken for it.  Together they give the refinement of*)
(* StockBook.                                                              *)
(* Then, for any number of vendor orders, requests in flight and retries: the*)
(* histories are true, and a master order that says FULFILLED or CANCELLED is*)
(* right and stays so (FulfilmentInv).                                     *)
(***************************************************************************)
EXTENDS PurchaseProperties, Fulfilment, Sums, TLAPS

USE DEF ShopperRequests, Requests, Places, Answers, Int4

\* The initial tables and requests satisfy the invariant.
LEMMA InitInv == Init => PurchaseInv
<1> SUFFICES ASSUME Init PROVE PurchaseInv
    OBVIOUS
<1> USE RequestsAssumption, OwnersAssumption, BoundsAssumption, StoredAssumption
<1>1. TablesTypeOK
  <2>1. carts \in [AddRequests -> CartRow \cup {NoRow}]
    BY DEF Init, CartRow, ItemRow
  <2>2. cartItems \in [AddRequests -> ItemRow \cup {NoRow}]
    BY DEF Init
  <2>3. /\ inventory \in [Variants -> [onHand : Int4, reserved : Int4]]
        /\ ledger \in [Variants -> [restock : Int, adjustment : Int,
                                    reservation : Int]]
    BY DEF Init
  <2>4. catalog \in [Variants -> [available : BOOLEAN, currency : Currencies]]
    BY DEF Init
  <2>5. orders \in [CheckoutRequests -> OrderRow \cup {NoRow}]
    BY DEF Init
  <2> QED
    BY <2>1, <2>2, <2>3, <2>4, <2>5 DEF TablesTypeOK
<1>2. RequestsTypeOK
  BY DEF Init, RequestsTypeOK
<1>3. StockSound /\ LedgerBalances
  BY DEF Init, StockSound, LedgerBalances
<1>4. RequestsSound /\ HeldStockStays
  <2>1. \A r \in Requests : pc[r] \in {"new", "done"}
    BY DEF Init
  <2>2. \A r \in CheckoutRequests : taken[r] = {}
    BY DEF Init
  <2> QED
    BY <2>1, <2>2 DEF RequestsSound, HeldStockStays, InTransaction
<1> QED
  BY <1>1, <1>2, <1>3, <1>4 DEF PurchaseInv, TypeOK

\* Ending a request without a commit keeps the invariant.
LEMMA FailInv ==
    ASSUME PurchaseInv, NEW r \in Requests, NEW a \in Answers, Fail(r, a)
    PROVE  PurchaseInv'
<1> USE DEF Fail, Finish, tables, locals
<1>1. TypeOK'
  BY DEF PurchaseInv, TypeOK, TablesTypeOK, RequestsTypeOK
<1>2. StockSound' /\ LedgerBalances'
  BY DEF PurchaseInv, StockSound, LedgerBalances
<1>3. \A s \in Requests : pc'[s] # pc[s] => pc'[s] = "done"
  BY DEF PurchaseInv, TypeOK, RequestsTypeOK
<1>4. RequestsSound'
  BY <1>3 DEF PurchaseInv, RequestsSound
<1>5. InTransaction' \subseteq InTransaction
  BY <1>3 DEF InTransaction
<1>6. HeldStockStays'
  BY <1>5 DEF PurchaseInv, HeldStockStays
<1> QED
  BY <1>1, <1>2, <1>4, <1>6 DEF PurchaseInv

\* restock and adjust move onHand where no open checkout holds stock.
LEMMA StockInv ==
    ASSUME PurchaseInv, NEW r \in StockRequests, Restock(r) \/ Adjust(r)
    PROVE  PurchaseInv'
<1> USE RequestsAssumption, BoundsAssumption
<1> DEFINE Sums == [restock : Int, adjustment : Int, reservation : Int]
           Books(entry, v, n) ==
              /\ entry.restock + entry.adjustment = inventory[v].onHand + n
              /\ entry.reservation = ledger[v].reservation
              /\ Move(v, n, entry)
<1>1. ASSUME NEW v \in Variants, NEW n \in Int,
             pc[r] = "new", ~StockLocked(v),
             inventory[v].onHand + n <= MaxInt,
             inventory[v].onHand + n >= inventory[v].reserved,
             \E entry \in Sums : Books(entry, v, n),
             Finish(r, "2xx")
      PROVE  PurchaseInv'
  <2>a. PICK entry \in Sums : Books(entry, v, n)
    BY <1>1
  <2> USE <1>1, <2>a DEF Move, Finish, locals
  <2>0. PurchaseInv /\ TypeOK /\ StockSound /\ TablesTypeOK /\ RequestsTypeOK
    BY DEF PurchaseInv, TypeOK
  <2>1. \A s \in Requests : pc'[s] # pc[s] => pc'[s] = "done"
    BY <2>0 DEF RequestsTypeOK
  <2>2. /\ inventory' \in [Variants -> [onHand : Int4, reserved : Int4]]
        /\ \A w \in Variants \ {v} : inventory'[w] = inventory[w]
        /\ inventory'[v].reserved = inventory[v].reserved
        /\ inventory'[v].onHand = inventory[v].onHand + n
    BY <2>0 DEF TablesTypeOK, StockSound
  <2>3. TypeOK'
    BY <2>0, <2>2 DEF TypeOK, TablesTypeOK, RequestsTypeOK
  <2>4. StockSound'
    BY <2>0, <2>2 DEF StockSound
  <2>5. LedgerBalances'
    BY <2>0, <2>2 DEF LedgerBalances, TablesTypeOK, PurchaseInv
  <2>6. RequestsSound'
    BY <2>0, <2>1 DEF PurchaseInv, RequestsSound
  <2>7. InTransaction' = InTransaction
    BY <2>0 DEF InTransaction, RequestsTypeOK
  <2>b. \A s \in CheckoutRequests : taken[s] \subseteq Line
    BY <2>0 DEF RequestsTypeOK
  <2>8. \A s \in InTransaction : \A l \in taken[s] : l.variant \in Variants \ {v}
    BY <2>b DEF InTransaction, StockLocked, LocksStock, Line
  <2>9. HeldStockStays'
    BY <2>0, <2>2, <2>7, <2>8 DEF PurchaseInv, HeldStockStays
  <2> QED
    BY <2>3, <2>4, <2>5, <2>6, <2>9 DEF PurchaseInv
<1>0. CASE Refuse(r)
  BY <1>0, FailInv DEF Refuse, Answers
<1>2. CASE Restock(r) /\ ~Refuse(r)
  <2>1. PICK v \in Variants, q \in 1..MaxQuantity :
           /\ Movable(r, v)
           /\ IF Overflows(v, q) THEN Fail(r, "5xx")
              ELSE /\ Move(v, q, [ledger[v] EXCEPT !.restock = @ + q])
                   /\ Finish(r, "2xx")
    BY <1>2 DEF Restock
  <2>2. CASE Overflows(v, q)
    BY <2>1, <2>2, FailInv
  <2>3. CASE ~Overflows(v, q)
    <3> DEFINE entry == [ledger[v] EXCEPT !.restock = @ + q]
    <3>1. /\ entry \in Sums
          /\ entry.restock + entry.adjustment = inventory[v].onHand + q
          /\ entry.reservation = ledger[v].reservation
      BY DEF PurchaseInv, TypeOK, TablesTypeOK, LedgerBalances
    <3>2. /\ inventory[v].onHand + q <= MaxInt
          /\ inventory[v].onHand + q >= inventory[v].reserved
      BY <2>3 DEF Overflows, PurchaseInv, TypeOK, TablesTypeOK, StockSound
    <3>3. \E e \in Sums : Books(e, v, q)
      <4>1. Books(entry, v, q)
        BY <2>1, <2>3, <3>1
      <4> HIDE DEF entry, Books
      <4> QED
        BY <3>1, <4>1
    <3> HIDE DEF Books
    <3> QED
      BY <1>1, <2>1, <2>3, <3>2, <3>3 DEF Movable
  <2> QED
    BY <2>2, <2>3
<1>3. CASE Adjust(r) /\ ~Refuse(r)
  <2>1. CASE \E a \in Answers : Fail(r, a)
    BY <2>1, FailInv
  <2>2. CASE \E v \in Variants, d \in (-MaxQuantity..MaxQuantity) \ {0} :
               /\ Movable(r, v)
               /\ ~Overflows(v, d)
               /\ AdjustmentAllowed(v, d)
               /\ Move(v, d, [ledger[v] EXCEPT !.adjustment = @ + d])
               /\ Finish(r, "2xx")
    <3>1. PICK v \in Variants, d \in (-MaxQuantity..MaxQuantity) \ {0} :
             /\ Movable(r, v)
             /\ ~Overflows(v, d)
             /\ AdjustmentAllowed(v, d)
             /\ Move(v, d, [ledger[v] EXCEPT !.adjustment = @ + d])
             /\ Finish(r, "2xx")
      BY <2>2
    <3> DEFINE entry == [ledger[v] EXCEPT !.adjustment = @ + d]
    <3>2. /\ entry \in Sums
          /\ entry.restock + entry.adjustment = inventory[v].onHand + d
          /\ entry.reservation = ledger[v].reservation
      BY DEF PurchaseInv, TypeOK, TablesTypeOK, LedgerBalances
    <3>3. /\ inventory[v].onHand + d <= MaxInt
          /\ inventory[v].onHand + d >= inventory[v].reserved
      BY <3>1 DEF Overflows, AdjustmentAllowed, PurchaseInv, TypeOK, TablesTypeOK
    <3>4. \E e \in Sums : Books(e, v, d)
      <4>1. Books(entry, v, d)
        BY <3>1, <3>2
      <4> HIDE DEF entry, Books
      <4> QED
        BY <3>2, <4>1
    <3> HIDE DEF Books
    <3> QED
      BY <1>1, <3>1, <3>3, <3>4 DEF Movable
  <2> QED
    BY <1>3, <2>1, <2>2 DEF Adjust
<1> QED
  BY <1>0, <1>2, <1>3

\* A step that moves no stock and opens no transaction.
LEMMA QuietInv ==
    ASSUME PurchaseInv, TypeOK', RequestsSound',
           UNCHANGED <<inventory, ledger, taken>>,
           InTransaction' \subseteq InTransaction
    PROVE  PurchaseInv'
BY DEF PurchaseInv, StockSound, LedgerBalances, HeldStockStays

\* The line an add request carries is a line.
LEMMA LineOfInv ==
    ASSUME PurchaseInv, NEW r \in AddRequests,
           pc[r] \in {"variant read", "cart read", "in transaction"}
    PROVE  LineOf(r) \in Line
BY DEF PurchaseInv, TypeOK, RequestsTypeOK, RequestsSound, LineOf

\* addItem: reads, the currency check, and the cart and item rows it commits.
LEMMA AddInv ==
    ASSUME PurchaseInv, NEW r \in AddRequests, AddItem(r)
    PROVE  PurchaseInv'
<1> USE RequestsAssumption, OwnersAssumption, BoundsAssumption
<1>0. TypeOK /\ TablesTypeOK /\ RequestsTypeOK /\ RequestsSound
  BY DEF PurchaseInv, TypeOK
<1>a. ASSUME NEW place \in Places, place # "reserving",
             pc' = [pc EXCEPT ![r] = place]
      PROVE  InTransaction' \subseteq InTransaction
  BY <1>0, <1>a DEF InTransaction, RequestsTypeOK
<1>f. ASSUME NEW a \in Answers, Fail(r, a)
      PROVE  PurchaseInv'
  BY <1>f, FailInv
<1>1. CASE ReadVariant(r)
  <2>1. PICK v \in Variants, q \in 1..MaxQuantity :
           IF Available(v)
           THEN /\ lines' = [lines EXCEPT ![r] =
                      {[variant |-> v, quantity |-> q,
                        currency |-> catalog[v].currency]}]
                /\ Goto(r, "variant read")
                /\ UNCHANGED <<tables, cartRef, itemRef, taken, current>>
           ELSE Fail(r, "4xx")
    BY <1>1 DEF ReadVariant
  <2>2. CASE Available(v)
    <3> DEFINE l == [variant |-> v, quantity |-> q,
                     currency |-> catalog[v].currency]
    <3>1. l \in Line
      <4>1. q \in 1..MaxInt
        OBVIOUS
      <4>2. catalog[v].currency \in Currencies
        BY <1>0 DEF TablesTypeOK
      <4> QED
        BY <4>1, <4>2 DEF Line
    <3>2. /\ lines' = [lines EXCEPT ![r] = {l}]
          /\ pc' = [pc EXCEPT ![r] = "variant read"]
          /\ UNCHANGED <<carts, cartItems, catalog, inventory, ledger, orders,
                         answer, cartRef, itemRef, taken, current>>
      BY <2>1, <2>2 DEF Goto, tables
    <3> HIDE DEF l
    <3>3. TypeOK'
      BY <1>0, <3>1, <3>2 DEF TypeOK, TablesTypeOK, RequestsTypeOK
    <3>4. RequestsSound'
      BY <1>0, <3>2 DEF RequestsSound, RequestsTypeOK
    <3> QED
      BY <3>2, <3>3, <3>4, <1>a, QuietInv
  <2> QED
    BY <2>1, <2>2, <1>f
<1>2. CASE CheckCurrency(r)
  <2>1. CASE Goto(r, "cart read") /\ UNCHANGED <<tables, locals>>
    <3> USE <2>1 DEF Goto, tables, locals
    <3>1. TypeOK'
      BY <1>0 DEF TypeOK, TablesTypeOK, RequestsTypeOK
    <3>2. RequestsSound'
      BY <1>0, <1>2 DEF RequestsSound, RequestsTypeOK, CheckCurrency
    <3> QED
      BY <3>1, <3>2, <1>a, QuietInv
  <2> QED
    BY <1>2, <2>1, <1>f DEF CheckCurrency
<1>3. CASE FindCart(r)
  <2> USE <1>3 DEF FindCart, Goto, tables
  <2>1. FindActiveCart(UserOf[r]) \subseteq AddRequests \cup {NoRow}
    BY DEF FindActiveCart, ActiveCartsOf
  <2>2. TypeOK'
    BY <1>0, <2>1 DEF TypeOK, TablesTypeOK, RequestsTypeOK
  <2>3. RequestsSound'
    BY <1>0 DEF RequestsSound, RequestsTypeOK
  <2> QED
    BY <2>2, <2>3, <1>a, QuietInv
<1>4. CASE CreateCart(r)
  <2>1. LineOf(r) \in Line
    BY <1>4, LineOfInv DEF CreateCart
  <2>2. CASE CartAllowed(UserOf[r])
    <3>0. /\ carts' = [carts EXCEPT ![r] = [user |-> UserOf[r],
                currency |-> LineOf(r).currency, status |-> "ACTIVE"]]
          /\ cartItems' = [cartItems EXCEPT ![r] = NewItem(r, r)]
          /\ pc' = [pc EXCEPT ![r] = "done"]
          /\ answer' = [answer EXCEPT ![r] = "2xx"]
          /\ UNCHANGED <<catalog, inventory, ledger, orders,
                         cartRef, itemRef, lines, taken, current>>
      BY <1>4, <2>2 DEF CreateCart, Finish, locals
    <3>1. /\ [user |-> UserOf[r], currency |-> LineOf(r).currency,
              status |-> "ACTIVE"] \in CartRow
          /\ NewItem(r, r) \in ItemRow
      BY <2>1 DEF CartRow, NewItem, ItemRow, Line
    <3>2. TypeOK'
      BY <1>0, <3>0, <3>1 DEF TypeOK, TablesTypeOK, RequestsTypeOK
    <3>3. \A c \in AddRequests : carts[c] # NoRow => carts'[c] # NoRow
      BY <1>0, <3>0, <3>1, NoRowAssumption DEF TablesTypeOK
    <3>4. RequestsSound'
      BY <1>0, <3>0, <3>3 DEF RequestsSound, RequestsTypeOK
    <3> QED
      BY <3>0, <3>2, <3>4, <1>a, QuietInv
  <2> QED
    BY <1>4, <2>2, <1>f DEF CreateCart
<1>5. CASE UpsertItem(r)
  <2>1. LineOf(r) \in Line
    BY <1>5, LineOfInv DEF UpsertItem
  <2>2. ASSUME cartItems' \in [AddRequests -> ItemRow \cup {NoRow}],
               Finish(r, "2xx"),
               UNCHANGED <<carts, catalog, inventory, ledger, orders, locals>>
        PROVE  PurchaseInv'
    <3> USE <2>2 DEF Finish, locals
    <3>1. TypeOK'
      BY <1>0 DEF TypeOK, TablesTypeOK, RequestsTypeOK
    <3>2. RequestsSound'
      BY <1>0 DEF RequestsSound, RequestsTypeOK
    <3> QED
      BY <3>1, <3>2, <1>a, QuietInv
  <2> DEFINE c == cartRef[r]
             same == SameItem(c, LineOf(r).variant)
  <2>3. c \in AddRequests
    BY <1>0, <1>5 DEF UpsertItem, RequestsTypeOK
  <2>4. CASE /\ cartItems' = [cartItems EXCEPT ![r] = NewItem(r, c)]
             /\ Finish(r, "2xx")
             /\ UNCHANGED <<carts, catalog, inventory, ledger, orders, locals>>
    <3>1. NewItem(r, c) \in ItemRow
      BY <2>1, <2>3 DEF NewItem, ItemRow, Line
    <3> QED
      BY <2>2, <2>4, <3>1, <1>0 DEF TablesTypeOK
  <2>5. ASSUME NEW i \in same,
               cartItems[i].quantity + LineOf(r).quantity <= MaxInt,
               cartItems' = [cartItems EXCEPT ![i] = [@ EXCEPT
                   !.quantity = cartItems[i].quantity + LineOf(r).quantity,
                   !.currency = LineOf(r).currency]],
               Finish(r, "2xx"),
               UNCHANGED <<carts, catalog, inventory, ledger, orders, locals>>
        PROVE  PurchaseInv'
    <3>1. i \in AddRequests /\ cartItems[i] \in ItemRow
      BY <2>5, <1>0 DEF SameItem, ItemsOf, TablesTypeOK
    <3>2. cartItems' \in [AddRequests -> ItemRow \cup {NoRow}]
      <4> DEFINE item == [cartItems[i] EXCEPT
                   !.quantity = cartItems[i].quantity + LineOf(r).quantity,
                   !.currency = LineOf(r).currency]
      <4>1. item \in ItemRow
        <5>1. /\ cartItems[i].quantity \in 1..MaxInt
              /\ LineOf(r).quantity \in 1..MaxInt
              /\ LineOf(r).currency \in Currencies
          BY <2>1, <3>1 DEF ItemRow, Line
        <5>2. cartItems[i].quantity + LineOf(r).quantity \in 1..MaxInt
          BY <2>5, <5>1
        <5> QED
          BY <3>1, <5>1, <5>2 DEF ItemRow
      <4>2. cartItems' = [cartItems EXCEPT ![i] = item]
        BY <2>5
      <4> HIDE DEF item
      <4> QED
        BY <4>1, <4>2, <3>1, <1>0 DEF TablesTypeOK
    <3> QED
      BY <2>2, <2>5, <3>2
  <2>6. CASE Fail(r, "5xx")
    BY <2>6, <1>f
  <2>7. ASSUME NEW i \in same,
               ~(cartItems[i].quantity + LineOf(r).quantity > MaxInt)
        PROVE  cartItems[i].quantity + LineOf(r).quantity <= MaxInt
    <3>1. cartItems[i] \in ItemRow
      BY <1>0 DEF SameItem, ItemsOf, TablesTypeOK
    <3> QED
      BY <2>1, <2>7, <3>1 DEF ItemRow, Line
  <2>8. \/ /\ cartItems' = [cartItems EXCEPT ![r] = NewItem(r, c)]
           /\ Finish(r, "2xx")
           /\ UNCHANGED <<carts, catalog, inventory, ledger, orders, locals>>
        \/ \E i \in same :
             IF cartItems[i].quantity + LineOf(r).quantity > MaxInt
             THEN Fail(r, "5xx")
             ELSE /\ cartItems' = [cartItems EXCEPT ![i] = [@ EXCEPT
                       !.quantity = cartItems[i].quantity + LineOf(r).quantity,
                       !.currency = LineOf(r).currency]]
                  /\ Finish(r, "2xx")
                  /\ UNCHANGED <<carts, catalog, inventory, ledger,
                                 orders, locals>>
    BY <1>5 DEF UpsertItem
  <2> QED
    BY <2>4, <2>5, <2>6, <2>7, <2>8
<1> QED
  BY <1>1, <1>2, <1>3, <1>4, <1>5 DEF AddItem

\* Changing, removing and clearing items.
LEMMA ItemInv ==
    ASSUME PurchaseInv, NEW r \in ItemRequests, ChangeItem(r)
    PROVE  PurchaseInv'
<1> USE RequestsAssumption, OwnersAssumption, BoundsAssumption
<1>0. TypeOK /\ TablesTypeOK /\ RequestsTypeOK /\ RequestsSound
  BY DEF PurchaseInv, TypeOK
<1>a. ASSUME NEW place \in Places, place # "reserving",
             pc' = [pc EXCEPT ![r] = place]
      PROVE  InTransaction' \subseteq InTransaction
  BY <1>0, <1>a DEF InTransaction, RequestsTypeOK
<1>f. ASSUME NEW a \in Answers, Fail(r, a)
      PROVE  PurchaseInv'
  BY <1>f, FailInv
<1>w. ASSUME cartItems' \in [AddRequests -> ItemRow \cup {NoRow}],
             Finish(r, "2xx"),
             UNCHANGED <<carts, catalog, inventory, ledger, orders, locals>>
      PROVE  PurchaseInv'
  <2> USE <1>w DEF Finish, locals
  <2>1. TypeOK'
    BY <1>0 DEF TypeOK, TablesTypeOK, RequestsTypeOK
  <2>2. RequestsSound'
    BY <1>0 DEF RequestsSound, RequestsTypeOK
  <2> QED
    BY <2>1, <2>2, <1>a, QuietInv
<1>1. CASE FindItem(r)
  <2>1. PICK i \in AddRequests, write \in {"updating", "removing"} :
           IF OwnedActiveItem(r, i)
           THEN /\ itemRef' = [itemRef EXCEPT ![r] = i]
                /\ Goto(r, write)
                /\ UNCHANGED <<tables, cartRef, lines, taken, current>>
           ELSE Fail(r, "4xx")
    BY <1>1 DEF FindItem
  <2>2. CASE OwnedActiveItem(r, i)
    <3>1. /\ itemRef' = [itemRef EXCEPT ![r] = i]
          /\ pc' = [pc EXCEPT ![r] = write]
          /\ UNCHANGED <<carts, cartItems, catalog, inventory, ledger, orders,
                         answer, cartRef, lines, taken, current>>
      BY <2>1, <2>2 DEF Goto, tables
    <3>2. TypeOK'
      BY <1>0, <3>1 DEF TypeOK, TablesTypeOK, RequestsTypeOK
    <3>3. RequestsSound'
      BY <1>0, <3>1 DEF RequestsSound, RequestsTypeOK
    <3> QED
      BY <3>1, <3>2, <3>3, <1>a, QuietInv
  <2> QED
    BY <2>1, <2>2, <1>f
<1>2. CASE UpdateItemQuantity(r)
  <2>1. ASSUME NEW q \in 1..MaxQuantity, cartItems[itemRef[r]] # NoRow,
               cartItems' = [cartItems EXCEPT ![itemRef[r]].quantity = q]
        PROVE  cartItems' \in [AddRequests -> ItemRow \cup {NoRow}]
    <3>1. itemRef[r] \in AddRequests
      BY <1>0, <1>2 DEF RequestsSound, UpdateItemQuantity
    <3>2. cartItems[itemRef[r]] \in ItemRow
      BY <1>0, <2>1, <3>1 DEF TablesTypeOK
    <3>3. [cartItems[itemRef[r]] EXCEPT !.quantity = q] \in ItemRow
      BY <3>2 DEF ItemRow
    <3> QED
      BY <1>0, <2>1, <3>3 DEF TablesTypeOK
  <2> QED
    BY <1>2, <1>f, <1>w, <2>1 DEF UpdateItemQuantity
<1>3. CASE RemoveItem(r)
  <2>1. ASSUME cartItems' = [cartItems EXCEPT ![itemRef[r]] = NoRow]
        PROVE  cartItems' \in [AddRequests -> ItemRow \cup {NoRow}]
    BY <1>0, <2>1 DEF TablesTypeOK
  <2> QED
    BY <1>3, <1>f, <1>w, <2>1 DEF RemoveItem
<1>4. CASE FindCartToClear(r)
  <2>1. PICK c \in FindActiveCart(UserOf[r]) :
           IF c = NoRow
           THEN /\ Finish(r, "2xx")
                /\ UNCHANGED <<tables, locals>>
           ELSE /\ cartRef' = [cartRef EXCEPT ![r] = c]
                /\ Goto(r, "clearing")
                /\ UNCHANGED <<tables, itemRef, lines, taken, current>>
    BY <1>4 DEF FindCartToClear
  <2>2. CASE c = NoRow
    BY <1>w, <1>0, <2>1, <2>2 DEF tables, TablesTypeOK
  <2>3. CASE c # NoRow
    <3>1. /\ cartRef' = [cartRef EXCEPT ![r] = c]
          /\ pc' = [pc EXCEPT ![r] = "clearing"]
          /\ UNCHANGED <<carts, cartItems, catalog, inventory, ledger, orders,
                         answer, itemRef, lines, taken, current>>
      BY <2>1, <2>3 DEF Goto, tables
    <3>2. c \in AddRequests
      BY <2>3 DEF FindActiveCart, ActiveCartsOf
    <3>3. TypeOK'
      BY <1>0, <3>1, <3>2 DEF TypeOK, TablesTypeOK, RequestsTypeOK
    <3>4. RequestsSound'
      BY <1>0, <3>1 DEF RequestsSound, RequestsTypeOK
    <3> QED
      BY <3>1, <3>3, <3>4, <1>a, QuietInv
  <2> QED
    BY <2>2, <2>3
<1>5. CASE ClearCart(r)
  <2>1. cartItems' \in [AddRequests -> ItemRow \cup {NoRow}]
    BY <1>0, <1>5 DEF ClearCart, TablesTypeOK
  <2> QED
    BY <1>5, <1>w, <2>1 DEF ClearCart
<1> QED
  BY <1>1, <1>2, <1>3, <1>4, <1>5 DEF ChangeItem

\* A checkout: its reads, the lines it takes one by one, and its commit.
LEMMA CheckoutInv ==
    ASSUME PurchaseInv, NEW r \in CheckoutRequests, CheckoutStep(r)
    PROVE  PurchaseInv'
<1> USE RequestsAssumption, OwnersAssumption, BoundsAssumption
<1>0. /\ TypeOK /\ TablesTypeOK /\ RequestsTypeOK
      /\ RequestsSound /\ StockSound /\ LedgerBalances /\ HeldStockStays
  BY DEF PurchaseInv, TypeOK
<1>a. ASSUME NEW place \in Places, place # "reserving",
             pc' = [pc EXCEPT ![r] = place]
      PROVE  InTransaction' \subseteq InTransaction
  BY <1>0, <1>a DEF InTransaction, RequestsTypeOK
<1>f. ASSUME NEW a \in Answers, Fail(r, a)
      PROVE  PurchaseInv'
  BY <1>f, FailInv
<1>c. ASSUME NEW left \in SUBSET Line, ChooseLine(r, left)
      PROVE  current' \in [CheckoutRequests -> Line \cup {NoRow}]
  BY <1>0, <1>c DEF ChooseLine, RequestsTypeOK
<1>1. CASE LoadCart(r)
  <2>1. PICK c \in FindActiveCart(UserOf[r]) :
           IF c = NoRow \/ ItemsOf(c) = {}
           THEN Fail(r, "4xx")
           ELSE /\ cartRef' = [cartRef EXCEPT ![r] = c]
                /\ lines' = [lines EXCEPT ![r] =
                     {[variant |-> cartItems[i].variant,
                       quantity |-> cartItems[i].quantity,
                       currency |-> cartItems[i].currency] : i \in ItemsOf(c)}]
                /\ Goto(r, "cart read")
                /\ UNCHANGED <<tables, itemRef, taken, current>>
    BY <1>1 DEF LoadCart
  <2>2. CASE ~(c = NoRow \/ ItemsOf(c) = {})
    <3> DEFINE ls == {[variant |-> cartItems[i].variant,
                       quantity |-> cartItems[i].quantity,
                       currency |-> cartItems[i].currency] : i \in ItemsOf(c)}
    <3>1. /\ cartRef' = [cartRef EXCEPT ![r] = c]
          /\ lines' = [lines EXCEPT ![r] = ls]
          /\ pc' = [pc EXCEPT ![r] = "cart read"]
          /\ UNCHANGED <<carts, cartItems, catalog, inventory, ledger, orders,
                         answer, itemRef, taken, current>>
      BY <2>1, <2>2 DEF Goto, tables
    <3>2. ls \subseteq Line
      <4>1. \A i \in ItemsOf(c) : cartItems[i] \in ItemRow
        BY <1>0 DEF ItemsOf, TablesTypeOK
      <4> QED
        BY <4>1 DEF ItemRow, Line
    <3>3. c \in AddRequests /\ carts[c] # NoRow
      BY <2>2 DEF FindActiveCart, ActiveCartsOf
    <3> HIDE DEF ls
    <3>4. TypeOK'
      BY <1>0, <3>1, <3>2, <3>3 DEF TypeOK, TablesTypeOK, RequestsTypeOK
    <3>5. RequestsSound'
      <4>1. pc[r] = "new"
        BY <1>1 DEF LoadCart
      <4>2. taken[r] = {}
        BY <1>0, <4>1 DEF RequestsSound
      <4> QED
        BY <1>0, <3>1, <3>3, <4>2 DEF RequestsSound, RequestsTypeOK
    <3> QED
      BY <3>1, <3>4, <3>5, <1>a, QuietInv
  <2> QED
    BY <2>1, <2>2, <1>f
<1>2. CASE LoadLines(r)
  <2> DEFINE ls == {[l EXCEPT !.currency = catalog[l.variant].currency] :
                      l \in lines[r]}
  <2>1. CASE /\ lines' = [lines EXCEPT ![r] = ls]
             /\ Goto(r, "lines loaded")
             /\ UNCHANGED <<tables, cartRef, itemRef, taken, current>>
    <3>1. /\ lines' = [lines EXCEPT ![r] = ls]
          /\ pc' = [pc EXCEPT ![r] = "lines loaded"]
          /\ UNCHANGED <<carts, cartItems, catalog, inventory, ledger, orders,
                         answer, cartRef, itemRef, taken, current>>
      BY <2>1 DEF Goto, tables
    <3>2. ls \subseteq Line
      <4> SUFFICES ASSUME NEW l \in lines[r]
                   PROVE  [l EXCEPT !.currency = catalog[l.variant].currency]
                             \in Line
        OBVIOUS
      <4>1. l \in Line
        BY <1>0 DEF RequestsTypeOK
      <4>2. catalog[l.variant].currency \in Currencies
        BY <1>0, <4>1 DEF TablesTypeOK, Line
      <4> QED
        BY <4>1, <4>2 DEF Line
    <3> HIDE DEF ls
    <3>3. TypeOK'
      BY <1>0, <3>1, <3>2 DEF TypeOK, TablesTypeOK, RequestsTypeOK
    <3>4. RequestsSound'
      BY <1>0, <1>2, <3>1 DEF RequestsSound, RequestsTypeOK, LoadLines
    <3> QED
      BY <3>1, <3>3, <3>4, <1>a, QuietInv
  <2> QED
    BY <1>2, <2>1, <1>f DEF LoadLines
<1>3. CASE ConvertCart(r)
  <2>1. CASE /\ Goto(r, "reserving")
             /\ ChooseLine(r, lines[r])
             /\ UNCHANGED <<tables, cartRef, itemRef, lines, taken>>
    <3>1. /\ pc' = [pc EXCEPT ![r] = "reserving"]
          /\ UNCHANGED <<carts, cartItems, catalog, inventory, ledger, orders,
                         answer, cartRef, itemRef, lines, taken>>
      BY <2>1 DEF Goto, tables
    <3>2. current' \in [CheckoutRequests -> Line \cup {NoRow}]
      BY <1>0, <1>c, <2>1 DEF RequestsTypeOK
    <3>3. TypeOK'
      BY <1>0, <3>1, <3>2 DEF TypeOK, TablesTypeOK, RequestsTypeOK
    <3>4. taken[r] = {}
      BY <1>0, <1>3 DEF RequestsSound, ConvertCart
    <3>5. RequestsSound'
      BY <1>0, <1>3, <3>1 DEF RequestsSound, RequestsTypeOK, ConvertCart
    <3>6. StockSound' /\ LedgerBalances'
      BY <1>0, <3>1 DEF StockSound, LedgerBalances
    <3>7. InTransaction' \subseteq InTransaction \cup {r}
      BY <1>0, <3>1 DEF InTransaction, RequestsTypeOK
    <3>8. HeldStockStays'
      BY <1>0, <3>1, <3>4, <3>7 DEF HeldStockStays
    <3> QED
      BY <3>3, <3>5, <3>6, <3>8 DEF PurchaseInv
  <2> QED
    BY <1>3, <2>1, <1>f DEF ConvertCart
<1>4. CASE ReserveStock(r)
  <2> DEFINE l == current[r]
  <2>1. CASE /\ EnoughStock(l)
             /\ taken' = [taken EXCEPT ![r] = @ \cup {l}]
             /\ ChooseLine(r, lines[r] \ (taken[r] \cup {l}))
             /\ UNCHANGED <<tables, pc, answer, cartRef, itemRef, lines>>
    <3>1. /\ taken' = [taken EXCEPT ![r] = taken[r] \cup {l}]
          /\ UNCHANGED <<carts, cartItems, catalog, inventory, ledger, orders,
                         pc, answer, cartRef, itemRef, lines>>
      BY <2>1 DEF tables
    <3>2. current' \in [CheckoutRequests -> Line \cup {NoRow}]
      BY <1>0, <1>c, <2>1 DEF RequestsTypeOK
    <3>3. l \in Line /\ r \in InTransaction /\ ~StockLocked(l.variant)
      BY <1>0, <1>4 DEF ReserveStock, RequestsTypeOK, InTransaction
    <3>4. inventory[l.variant].reserved + l.quantity
             <= inventory[l.variant].onHand
      BY <1>0, <2>1, <3>3 DEF EnoughStock, TablesTypeOK, Line
    <3>5. \A s \in InTransaction : \A m \in taken[s] : m.variant # l.variant
      BY <3>3 DEF StockLocked, LocksStock, InTransaction
    <3> HIDE DEF l
    <3>6. TypeOK'
      BY <1>0, <3>1, <3>2, <3>3 DEF TypeOK, TablesTypeOK, RequestsTypeOK
    <3>7. RequestsSound'
      BY <1>0, <3>1, <3>3 DEF RequestsSound, RequestsTypeOK, InTransaction
    <3>8. StockSound' /\ LedgerBalances'
      BY <1>0, <3>1 DEF StockSound, LedgerBalances
    <3>9. HeldStockStays'
      <4>1. InTransaction' = InTransaction
        BY <3>1 DEF InTransaction
      <4>2. \A s \in InTransaction :
               taken'[s] = IF s = r THEN taken[r] \cup {l} ELSE taken[s]
        BY <1>0, <3>1 DEF InTransaction, RequestsTypeOK
      <4> QED
        BY <1>0, <3>1, <3>4, <3>5, <4>1, <4>2 DEF HeldStockStays
    <3> QED
      BY <3>6, <3>7, <3>8, <3>9 DEF PurchaseInv
  <2> QED
    BY <1>4, <2>1, <1>f DEF ReserveStock
<1>5. CASE PlaceOrder(r)
  <2> DEFINE c == cartRef[r]
  <2>1. /\ pc[r] = "reserving"
        /\ taken[r] = lines[r]
        /\ carts' = [carts EXCEPT ![c].status = "CONVERTED"]
        /\ inventory' = [v \in Variants |->
              [inventory[v] EXCEPT !.reserved = @ + Units(taken[r], v)]]
        /\ ledger' = [v \in Variants |->
              [ledger[v] EXCEPT !.reservation = @ + Units(lines[r], v)]]
        /\ orders' = [orders EXCEPT ![r] =
              [user |-> UserOf[r], cart |-> c, currency |-> carts[c].currency,
               vendorOrders |-> GroupByVendor(lines[r])]]
        /\ UNCHANGED <<cartItems, catalog, cartRef, itemRef, lines, taken,
                       current>>
    BY <1>5 DEF PlaceOrder, locals
  <2>2. PICK a \in {"2xx", "5xx"} : Finish(r, a)
    BY <1>5 DEF PlaceOrder
  <2>3. /\ pc' = [pc EXCEPT ![r] = "done"]
        /\ answer' = [answer EXCEPT ![r] = a]
    BY <2>2 DEF Finish
  <2>4. r \in InTransaction /\ c \in AddRequests /\ carts[c] \in CartRow
    BY <1>0, <2>1 DEF InTransaction, RequestsSound, TablesTypeOK
  <2>5. taken[r] \in SUBSET Line
    BY <1>0 DEF RequestsTypeOK
  \* What the commit adds to a variant's reserved counter is in stock.
  <2>6. ASSUME NEW v \in Variants
        PROVE  /\ Units(taken[r], v) \in Nat
               /\ inventory[v].reserved + Units(taken[r], v)
                     <= inventory[v].onHand
    <3>1. CASE \E l \in taken[r] : l.variant = v
      <4> DEFINE l == CHOOSE m \in taken[r] : m.variant = v
      <4>1. l \in taken[r] /\ l.variant = v
        BY <3>1
      <4>2. Units(taken[r], v) = l.quantity
        BY <3>1 DEF Units
      <4> HIDE DEF l
      <4>3. l.quantity \in Nat
        BY <2>5, <4>1 DEF Line
      <4> QED
        BY <1>0, <2>4, <4>1, <4>2, <4>3 DEF HeldStockStays
    <3>2. CASE ~ \E l \in taken[r] : l.variant = v
      <4>1. Units(taken[r], v) = 0
        BY <3>2 DEF Units
      <4> QED
        BY <1>0, <4>1 DEF StockSound, TablesTypeOK
    <3> QED
      BY <3>1, <3>2
  <2>7. ASSUME NEW v \in Variants
        PROVE  /\ inventory'[v].onHand = inventory[v].onHand
               /\ inventory'[v].reserved
                     = inventory[v].reserved + Units(taken[r], v)
               /\ ledger'[v].restock = ledger[v].restock
               /\ ledger'[v].adjustment = ledger[v].adjustment
               /\ ledger'[v].reservation
                     = ledger[v].reservation + Units(taken[r], v)
    BY <1>0, <2>1 DEF TablesTypeOK
  <2>8. StockSound' /\ LedgerBalances'
    <3>1. StockSound'
      BY <1>0, <2>6, <2>7 DEF StockSound, TablesTypeOK
    <3>2. LedgerBalances'
      BY <1>0, <2>6, <2>7 DEF LedgerBalances, TablesTypeOK
    <3> QED
      BY <3>1, <3>2
  <2>9. TypeOK'
    <3>1. carts' \in [AddRequests -> CartRow \cup {NoRow}]
      <4>1. [carts[c] EXCEPT !.status = "CONVERTED"] \in CartRow
        BY <2>4 DEF CartRow
      <4> QED
        BY <1>0, <2>1, <4>1 DEF TablesTypeOK
    <3>2. inventory' \in [Variants -> [onHand : Int4, reserved : Int4]]
      <4> SUFFICES ASSUME NEW v \in Variants
                   PROVE  [inventory[v] EXCEPT !.reserved = @ + Units(taken[r], v)]
                             \in [onHand : Int4, reserved : Int4]
        BY <2>1
      <4>1. inventory[v] \in [onHand : Int4, reserved : Int4]
        BY <1>0 DEF TablesTypeOK
      <4>2. inventory[v].reserved + Units(taken[r], v) \in Int4
        BY <1>0, <2>6, <4>1 DEF StockSound
      <4> QED
        BY <4>1, <4>2
    <3>3. ledger' \in [Variants -> [restock : Int, adjustment : Int,
                                   reservation : Int]]
      <4> SUFFICES ASSUME NEW v \in Variants
                   PROVE  [ledger[v] EXCEPT !.reservation = @ + Units(lines[r], v)]
                             \in [restock : Int, adjustment : Int,
                                 reservation : Int]
        BY <2>1
      <4>1. ledger[v] \in [restock : Int, adjustment : Int, reservation : Int]
        BY <1>0 DEF TablesTypeOK
      <4>2. Units(lines[r], v) \in Nat
        BY <2>1, <2>6
      <4> QED
        BY <4>1, <4>2
    <3>4. orders' \in [CheckoutRequests -> OrderRow \cup {NoRow}]
      <4>1. GroupByVendor(lines[r]) \in [Vendors -> SUBSET Line]
        BY <2>1, <2>5 DEF GroupByVendor
      <4>2. [user |-> UserOf[r], cart |-> c, currency |-> carts[c].currency,
             vendorOrders |-> GroupByVendor(lines[r])] \in OrderRow
        BY <2>4, <4>1 DEF OrderRow, CartRow
      <4> QED
        BY <1>0, <2>1, <4>2 DEF TablesTypeOK
    <3>5. cartItems' = cartItems /\ catalog' = catalog
      BY <2>1
    <3>6. TablesTypeOK'
      BY <1>0, <3>1, <3>2, <3>3, <3>4, <3>5 DEF TablesTypeOK
    <3>7. RequestsTypeOK'
      BY <1>0, <2>1, <2>3 DEF RequestsTypeOK
    <3> QED
      BY <3>6, <3>7 DEF TypeOK
  <2>10. RequestsSound'
    <3>1. \A d \in AddRequests : carts[d] # NoRow => carts'[d] # NoRow
      BY <1>0, <2>1, <2>4, NoRowAssumption DEF TablesTypeOK, CartRow
    <3> QED
      BY <1>0, <2>1, <2>3, <3>1 DEF RequestsSound, RequestsTypeOK
  <2>11. HeldStockStays'
    <3>1. InTransaction' \subseteq InTransaction \ {r}
      BY <1>0, <2>3 DEF InTransaction, RequestsTypeOK
    \* No other open checkout has taken of what r took.
    <3>2. ASSUME NEW s \in InTransaction \ {r}, NEW m \in taken[s]
          PROVE  m.variant \in Variants /\ Units(taken[r], m.variant) = 0
      <4>1. m \in Line
        BY <1>0 DEF RequestsTypeOK, InTransaction
      <4>2. \A l \in taken[r] : l.variant # m.variant
        BY <1>0, <2>4, <3>2 DEF HeldStockStays
      <4> QED
        BY <4>1, <4>2 DEF Units, Line
    <3>3. ASSUME NEW s \in InTransaction \ {r}, NEW m \in taken[s]
          PROVE  inventory'[m.variant].reserved + m.quantity
                    <= inventory'[m.variant].onHand
      <4>1. inventory[m.variant].reserved + m.quantity
               <= inventory[m.variant].onHand
        BY <1>0, <3>3 DEF HeldStockStays
      <4>2. inventory[m.variant].reserved \in Int
        BY <1>0, <3>2 DEF TablesTypeOK
      <4> QED
        BY <2>7, <3>2, <4>1, <4>2
    <3>4. taken' = taken
      BY <2>1
    <3>5. \A s \in InTransaction' : \A m \in taken'[s] :
             inventory'[m.variant].reserved + m.quantity
                <= inventory'[m.variant].onHand
      BY <3>1, <3>3, <3>4
    <3>6. \A s, t \in InTransaction' : \A l \in taken'[s], m \in taken'[t] :
             l.variant = m.variant => s = t /\ l = m
      BY <1>0, <3>1, <3>4 DEF HeldStockStays
    <3> HIDE DEF c
    <3> QED
      BY <3>5, <3>6 DEF HeldStockStays
  <2> QED
    BY <2>8, <2>9, <2>10, <2>11 DEF PurchaseInv
<1>6. CASE DeadlockVictim(r) \/ NumberCollides(r)
  BY <1>6, <1>f DEF DeadlockVictim, NumberCollides
<1> QED
  BY <1>1, <1>2, <1>3, <1>4, <1>5, <1>6 DEF CheckoutStep

\* Repricing a variant or making it available or not.
LEMMA VariantInv ==
    ASSUME PurchaseInv, NEW v \in Variants, UpdateVariant(v)
    PROVE  PurchaseInv'
<1> USE DEF UpdateVariant, locals
<1>1. TypeOK'
  BY DEF PurchaseInv, TypeOK, TablesTypeOK, RequestsTypeOK
<1>2. RequestsSound'
  BY DEF PurchaseInv, RequestsSound
<1>3. InTransaction' = InTransaction
  BY DEF InTransaction
<1> QED
  BY <1>1, <1>2, <1>3, QuietInv

\* Every step keeps the invariant.
LEMMA NextInv == PurchaseInv /\ [Next]_vars => PurchaseInv'
<1> SUFFICES ASSUME PurchaseInv, [Next]_vars PROVE PurchaseInv'
  OBVIOUS
<1>1. ASSUME NEW r \in Requests, Step(r) PROVE PurchaseInv'
  BY <1>1, AddInv, ItemInv, CheckoutInv, StockInv DEF Step
<1>2. ASSUME NEW r \in Requests, Interrupt(r) PROVE PurchaseInv'
  BY <1>2, FailInv DEF Interrupt
<1>3. CASE UNCHANGED vars
  <2> USE <1>3 DEF vars, tables, locals
  <2>1. TypeOK'
    BY DEF PurchaseInv, TypeOK, TablesTypeOK, RequestsTypeOK
  <2>2. RequestsSound'
    BY DEF PurchaseInv, RequestsSound
  <2>3. InTransaction' = InTransaction
    BY DEF InTransaction
  <2> QED
    BY <2>1, <2>2, <2>3, QuietInv
<1> QED
  BY <1>1, <1>2, <1>3, VariantInv DEF Next

\* PurchaseInv holds throughout every behaviour of carts, stock and checkout.
THEOREM PurchaseInvariant == Spec => []PurchaseInv
BY InitInv, NextInv, PTL DEF Spec

\* Type correctness: no interleaving writes a row its schema forbids, in
\* particular no counter that does not fit in its int4 column.
THEOREM TypeCorrect == Spec => []TypeOK
<1>1. PurchaseInv => TypeOK
  BY DEF PurchaseInv
<1> QED
  BY <1>1, PurchaseInvariant, PTL

\* The stock ledger explains the stock counters at every commit.
THEOREM LedgerIsBalanced == Spec => []LedgerBalances
<1>1. PurchaseInv => LedgerBalances
  BY DEF PurchaseInv
<1> QED
  BY <1>1, PurchaseInvariant, PTL

\* The stock CHECKs of the inventories table never fire, whatever checkouts,
\* restocks and adjustments interleave: 0 <= reserved <= onHand, and what an
\* open checkout has taken is there when it commits.
THEOREM StockIsHeld == Spec => []StockHolds
<1>1. PurchaseInv => StockHolds
  BY DEF PurchaseInv, StockHolds
<1> QED
  BY <1>1, PurchaseInvariant, PTL

----------------------------------------------------------------------------
\* Carts and orders.  CartsInv is inductive relative to PurchaseInv.

\* The initial carts satisfy the invariant.
LEMMA InitCarts == Init => CartsInv
<1> SUFFICES ASSUME Init PROVE CartsInv
  OBVIOUS
<1>1. /\ \A r \in AddRequests \ EarlierAdds :
            carts[r] = NoRow /\ cartItems[r] = NoRow
      /\ \A i \in EarlierAdds : cartItems[i] = StoredItems[i]
      /\ \A c \in EarlierAdds : StoredItems[c].cart = c =>
            carts[c] = [user |-> UserOf[c], status |-> "ACTIVE",
                        currency |-> StoredItems[c].currency]
      /\ \A c \in AddRequests : carts[c] # NoRow =>
            c \in EarlierAdds /\ StoredItems[c].cart = c
  BY StoredAssumption DEF Init
<1>2. /\ \A r \in Requests : pc[r] \in {"new", "done"}
      /\ \A r \in EarlierAdds : pc[r] = "done"
      /\ \A r \in CheckoutRequests : pc[r] = "new" /\ orders[r] = NoRow
  BY StoredAssumption, RequestsAssumption DEF Init
<1>3. \A c \in AddRequests : carts[c] # NoRow =>
          carts[c].user = UserOf[c] /\ carts[c].status = "ACTIVE"
  <2> SUFFICES ASSUME NEW c \in AddRequests, carts[c] # NoRow
               PROVE  carts[c].user = UserOf[c] /\ carts[c].status = "ACTIVE"
    OBVIOUS
  <2>1. carts[c] = [user |-> UserOf[c], status |-> "ACTIVE",
                    currency |-> StoredItems[c].currency]
    BY <1>1
  <2> QED
    BY <2>1
<1>4. RowsSound
  <2> SUFFICES ASSUME NEW r \in AddRequests
               PROVE  /\ pc[r] # "done" => carts[r] = NoRow /\ cartItems[r] = NoRow
                      /\ pc[r] # "in transaction"
                      /\ cartItems[r] # NoRow => carts[cartItems[r].cart] # NoRow
    BY <1>2 DEF RowsSound
  <2>1. CASE r \notin EarlierAdds
    BY <1>1, <1>2, <2>1
  <2>2. CASE r \in EarlierAdds
    <3>1. PICK c : c = StoredItems[r].cart
      OBVIOUS
    <3>2. cartItems[r].cart = c /\ c \in EarlierAdds /\ StoredItems[c].cart = c
      BY <1>1, <2>2, <3>1, StoredAssumption
    <3>3. carts[c] \in CartRow
      <4>1. StoredItems[c] \in ItemRow /\ UserOf[c] \in Users
        BY <3>2, StoredAssumption, OwnersAssumption
      <4>2. StoredItems[c].currency \in Currencies
        BY <4>1 DEF ItemRow
      <4>3. carts[c] = [user |-> UserOf[c], status |-> "ACTIVE",
                        currency |-> StoredItems[c].currency]
        BY <1>1, <3>2
      <4> QED
        BY <4>1, <4>2, <4>3 DEF CartRow
    <3> QED
      BY <1>2, <2>2, <3>2, <3>3, NoRowAssumption
  <2> QED
    BY <2>1, <2>2
<1>5. CheckoutsSound
  BY <1>2 DEF CheckoutsSound, InTransaction
<1>6. OneActiveCart
  BY <1>1, <1>3, StoredAssumption DEF OneActiveCart, ActiveCartsOf
<1>7. OneItemPerVariant
  BY <1>1, StoredAssumption DEF OneItemPerVariant, ItemsOf
<1>8. Placed = {}
  BY <1>2 DEF Placed
<1>9. OneOrderPerCart /\ OrderOfOneCustomerAndCurrency
  BY <1>3, <1>8 DEF OneOrderPerCart, OrderOfOneCustomerAndCurrency
<1> QED
  BY <1>4, <1>5, <1>6, <1>7, <1>9 DEF CartsInv, CartsUnique

\* The cart properties look at no table but carts, items and orders.
LEMMA OrdersStay ==
    ASSUME UNCHANGED <<carts, orders>>, OneOrderPerCart,
           OrderOfOneCustomerAndCurrency
    PROVE  (OneOrderPerCart /\ OrderOfOneCustomerAndCurrency)'
<1>1. Placed' = Placed
  BY DEF Placed
<1>2. \A r \in Placed : LinesOf(orders'[r]) = LinesOf(orders[r])
  OBVIOUS
<1>3. OneOrderPerCart'
  <2>1. \A c \in AddRequests :
           /\ {r \in Placed' : orders'[r].cart = c}
                 = {r \in Placed : orders[r].cart = c}
           /\ carts'[c] = carts[c]
    BY <1>1
  <2> QED
    BY <1>1, <2>1 DEF OneOrderPerCart
<1>4. OrderOfOneCustomerAndCurrency'
  BY <1>1, <1>2 DEF OrderOfOneCustomerAndCurrency, LinesOf
<1> QED
  BY <1>3, <1>4

LEMMA ActiveCartsStay ==
    ASSUME UNCHANGED carts, OneActiveCart
    PROVE  OneActiveCart'
<1>1. \A u \in Users : ActiveCartsOf(u)' = ActiveCartsOf(u)
  BY DEF ActiveCartsOf
<1> QED
  BY <1>1 DEF OneActiveCart

\* A step of request r that writes no cart and no order, and items of carts
\* that exist.
LEMMA CartsLocal ==
    ASSUME PurchaseInv, CartsInv, NEW r \in Requests, UNCHANGED <<carts, orders>>,
           \A q \in Requests \ {r} : pc'[q] = pc[q],
           \A q \in ShopperRequests \ {r} : cartRef'[q] = cartRef[q],
           \A q \in CheckoutRequests \ {r} : lines'[q] = lines[q],
           pc[r] # "done",
           OneItemPerVariant',
           \A i \in AddRequests : cartItems'[i] # NoRow =>
               carts[cartItems'[i].cart] # NoRow,
           \A i \in AddRequests : cartItems'[i] # NoRow =>
               \/ cartItems[i] # NoRow
               \/ i = r /\ pc'[r] = "done",
           r \in AddRequests /\ pc'[r] = "in transaction" /\ cartRef'[r] # NoRow =>
               carts[cartRef'[r]] # NoRow,
           r \in CheckoutRequests /\ pc'[r] # "done" =>
               /\ pc'[r] \in {"cart read", "lines loaded", "reserving"} =>
                     carts[cartRef'[r]].user = UserOf[r]
               /\ pc'[r] \in {"lines loaded", "reserving"} =>
                     \A l \in lines'[r] : l.currency = carts[cartRef'[r]].currency
               /\ pc'[r] = "reserving" =>
                     /\ carts[cartRef'[r]].status = "ACTIVE"
                     /\ \A s \in InTransaction \ {r} : cartRef[s] # cartRef'[r]
    PROVE  CartsInv'
<1>a. /\ RowsSound /\ CheckoutsSound
      /\ CartsUnique /\ OneOrderPerCart /\ OrderOfOneCustomerAndCurrency
  BY DEF CartsInv
<1>b. carts' = carts /\ orders' = orders
  OBVIOUS
<1>1. RowsSound'
  <2>1. ASSUME NEW q \in AddRequests
        PROVE  /\ pc'[q] # "done" => carts'[q] = NoRow /\ cartItems'[q] = NoRow
               /\ pc'[q] = "in transaction" /\ cartRef'[q] # NoRow =>
                     carts'[cartRef'[q]] # NoRow
               /\ cartItems'[q] # NoRow => carts'[cartItems'[q].cart] # NoRow
    <3>1. /\ pc[q] # "done" => carts[q] = NoRow /\ cartItems[q] = NoRow
          /\ pc[q] = "in transaction" /\ cartRef[q] # NoRow =>
                carts[cartRef[q]] # NoRow
      BY <1>a DEF RowsSound
    <3>2. CASE q = r
      BY <3>1, <3>2
    <3>3. CASE q # r
      <4>1. pc'[q] = pc[q] /\ cartRef'[q] = cartRef[q]
        BY <3>3
      <4> QED
        BY <3>1, <3>3, <4>1
    <3> QED
      BY <3>2, <3>3
  <2>2. \A q \in CheckoutRequests : orders'[q] # NoRow => pc'[q] = "done"
    BY <1>a DEF RowsSound
  <2> QED
    BY <2>1, <2>2 DEF RowsSound
<1>2. CheckoutsSound'
  <2>1. ASSUME NEW q \in CheckoutRequests
        PROVE  /\ pc'[q] \in {"cart read", "lines loaded", "reserving"} =>
                     carts'[cartRef'[q]].user = UserOf[q]
               /\ pc'[q] \in {"lines loaded", "reserving"} =>
                     \A l \in lines'[q] : l.currency = carts'[cartRef'[q]].currency
               /\ pc'[q] = "reserving" => carts'[cartRef'[q]].status = "ACTIVE"
    <3>1. CASE q = r
      BY <3>1
    <3>2. CASE q # r
      <4>1. pc'[q] = pc[q] /\ cartRef'[q] = cartRef[q] /\ lines'[q] = lines[q]
        BY <3>2
      <4>2. /\ pc[q] \in {"cart read", "lines loaded", "reserving"} =>
                  carts[cartRef[q]].user = UserOf[q]
            /\ pc[q] \in {"lines loaded", "reserving"} =>
                  \A l \in lines[q] : l.currency = carts[cartRef[q]].currency
            /\ pc[q] = "reserving" => carts[cartRef[q]].status = "ACTIVE"
        BY <1>a DEF CheckoutsSound
      <4> QED
        BY <1>b, <4>1, <4>2
    <3> QED
      BY <3>1, <3>2
  <2>2. ASSUME NEW q \in InTransaction', NEW s \in InTransaction',
               cartRef'[q] = cartRef'[s]
        PROVE  q = s
    <3>1. \A x \in InTransaction' \ {r} : x \in InTransaction /\ cartRef'[x] = cartRef[x]
      BY DEF InTransaction
    <3>2. r \in InTransaction' =>
              \A x \in InTransaction \ {r} : cartRef[x] # cartRef'[r]
      BY DEF InTransaction
    <3>3. \A x, y \in InTransaction : cartRef[x] = cartRef[y] => x = y
      BY <1>a DEF CheckoutsSound
    <3>4. CASE q = r \/ s = r
      <4>1. CASE q = r /\ s # r
        <5>1. s \in InTransaction /\ cartRef'[s] = cartRef[s]
          BY <3>1, <4>1
        <5> QED
          BY <2>2, <3>2, <4>1, <5>1
      <4>2. CASE s = r /\ q # r
        <5>1. q \in InTransaction /\ cartRef'[q] = cartRef[q]
          BY <3>1, <4>2
        <5> QED
          BY <2>2, <3>2, <4>2, <5>1
      <4> QED
        BY <3>4, <4>1, <4>2
    <3>5. CASE q # r /\ s # r
      <4>1. /\ q \in InTransaction /\ cartRef'[q] = cartRef[q]
            /\ s \in InTransaction /\ cartRef'[s] = cartRef[s]
        BY <3>1, <3>5
      <4>2. cartRef[q] = cartRef[s]
        BY <2>2, <4>1
      <4> QED
        BY <3>3, <4>1, <4>2
    <3> QED
      BY <3>4, <3>5
  <2> QED
    BY <2>1, <2>2 DEF CheckoutsSound
<1>3. OneOrderPerCart' /\ OrderOfOneCustomerAndCurrency'
  BY <1>a, <1>b, OrdersStay
<1>4. CartsUnique'
  BY <1>a, <1>b, ActiveCartsStay DEF CartsUnique
<1> QED
  BY <1>1, <1>2, <1>3, <1>4 DEF CartsInv

\* The same, when the items stay.
LEMMA CartsQuiet ==
    ASSUME PurchaseInv, CartsInv, NEW r \in Requests,
           UNCHANGED <<carts, cartItems, orders>>,
           \A q \in Requests \ {r} : pc'[q] = pc[q],
           \A q \in ShopperRequests \ {r} : cartRef'[q] = cartRef[q],
           \A q \in CheckoutRequests \ {r} : lines'[q] = lines[q],
           pc[r] # "done",
           r \in AddRequests /\ pc'[r] = "in transaction" /\ cartRef'[r] # NoRow =>
               carts[cartRef'[r]] # NoRow,
           r \in CheckoutRequests /\ pc'[r] # "done" =>
               /\ pc'[r] \in {"cart read", "lines loaded", "reserving"} =>
                     carts[cartRef'[r]].user = UserOf[r]
               /\ pc'[r] \in {"lines loaded", "reserving"} =>
                     \A l \in lines'[r] : l.currency = carts[cartRef'[r]].currency
               /\ pc'[r] = "reserving" =>
                     /\ carts[cartRef'[r]].status = "ACTIVE"
                     /\ \A s \in InTransaction \ {r} : cartRef[s] # cartRef'[r]
    PROVE  CartsInv'
<1>1. OneItemPerVariant'
  BY DEF CartsInv, CartsUnique, OneItemPerVariant, ItemsOf
<1>2. \A i \in AddRequests : cartItems[i] # NoRow => carts[cartItems[i].cart] # NoRow
  BY DEF CartsInv, RowsSound
<1> QED
  BY <1>1, <1>2, CartsLocal

\* What Finish and Goto do to the places of the requests.
LEMMA PcFacts ==
    ASSUME PurchaseInv, NEW r \in Requests, NEW place,
           pc' = [pc EXCEPT ![r] = place]
    PROVE  pc'[r] = place /\ \A q \in Requests \ {r} : pc'[q] = pc[q]
BY DEF PurchaseInv, TypeOK, RequestsTypeOK

LEMMA FailCarts ==
    ASSUME PurchaseInv, CartsInv, NEW r \in Requests, pc[r] # "done",
           NEW a, Fail(r, a)
    PROVE  CartsInv'
<1>1. UNCHANGED <<carts, cartItems, orders, cartRef, lines>>
  BY DEF Fail, tables, locals
<1>2. pc'[r] = "done" /\ \A q \in Requests \ {r} : pc'[q] = pc[q]
  BY PcFacts DEF Fail, Finish
<1> QED
  BY <1>1, <1>2, CartsQuiet

\* A step that none of these variables notices.
LEMMA CartsStutter ==
    ASSUME CartsInv, UNCHANGED <<carts, cartItems, orders, pc, cartRef, lines>>
    PROVE  CartsInv'
<1>1. InTransaction' = InTransaction
  BY DEF InTransaction
<1>2. RowsSound' /\ CheckoutsSound'
  BY <1>1 DEF CartsInv, RowsSound, CheckoutsSound
<1>3. OneItemPerVariant'
  BY DEF CartsInv, CartsUnique, OneItemPerVariant, ItemsOf
<1> QED
  BY <1>2, <1>3, OrdersStay, ActiveCartsStay DEF CartsInv, CartsUnique

\* restock and adjust leave the carts alone.
LEMMA StockCarts ==
    ASSUME PurchaseInv, CartsInv, NEW r \in StockRequests, Restock(r) \/ Adjust(r)
    PROVE  CartsInv'
<1>1. pc[r] = "new" /\ UNCHANGED <<carts, cartItems, orders, cartRef, lines>>
  BY DEF Restock, Adjust, Refuse, Movable, Move, Fail, tables, locals
<1>2. PICK a \in Answers : Finish(r, a)
  BY DEF Restock, Adjust, Refuse, Fail
<1>3. pc'[r] = "done" /\ \A q \in Requests \ {r} : pc'[q] = pc[q]
  BY <1>2, PcFacts DEF Finish
<1>4. r \notin AddRequests \cup CheckoutRequests
  BY RequestsAssumption
<1> QED
  BY <1>1, <1>3, <1>4, CartsQuiet

\* addItem up to its transaction's first write.
LEMMA AddReadsCarts ==
    ASSUME PurchaseInv, CartsInv, NEW r \in AddRequests,
           ReadVariant(r) \/ CheckCurrency(r) \/ FindCart(r)
    PROVE  CartsInv'
<1>0. RequestsTypeOK /\ pc[r] # "done" /\ r \notin CheckoutRequests
  BY RequestsAssumption
     DEF PurchaseInv, TypeOK, ReadVariant, CheckCurrency, FindCart
<1>1. CASE ReadVariant(r)
  <2>1. CASE Fail(r, "4xx")
    BY <1>0, <2>1, FailCarts
  <2>2. CASE ~Fail(r, "4xx")
    <3>1. PICK l : lines' = [lines EXCEPT ![r] = l]
      BY <1>1, <2>2 DEF ReadVariant
    <3>2. /\ pc' = [pc EXCEPT ![r] = "variant read"]
          /\ UNCHANGED <<carts, cartItems, orders, cartRef>>
      BY <1>1, <2>2 DEF ReadVariant, Goto, tables
    <3>3. \A q \in CheckoutRequests \ {r} : lines'[q] = lines[q]
      BY <1>0, <3>1 DEF RequestsTypeOK
    <3>4. pc'[r] = "variant read" /\ \A q \in Requests \ {r} : pc'[q] = pc[q]
      BY <3>2, PcFacts
    <3> QED
      BY <1>0, <3>2, <3>3, <3>4, CartsQuiet
  <2> QED
    BY <2>1, <2>2
<1>2. CASE CheckCurrency(r)
  <2>1. CASE Fail(r, "4xx")
    BY <1>0, <2>1, FailCarts
  <2>2. CASE ~Fail(r, "4xx")
    <3>1. /\ pc' = [pc EXCEPT ![r] = "cart read"]
          /\ UNCHANGED <<carts, cartItems, orders, cartRef, lines>>
      BY <1>2, <2>2 DEF CheckCurrency, Goto, tables, locals
    <3>2. pc'[r] = "cart read" /\ \A q \in Requests \ {r} : pc'[q] = pc[q]
      BY <3>1, PcFacts
    <3> QED
      BY <1>0, <3>1, <3>2, CartsQuiet
  <2> QED
    BY <2>1, <2>2
<1>3. CASE FindCart(r)
  <2>1. PICK c \in FindActiveCart(UserOf[r]) : cartRef' = [cartRef EXCEPT ![r] = c]
    BY <1>3 DEF FindCart
  <2>2. c # NoRow => carts[c] # NoRow
    BY <2>1 DEF FindActiveCart, ActiveCartsOf
  <2>3. /\ cartRef'[r] = c
        /\ \A q \in ShopperRequests \ {r} : cartRef'[q] = cartRef[q]
    BY <1>0, <2>1 DEF RequestsTypeOK
  <2>4. /\ pc' = [pc EXCEPT ![r] = "in transaction"]
        /\ UNCHANGED <<carts, cartItems, orders, lines>>
    BY <1>3 DEF FindCart, Goto, tables
  <2>5. pc'[r] = "in transaction" /\ \A q \in Requests \ {r} : pc'[q] = pc[q]
    BY <2>4, PcFacts
  <2> QED
    BY <1>0, <2>2, <2>3, <2>4, <2>5, CartsQuiet
<1> QED
  BY <1>1, <1>2, <1>3

\* A new ACTIVE cart, where the index allows it, with the item as its one row.
LEMMA CreateCarts ==
    ASSUME PurchaseInv, CartsInv, NEW r \in AddRequests, CreateCart(r)
    PROVE  CartsInv'
<1>0. /\ TablesTypeOK /\ RequestsTypeOK /\ RequestsSound
      /\ RowsSound /\ CheckoutsSound
      /\ OneActiveCart /\ OneItemPerVariant
      /\ OneOrderPerCart /\ OrderOfOneCustomerAndCurrency
  BY DEF PurchaseInv, TypeOK, CartsInv, CartsUnique
<1>a. pc[r] = "in transaction" /\ r \notin CheckoutRequests
  BY RequestsAssumption DEF CreateCart
<1>1. CASE Fail(r, "5xx")
  BY <1>a, <1>1, FailCarts
<1>2. CASE ~Fail(r, "5xx")
  <2> DEFINE row == [user |-> UserOf[r], currency |-> LineOf(r).currency,
                     status |-> "ACTIVE"]
             item == NewItem(r, r)
  <2>1. /\ ActiveCartsOf(UserOf[r]) = {}
        /\ carts' = [carts EXCEPT ![r] = row]
        /\ cartItems' = [cartItems EXCEPT ![r] = item]
        /\ pc' = [pc EXCEPT ![r] = "done"]
        /\ UNCHANGED <<orders, cartRef, lines>>
    BY <1>2 DEF CreateCart, CartAllowed, Finish, locals
  <2>2. row \in CartRow /\ item \in ItemRow
    <3>1. LineOf(r) \in Line /\ UserOf[r] \in Users
      BY <1>a, LineOfInv, OwnersAssumption
    <3> QED
      BY <3>1 DEF CartRow, NewItem, ItemRow, Line
  <2>3. /\ row # NoRow /\ row.user = UserOf[r] /\ row.status = "ACTIVE"
        /\ item # NoRow /\ item.cart = r
    BY <2>2, NoRowAssumption DEF NewItem
  <2> HIDE DEF row, item
  <2>4. carts[r] = NoRow /\ cartItems[r] = NoRow
    BY <1>0, <1>a DEF RowsSound
  <2>5. /\ carts'[r] = row /\ cartItems'[r] = item
        /\ \A c \in AddRequests \ {r} :
              carts'[c] = carts[c] /\ cartItems'[c] = cartItems[c]
    BY <1>0, <2>1 DEF TablesTypeOK
  <2>6. pc'[r] = "done" /\ \A q \in Requests \ {r} : pc'[q] = pc[q]
    BY <2>1, PcFacts
  <2>7. \A i \in AddRequests : cartItems[i] # NoRow =>
            cartItems[i].cart \in AddRequests \ {r}
    <3> SUFFICES ASSUME NEW i \in AddRequests, cartItems[i] # NoRow
                 PROVE  cartItems[i].cart \in AddRequests \ {r}
      OBVIOUS
    <3>1. cartItems[i] \in ItemRow /\ carts[cartItems[i].cart] # NoRow
      BY <1>0 DEF TablesTypeOK, RowsSound
    <3> QED
      BY <2>4, <3>1 DEF ItemRow
  <2>8. RowsSound'
    <3>1. ASSUME NEW q \in AddRequests
          PROVE  /\ pc'[q] # "done" => carts'[q] = NoRow /\ cartItems'[q] = NoRow
                 /\ pc'[q] = "in transaction" /\ cartRef'[q] # NoRow =>
                       carts'[cartRef'[q]] # NoRow
                 /\ cartItems'[q] # NoRow => carts'[cartItems'[q].cart] # NoRow
      <4>1. CASE q = r
        BY <2>3, <2>5, <2>6, <4>1
      <4>2. CASE q # r
        <5>1. pc'[q] = pc[q] /\ cartRef'[q] = cartRef[q] /\ cartItems'[q] = cartItems[q]
          BY <2>1, <2>5, <2>6, <4>2
        <5>2. pc[q] # "done" => carts'[q] = NoRow /\ cartItems'[q] = NoRow
          BY <1>0, <2>5, <4>2 DEF RowsSound
        <5>3. pc[q] = "in transaction" /\ cartRef[q] # NoRow =>
                  carts'[cartRef[q]] # NoRow
          <6>1. cartRef[q] \in AddRequests \cup {NoRow}
            BY <1>0 DEF RequestsTypeOK
          <6>2. pc[q] = "in transaction" /\ cartRef[q] # NoRow =>
                    carts[cartRef[q]] # NoRow
            BY <1>0 DEF RowsSound
          <6> QED
            BY <2>4, <2>5, <6>1, <6>2
        <5>4. cartItems[q] # NoRow => carts'[cartItems[q].cart] # NoRow
          <6>1. cartItems[q] # NoRow => carts[cartItems[q].cart] # NoRow
            BY <1>0 DEF RowsSound
          <6> QED
            BY <2>5, <2>7, <6>1
        <5> QED
          BY <5>1, <5>2, <5>3, <5>4
      <4> QED
        BY <4>1, <4>2
    <3>2. \A q \in CheckoutRequests : orders'[q] # NoRow => pc'[q] = "done"
      BY <1>0, <1>a, <2>1, <2>6 DEF RowsSound
    <3> QED
      BY <3>1, <3>2 DEF RowsSound
  <2>9. CheckoutsSound'
    <3>1. \A q \in CheckoutRequests : pc'[q] = pc[q]
      BY <1>a, <2>6
    <3>2. \A q \in CheckoutRequests :
             pc[q] \in {"cart read", "lines loaded", "reserving"} =>
                carts'[cartRef[q]] = carts[cartRef[q]]
      BY <1>0, <2>4, <2>5 DEF RequestsSound
    <3>3. InTransaction' = InTransaction
      BY <3>1 DEF InTransaction
    <3>4. cartRef' = cartRef /\ lines' = lines
      BY <2>1
    <3>5. ASSUME NEW q \in CheckoutRequests
          PROVE  /\ pc'[q] \in {"cart read", "lines loaded", "reserving"} =>
                       carts'[cartRef'[q]].user = UserOf[q]
                 /\ pc'[q] \in {"lines loaded", "reserving"} =>
                       \A l \in lines'[q] : l.currency = carts'[cartRef'[q]].currency
                 /\ pc'[q] = "reserving" => carts'[cartRef'[q]].status = "ACTIVE"
      <4>1. /\ pc[q] \in {"cart read", "lines loaded", "reserving"} =>
                  carts[cartRef[q]].user = UserOf[q]
            /\ pc[q] \in {"lines loaded", "reserving"} =>
                  \A l \in lines[q] : l.currency = carts[cartRef[q]].currency
            /\ pc[q] = "reserving" => carts[cartRef[q]].status = "ACTIVE"
        BY <1>0 DEF CheckoutsSound
      <4> QED
        BY <3>1, <3>2, <3>4, <4>1
    <3>6. \A q, s \in InTransaction' : cartRef'[q] = cartRef'[s] => q = s
      BY <1>0, <3>3, <3>4 DEF CheckoutsSound
    <3> QED
      BY <3>5, <3>6 DEF CheckoutsSound
  <2>10. OneActiveCart'
    <3> SUFFICES ASSUME NEW u \in Users, NEW c \in ActiveCartsOf(u)',
                        NEW d \in ActiveCartsOf(u)'
                 PROVE  c = d
      BY DEF OneActiveCart
    <3>1. ASSUME NEW x \in ActiveCartsOf(u)'
          PROVE  \/ x = r /\ u = UserOf[r]
                 \/ x # r /\ x \in ActiveCartsOf(u)
      <4>1. /\ x \in AddRequests /\ carts'[x] # NoRow
            /\ carts'[x].user = u /\ carts'[x].status = "ACTIVE"
        BY <3>1 DEF ActiveCartsOf
      <4> QED
        BY <2>3, <2>5, <4>1 DEF ActiveCartsOf
    <3>2. \A x, y \in ActiveCartsOf(u) : x = y
      BY <1>0 DEF OneActiveCart
    <3> QED
      BY <2>1, <3>1, <3>2
  <2>11. OneItemPerVariant'
    <3> SUFFICES ASSUME NEW c \in AddRequests, NEW i \in ItemsOf(c)',
                        NEW j \in ItemsOf(c)',
                        cartItems'[i].variant = cartItems'[j].variant
                 PROVE  i = j
      BY DEF OneItemPerVariant
    <3>1. \A x \in ItemsOf(c)' : /\ x \in AddRequests
                                 /\ cartItems'[x] # NoRow
                                 /\ cartItems'[x].cart = c
      BY DEF ItemsOf
    <3>2. CASE c = r
      BY <2>5, <2>7, <3>1, <3>2
    <3>3. CASE c # r
      <4>1. i # r /\ j # r
        BY <2>3, <2>5, <3>1, <3>3
      <4>2. i \in ItemsOf(c) /\ j \in ItemsOf(c)
        BY <2>5, <3>1, <4>1 DEF ItemsOf
      <4>3. cartItems[i].variant = cartItems[j].variant
        BY <2>5, <3>1, <4>1
      <4> QED
        BY <1>0, <4>2, <4>3 DEF OneItemPerVariant
    <3> QED
      BY <3>2, <3>3
  <2>12. OneOrderPerCart' /\ OrderOfOneCustomerAndCurrency'
    <3>1. Placed' = Placed /\ orders' = orders
      BY <2>1 DEF Placed
    <3>2. \A q \in Placed : orders[q].cart \in AddRequests \ {r}
      <4> SUFFICES ASSUME NEW q \in Placed PROVE orders[q].cart \in AddRequests \ {r}
        OBVIOUS
      <4>1. orders[q].cart \in AddRequests
        BY <1>0 DEF Placed, TablesTypeOK, OrderRow
      <4>2. carts[orders[q].cart] # NoRow
        BY <1>0, <4>1 DEF OneOrderPerCart
      <4> QED
        BY <2>4, <4>1, <4>2
    <3>3. OneOrderPerCart'
      <4> SUFFICES ASSUME NEW c \in AddRequests
                   PROVE  LET from == {q \in Placed : orders[q].cart = c}
                          IN  /\ \A q, s \in from : q = s
                              /\ from # {} <=> /\ carts'[c] # NoRow
                                               /\ carts'[c].status = "CONVERTED"
        BY <3>1 DEF OneOrderPerCart
      <4>1. CASE c = r
        BY <2>3, <2>5, <3>2, <4>1
      <4>2. CASE c # r
        BY <1>0, <2>5, <4>2 DEF OneOrderPerCart
      <4> QED
        BY <4>1, <4>2
    <3>4. OrderOfOneCustomerAndCurrency'
      BY <1>0, <2>5, <3>1, <3>2 DEF OrderOfOneCustomerAndCurrency, LinesOf
    <3> QED
      BY <3>3, <3>4
  <2> QED
    BY <2>8, <2>9, <2>10, <2>11, <2>12 DEF CartsInv, CartsUnique
<1> QED
  BY <1>1, <1>2

\* A request's last statement, which writes items of carts that exist.
LEMMA ItemsWritten ==
    ASSUME PurchaseInv, CartsInv, NEW r \in AddRequests \cup ItemRequests,
           pc[r] # "done", Finish(r, "2xx"),
           UNCHANGED <<carts, orders, locals>>,
           \A i \in AddRequests : cartItems'[i] # NoRow =>
               /\ carts[cartItems'[i].cart] # NoRow
               /\ cartItems[i] # NoRow \/ i = r,
           \A i, j \in AddRequests :
               /\ cartItems'[i] # NoRow /\ cartItems'[j] # NoRow
               /\ cartItems'[i].cart = cartItems'[j].cart
               /\ cartItems'[i].variant = cartItems'[j].variant
               => i = j
    PROVE  CartsInv'
<1>1. r \in Requests /\ r \notin CheckoutRequests
  BY RequestsAssumption
<1>2. pc'[r] = "done" /\ \A q \in Requests \ {r} : pc'[q] = pc[q]
  BY <1>1, PcFacts DEF Finish
<1>3. OneItemPerVariant'
  BY DEF OneItemPerVariant, ItemsOf
<1>4. UNCHANGED <<carts, orders, cartRef, lines>>
  BY DEF locals
<1> QED
  BY <1>1, <1>2, <1>3, <1>4, CartsLocal

\* The rows of the cart's items before the write.
LEMMA ItemRows ==
    ASSUME PurchaseInv, CartsInv
    PROVE  /\ \A i \in AddRequests : cartItems[i] # NoRow =>
                 cartItems[i] \in ItemRow /\ carts[cartItems[i].cart] # NoRow
           /\ \A i, j \in AddRequests :
                 /\ cartItems[i] # NoRow /\ cartItems[j] # NoRow
                 /\ cartItems[i].cart = cartItems[j].cart
                 /\ cartItems[i].variant = cartItems[j].variant
                 => i = j
<1>1. \A i \in AddRequests : cartItems[i] # NoRow =>
          cartItems[i] \in ItemRow /\ carts[cartItems[i].cart] # NoRow
  BY DEF PurchaseInv, TypeOK, TablesTypeOK, CartsInv, RowsSound
<1>2. ASSUME NEW i \in AddRequests, NEW j \in AddRequests,
             cartItems[i] # NoRow, cartItems[j] # NoRow,
             cartItems[i].cart = cartItems[j].cart,
             cartItems[i].variant = cartItems[j].variant
      PROVE  i = j
  <2>1. PICK c \in AddRequests : c = cartItems[i].cart
    BY <1>1, <1>2 DEF ItemRow
  <2>2. i \in ItemsOf(c) /\ j \in ItemsOf(c)
    BY <1>2, <2>1 DEF ItemsOf
  <2> QED
    BY <1>2, <2>1, <2>2 DEF CartsInv, CartsUnique, OneItemPerVariant
<1> QED
  BY <1>1, <1>2

\* The upsert adds a row only where the cart has none for the variant.
LEMMA UpsertCarts ==
    ASSUME PurchaseInv, CartsInv, NEW r \in AddRequests, UpsertItem(r)
    PROVE  CartsInv'
<1>a. pc[r] = "in transaction" /\ cartRef[r] # NoRow
  BY DEF UpsertItem
<1>b. /\ cartItems \in [AddRequests -> ItemRow \cup {NoRow}]
      /\ cartRef[r] \in AddRequests
      /\ carts[cartRef[r]] # NoRow
      /\ LineOf(r) \in Line
  BY <1>a, LineOfInv
     DEF PurchaseInv, TypeOK, TablesTypeOK, RequestsTypeOK, CartsInv, RowsSound
<1> DEFINE same == SameItem(cartRef[r], LineOf(r).variant)
<1>1. CASE Fail(r, "5xx")
  BY <1>a, <1>1, FailCarts
<1>2. CASE /\ same = {}
           /\ cartItems' = [cartItems EXCEPT ![r] = NewItem(r, cartRef[r])]
           /\ Finish(r, "2xx")
           /\ UNCHANGED <<carts, orders, locals>>
  <2>1. /\ NewItem(r, cartRef[r]).cart = cartRef[r]
        /\ NewItem(r, cartRef[r]).variant = LineOf(r).variant
    BY DEF NewItem
  <2>2. /\ cartItems'[r] = NewItem(r, cartRef[r])
        /\ \A i \in AddRequests \ {r} : cartItems'[i] = cartItems[i]
    BY <1>b, <1>2
  <2>3. \A i \in AddRequests : cartItems[i] # NoRow =>
            ~ /\ cartItems[i].cart = cartRef[r]
              /\ cartItems[i].variant = LineOf(r).variant
    BY <1>2 DEF SameItem, ItemsOf
  <2>4. \A i \in AddRequests : cartItems'[i] # NoRow =>
            /\ carts[cartItems'[i].cart] # NoRow
            /\ cartItems[i] # NoRow \/ i = r
    BY <1>b, <2>1, <2>2, ItemRows
  <2>5. ASSUME NEW i \in AddRequests, NEW j \in AddRequests,
               cartItems'[i] # NoRow, cartItems'[j] # NoRow,
               cartItems'[i].cart = cartItems'[j].cart,
               cartItems'[i].variant = cartItems'[j].variant
        PROVE  i = j
    <3>1. CASE i = r \/ j = r
      BY <2>1, <2>2, <2>3, <2>5, <3>1
    <3>2. CASE i # r /\ j # r
      BY <2>2, <2>5, <3>2, ItemRows
    <3> QED
      BY <3>1, <3>2
  <2> QED
    BY <1>a, <1>2, <2>4, <2>5, ItemsWritten
<1>3. ASSUME NEW i \in same,
             cartItems' = [cartItems EXCEPT ![i] = [@ EXCEPT
                 !.quantity = cartItems[i].quantity + LineOf(r).quantity,
                 !.currency = LineOf(r).currency]],
             Finish(r, "2xx"),
             UNCHANGED <<carts, orders, locals>>
      PROVE  CartsInv'
  <2>1. i \in AddRequests /\ cartItems[i] # NoRow /\ cartItems[i] \in ItemRow
    BY <1>b DEF SameItem, ItemsOf
  <2>2. /\ cartItems'[i].cart = cartItems[i].cart
        /\ cartItems'[i].variant = cartItems[i].variant
        /\ \A j \in AddRequests \ {i} : cartItems'[j] = cartItems[j]
    BY <1>b, <1>3, <2>1 DEF ItemRow
  <2>3. \A j \in AddRequests : cartItems'[j] # NoRow =>
            /\ cartItems[j] # NoRow
            /\ cartItems'[j].cart = cartItems[j].cart
            /\ cartItems'[j].variant = cartItems[j].variant
    BY <2>1, <2>2
  <2>4. \A j \in AddRequests : cartItems'[j] # NoRow =>
            carts[cartItems'[j].cart] # NoRow
    BY <2>3, ItemRows
  <2>5. \A j, k \in AddRequests :
            /\ cartItems'[j] # NoRow /\ cartItems'[k] # NoRow
            /\ cartItems'[j].cart = cartItems'[k].cart
            /\ cartItems'[j].variant = cartItems'[k].variant
            => j = k
    BY <2>3, ItemRows
  <2> HIDE DEF same
  <2>6. UNCHANGED <<carts, orders, locals>> /\ Finish(r, "2xx")
    BY <1>3
  <2> QED
    BY <1>a, <2>3, <2>4, <2>5, <2>6, ItemsWritten
<1> QED
  BY <1>1, <1>2, <1>3 DEF UpsertItem

LEMMA AddCarts ==
    ASSUME PurchaseInv, CartsInv, NEW r \in AddRequests, AddItem(r)
    PROVE  CartsInv'
BY AddReadsCarts, CreateCarts, UpsertCarts DEF AddItem

\* The other cart operations create no row and move none to another cart.
LEMMA ItemCarts ==
    ASSUME PurchaseInv, CartsInv, NEW r \in ItemRequests, ChangeItem(r)
    PROVE  CartsInv'
<1>0. /\ cartItems \in [AddRequests -> ItemRow \cup {NoRow}]
      /\ RequestsTypeOK /\ RequestsSound
      /\ pc[r] # "done"
      /\ r \notin AddRequests \cup CheckoutRequests
  BY RequestsAssumption
     DEF PurchaseInv, TypeOK, TablesTypeOK, ChangeItem, FindItem,
         UpdateItemQuantity, RemoveItem, FindCartToClear, ClearCart
<1>f. ASSUME NEW a, Fail(r, a) PROVE CartsInv'
  BY <1>0, <1>f, FailCarts
<1>r. ASSUME NEW place, pc' = [pc EXCEPT ![r] = place],
             UNCHANGED <<carts, cartItems, orders, lines>>,
             \A q \in ShopperRequests \ {r} : cartRef'[q] = cartRef[q]
      PROVE  CartsInv'
  <2>1. pc'[r] = place /\ \A q \in Requests \ {r} : pc'[q] = pc[q]
    BY <1>r, PcFacts
  <2> QED
    BY <1>0, <1>r, <2>1, CartsQuiet
<1>w. ASSUME Finish(r, "2xx"), UNCHANGED <<carts, orders, locals>>,
             \A i \in AddRequests : cartItems'[i] # NoRow =>
                 /\ cartItems[i] # NoRow
                 /\ cartItems'[i].cart = cartItems[i].cart
                 /\ cartItems'[i].variant = cartItems[i].variant
      PROVE  CartsInv'
  BY <1>0, <1>w, ItemRows, ItemsWritten
<1>1. CASE FindItem(r)
  <2>1. CASE \E place : pc' = [pc EXCEPT ![r] = place]
                 /\ UNCHANGED <<carts, cartItems, orders, lines, cartRef>>
    BY <1>r, <2>1
  <2> QED
    BY <1>1, <1>f, <2>1 DEF FindItem, Goto, tables
<1>2. CASE UpdateItemQuantity(r)
  <2>1. PICK q \in 1..MaxQuantity :
           IF cartItems[itemRef[r]] # NoRow
           THEN /\ cartItems' = [cartItems EXCEPT ![itemRef[r]].quantity = q]
                /\ Finish(r, "2xx")
                /\ UNCHANGED <<carts, catalog, inventory, ledger, orders, locals>>
           ELSE Fail(r, "4xx")
    BY <1>2 DEF UpdateItemQuantity
  <2>2. CASE cartItems[itemRef[r]] # NoRow
    <3>1. itemRef[r] \in AddRequests /\ cartItems[itemRef[r]] \in ItemRow
      BY <1>0, <1>2, <2>2 DEF RequestsSound, UpdateItemQuantity
    <3>2. cartItems' = [cartItems EXCEPT ![itemRef[r]].quantity = q]
      BY <2>1, <2>2
    <3>3. /\ cartItems'[itemRef[r]].cart = cartItems[itemRef[r]].cart
          /\ cartItems'[itemRef[r]].variant = cartItems[itemRef[r]].variant
          /\ \A i \in AddRequests \ {itemRef[r]} : cartItems'[i] = cartItems[i]
      BY <1>0, <3>1, <3>2 DEF ItemRow
    <3>4. \A i \in AddRequests : cartItems'[i] # NoRow =>
              /\ cartItems[i] # NoRow
              /\ cartItems'[i].cart = cartItems[i].cart
              /\ cartItems'[i].variant = cartItems[i].variant
      BY <2>2, <3>1, <3>3
    <3> QED
      BY <1>w, <2>1, <2>2, <3>4
  <2> QED
    BY <1>f, <2>1, <2>2
<1>3. CASE RemoveItem(r)
  <2>1. CASE Fail(r, "4xx")
    BY <1>f, <2>1
  <2>2. CASE ~Fail(r, "4xx")
    <3>1. /\ cartItems' = [cartItems EXCEPT ![itemRef[r]] = NoRow]
          /\ Finish(r, "2xx")
          /\ UNCHANGED <<carts, orders, locals>>
      BY <1>3, <2>2 DEF RemoveItem
    <3>2. \A i \in AddRequests : cartItems'[i] \in {NoRow, cartItems[i]}
      BY <1>0, <3>1
    <3> QED
      BY <1>w, <3>1, <3>2
  <2> QED
    BY <2>1, <2>2
<1>4. CASE FindCartToClear(r)
  <2>1. CASE Finish(r, "2xx") /\ UNCHANGED <<tables, locals>>
    BY <1>r, <2>1 DEF Finish, tables, locals
  <2>2. CASE ~(Finish(r, "2xx") /\ UNCHANGED <<tables, locals>>)
    <3>1. PICK c : cartRef' = [cartRef EXCEPT ![r] = c]
      BY <1>4, <2>2 DEF FindCartToClear
    <3>2. /\ pc' = [pc EXCEPT ![r] = "clearing"]
          /\ UNCHANGED <<carts, cartItems, orders, lines>>
      BY <1>4, <2>2 DEF FindCartToClear, Goto, tables
    <3>3. \A q \in ShopperRequests \ {r} : cartRef'[q] = cartRef[q]
      BY <1>0, <3>1 DEF RequestsTypeOK
    <3> QED
      BY <1>r, <3>2, <3>3
  <2> QED
    BY <2>1, <2>2
<1>5. CASE ClearCart(r)
  <2>1. \A i \in AddRequests : cartItems'[i] \in {NoRow, cartItems[i]}
    BY <1>5 DEF ClearCart
  <2> QED
    BY <1>5, <1>w, <2>1 DEF ClearCart
<1> QED
  BY <1>1, <1>2, <1>3, <1>4, <1>5 DEF ChangeItem

\* A checkout up to its commit: what it reads of its cart stays true, and only
\* it converts the cart.
LEMMA CheckoutReadsCarts ==
    ASSUME PurchaseInv, CartsInv, NEW r \in CheckoutRequests,
           LoadCart(r) \/ LoadLines(r) \/ ConvertCart(r) \/ ReserveStock(r)
    PROVE  CartsInv'
<1>0. /\ RequestsTypeOK /\ RequestsSound /\ CheckoutsSound
      /\ pc[r] # "done" /\ r \notin AddRequests
  BY RequestsAssumption
     DEF PurchaseInv, TypeOK, CartsInv,
         LoadCart, LoadLines, ConvertCart, ReserveStock
<1>f. CASE Fail(r, "4xx")
  BY <1>0, <1>f, FailCarts
<1>1. CASE LoadCart(r) /\ ~Fail(r, "4xx")
  <2>1. PICK c \in FindActiveCart(UserOf[r]) :
           /\ c # NoRow
           /\ cartRef' = [cartRef EXCEPT ![r] = c]
           /\ \E l : lines' = [lines EXCEPT ![r] = l]
    BY <1>1 DEF LoadCart
  <2>2. carts[c].user = UserOf[r]
    BY <2>1 DEF FindActiveCart, ActiveCartsOf
  <2>3. /\ cartRef'[r] = c
        /\ \A q \in ShopperRequests \ {r} : cartRef'[q] = cartRef[q]
        /\ \A q \in CheckoutRequests \ {r} : lines'[q] = lines[q]
    BY <1>0, <2>1 DEF RequestsTypeOK
  <2>4. /\ pc' = [pc EXCEPT ![r] = "cart read"]
        /\ UNCHANGED <<carts, cartItems, orders>>
    BY <1>1 DEF LoadCart, Goto, tables
  <2>5. pc'[r] = "cart read" /\ \A q \in Requests \ {r} : pc'[q] = pc[q]
    BY <2>4, PcFacts
  <2> QED
    BY <1>0, <2>2, <2>3, <2>4, <2>5, CartsQuiet
<1>2. CASE LoadLines(r) /\ ~Fail(r, "4xx")
  <2>1. /\ pc[r] = "cart read"
        /\ \A l \in lines[r] :
              catalog[l.variant].currency = carts[cartRef[r]].currency
        /\ lines' = [lines EXCEPT ![r] =
              {[l EXCEPT !.currency = catalog[l.variant].currency] :
                 l \in lines[r]}]
        /\ pc' = [pc EXCEPT ![r] = "lines loaded"]
        /\ UNCHANGED <<carts, cartItems, orders, cartRef>>
    BY <1>2 DEF LoadLines, LineValid, Goto, tables
  <2>2. carts[cartRef[r]].user = UserOf[r]
    BY <1>0, <2>1 DEF CheckoutsSound
  <2>3. /\ \A l \in lines'[r] : l.currency = carts[cartRef[r]].currency
        /\ \A q \in CheckoutRequests \ {r} : lines'[q] = lines[q]
    <3>1. /\ lines'[r] = {[l EXCEPT !.currency = catalog[l.variant].currency] :
                            l \in lines[r]}
          /\ \A q \in CheckoutRequests \ {r} : lines'[q] = lines[q]
      BY <1>0, <2>1 DEF RequestsTypeOK
    <3>2. \A l \in lines[r] :
             [l EXCEPT !.currency = catalog[l.variant].currency].currency
                = catalog[l.variant].currency
      <4> SUFFICES ASSUME NEW l \in lines[r]
                   PROVE  [l EXCEPT !.currency = catalog[l.variant].currency]
                            .currency = catalog[l.variant].currency
        OBVIOUS
      <4>1. l \in Line
        BY <1>0 DEF RequestsTypeOK
      <4> QED
        BY <4>1 DEF Line
    <3> QED
      BY <2>1, <3>1, <3>2
  <2>4. pc'[r] = "lines loaded" /\ \A q \in Requests \ {r} : pc'[q] = pc[q]
    BY <2>1, PcFacts
  <2> QED
    BY <1>0, <2>1, <2>2, <2>3, <2>4, CartsQuiet
<1>3. CASE ConvertCart(r) /\ ~Fail(r, "4xx")
  <2>1. /\ pc[r] = "lines loaded"
        /\ ~CartLocked(cartRef[r])
        /\ carts[cartRef[r]].status = "ACTIVE"
        /\ pc' = [pc EXCEPT ![r] = "reserving"]
        /\ UNCHANGED <<carts, cartItems, orders, cartRef, lines>>
    BY <1>3 DEF ConvertCart, CartStillActive, Goto, tables
  <2>2. \A s \in InTransaction : cartRef[s] # cartRef[r]
    BY <2>1 DEF CartLocked, LocksCart, InTransaction
  <2>3. /\ carts[cartRef[r]].user = UserOf[r]
        /\ \A l \in lines[r] : l.currency = carts[cartRef[r]].currency
    BY <1>0, <2>1 DEF CheckoutsSound
  <2>4. pc'[r] = "reserving" /\ \A q \in Requests \ {r} : pc'[q] = pc[q]
    BY <2>1, PcFacts
  <2> QED
    BY <1>0, <2>1, <2>2, <2>3, <2>4, CartsQuiet
<1>4. CASE ReserveStock(r) /\ ~Fail(r, "4xx")
  <2>1. UNCHANGED <<carts, cartItems, orders, pc, cartRef, lines>>
    BY <1>4 DEF ReserveStock, tables
  <2> QED
    BY <2>1, CartsStutter
<1> QED
  BY <1>f, <1>1, <1>2, <1>3, <1>4

\* The commit converts the cart that r alone holds and places its one order.
LEMMA PlaceCarts ==
    ASSUME PurchaseInv, CartsInv, NEW r \in CheckoutRequests, PlaceOrder(r)
    PROVE  CartsInv'
<1>0. /\ TablesTypeOK /\ RequestsTypeOK /\ RequestsSound
      /\ RowsSound /\ CheckoutsSound
      /\ OneActiveCart /\ OneItemPerVariant
      /\ OneOrderPerCart /\ OrderOfOneCustomerAndCurrency
  BY DEF PurchaseInv, TypeOK, CartsInv, CartsUnique
<1> DEFINE c == cartRef[r]
           order == [user |-> UserOf[r], cart |-> c,
                     currency |-> carts[c].currency,
                     vendorOrders |-> GroupByVendor(lines[r])]
<1>1. /\ pc[r] = "reserving"
      /\ carts' = [carts EXCEPT ![c].status = "CONVERTED"]
      /\ orders' = [orders EXCEPT ![r] = order]
      /\ UNCHANGED <<cartItems, cartRef, lines>>
  BY DEF PlaceOrder, locals
<1>2. pc'[r] = "done" /\ \A q \in Requests \ {r} : pc'[q] = pc[q]
  <2>1. pc' = [pc EXCEPT ![r] = "done"]
    BY DEF PlaceOrder, Finish
  <2> QED
    BY <2>1, PcFacts
<1>3. /\ r \in InTransaction /\ r \notin AddRequests
      /\ c \in AddRequests /\ carts[c] \in CartRow
      /\ carts[c].user = UserOf[r] /\ carts[c].status = "ACTIVE"
      /\ \A l \in lines[r] : l.currency = carts[c].currency
  <2>1. r \in InTransaction /\ r \notin AddRequests
    BY <1>1, RequestsAssumption DEF InTransaction
  <2>2. c \in AddRequests /\ carts[c] \in CartRow
    BY <1>0, <1>1 DEF RequestsSound, TablesTypeOK
  <2>3. /\ carts[c].user = UserOf[r] /\ carts[c].status = "ACTIVE"
        /\ \A l \in lines[r] : l.currency = carts[c].currency
    BY <1>0, <1>1 DEF CheckoutsSound
  <2> QED
    BY <2>1, <2>2, <2>3
<1>4. /\ carts'[c] \in CartRow
      /\ carts'[c].status = "CONVERTED"
      /\ carts'[c].user = carts[c].user
      /\ carts'[c].currency = carts[c].currency
      /\ \A d \in AddRequests \ {c} : carts'[d] = carts[d]
  BY <1>0, <1>1, <1>3 DEF TablesTypeOK, CartRow
<1>5. \A d \in AddRequests :
          /\ carts'[d] # NoRow <=> carts[d] # NoRow
          /\ carts'[d].user = carts[d].user
          /\ carts'[d].currency = carts[d].currency
  BY <1>3, <1>4, NoRowAssumption
<1>6. /\ orders'[r] = order
      /\ order \in OrderRow /\ order # NoRow
      /\ \A q \in CheckoutRequests \ {r} : orders'[q] = orders[q]
      /\ orders[r] = NoRow
  <2>1. GroupByVendor(lines[r]) \in [Vendors -> SUBSET Line]
    BY <1>0 DEF GroupByVendor, RequestsTypeOK
  <2>2. order \in OrderRow
    BY <1>3, <2>1, OwnersAssumption DEF OrderRow, CartRow
  <2>3. orders[r] = NoRow
    BY <1>0, <1>1 DEF RowsSound
  <2> HIDE DEF order
  <2> QED
    BY <1>0, <1>1, <2>2, <2>3, NoRowAssumption DEF TablesTypeOK
<1>7. /\ order.user = UserOf[r] /\ order.cart = c
      /\ order.currency = carts[c].currency
      /\ LinesOf(order) \subseteq lines[r]
  BY DEF LinesOf, GroupByVendor
<1> HIDE DEF order
<1>8. r \notin Placed /\ Placed' = Placed \cup {r}
  BY <1>6 DEF Placed
<1>9. \A q \in Placed : orders'[q] = orders[q] /\ orders[q].cart # c
  <2>1. {q \in Placed : orders[q].cart = c} = {}
    BY <1>0, <1>3 DEF OneOrderPerCart
  <2> QED
    BY <1>6, <1>8, <2>1 DEF Placed
<1>10. RowsSound'
  <2>1. ASSUME NEW q \in AddRequests
        PROVE  /\ pc'[q] # "done" => carts'[q] = NoRow /\ cartItems'[q] = NoRow
               /\ pc'[q] = "in transaction" /\ cartRef'[q] # NoRow =>
                     carts'[cartRef'[q]] # NoRow
               /\ cartItems'[q] # NoRow => carts'[cartItems'[q].cart] # NoRow
    <3>1. pc'[q] = pc[q] /\ cartRef'[q] = cartRef[q] /\ cartItems'[q] = cartItems[q]
      BY <1>1, <1>2, <1>3
    <3>2. cartRef[q] \in AddRequests \cup {NoRow}
      BY <1>0 DEF RequestsTypeOK
    <3>3. cartItems[q] # NoRow => cartItems[q].cart \in AddRequests
      BY <1>0 DEF TablesTypeOK, ItemRow
    <3>4. /\ pc[q] # "done" => carts[q] = NoRow /\ cartItems[q] = NoRow
          /\ pc[q] = "in transaction" /\ cartRef[q] # NoRow =>
                carts[cartRef[q]] # NoRow
          /\ cartItems[q] # NoRow => carts[cartItems[q].cart] # NoRow
      BY <1>0 DEF RowsSound
    <3> QED
      BY <1>5, <3>1, <3>2, <3>3, <3>4
  <2>2. \A q \in CheckoutRequests : orders'[q] # NoRow => pc'[q] = "done"
    BY <1>0, <1>2, <1>6 DEF RowsSound
  <2> QED
    BY <2>1, <2>2 DEF RowsSound
<1>11. CheckoutsSound'
  <2>1. InTransaction' = InTransaction \ {r}
    BY <1>2 DEF InTransaction
  <2>2. \A q \in InTransaction' : cartRef[q] # c
    BY <1>0, <1>3, <2>1 DEF CheckoutsSound
  <2>3. ASSUME NEW q \in CheckoutRequests, q # r
        PROVE  /\ pc'[q] \in {"cart read", "lines loaded", "reserving"} =>
                     carts'[cartRef'[q]].user = UserOf[q]
               /\ pc'[q] \in {"lines loaded", "reserving"} =>
                     \A l \in lines'[q] : l.currency = carts'[cartRef'[q]].currency
               /\ pc'[q] = "reserving" => carts'[cartRef'[q]].status = "ACTIVE"
    <3>1. pc'[q] = pc[q] /\ cartRef'[q] = cartRef[q] /\ lines'[q] = lines[q]
      BY <1>1, <1>2, <2>3
    <3>2. /\ pc[q] \in {"cart read", "lines loaded", "reserving"} =>
                cartRef[q] \in AddRequests /\ carts[cartRef[q]].user = UserOf[q]
          /\ pc[q] \in {"lines loaded", "reserving"} =>
                \A l \in lines[q] : l.currency = carts[cartRef[q]].currency
          /\ pc[q] = "reserving" => carts[cartRef[q]].status = "ACTIVE"
      BY <1>0 DEF CheckoutsSound, RequestsSound
    <3>3. pc[q] = "reserving" => cartRef[q] # c
      BY <2>1, <2>2, <2>3 DEF InTransaction
    <3> HIDE DEF c
    <3> QED
      BY <1>4, <1>5, <3>1, <3>2, <3>3
  <2>4. \A q, s \in InTransaction' : cartRef'[q] = cartRef'[s] => q = s
    BY <1>0, <1>1, <2>1 DEF CheckoutsSound
  <2> QED
    BY <1>2, <2>3, <2>4 DEF CheckoutsSound
<1>12. CartsUnique'
  <2>1. \A u \in Users : ActiveCartsOf(u)' \subseteq ActiveCartsOf(u)
    BY <1>4, <1>5 DEF ActiveCartsOf
  <2>2. OneItemPerVariant'
    BY <1>0, <1>1 DEF OneItemPerVariant, ItemsOf
  <2> QED
    BY <1>0, <2>1, <2>2 DEF CartsUnique, OneActiveCart
<1>13. OneOrderPerCart'
  <2> SUFFICES ASSUME NEW d \in AddRequests
               PROVE  LET from == {q \in Placed' : orders'[q].cart = d}
                      IN  /\ \A q, s \in from : q = s
                          /\ from # {} <=> /\ carts'[d] # NoRow
                                           /\ carts'[d].status = "CONVERTED"
    BY DEF OneOrderPerCart
  <2>1. CASE d = c
    <3>1. {q \in Placed' : orders'[q].cart = d} = {r}
      BY <1>6, <1>7, <1>8, <1>9, <2>1
    <3> QED
      BY <1>4, <2>1, <3>1, NoRowAssumption
  <2>2. CASE d # c
    <3>1. {q \in Placed' : orders'[q].cart = d} = {q \in Placed : orders[q].cart = d}
      BY <1>6, <1>7, <1>8, <1>9, <2>2
    <3> QED
      BY <1>0, <1>4, <2>2, <3>1 DEF OneOrderPerCart
  <2> QED
    BY <2>1, <2>2
<1>14. OrderOfOneCustomerAndCurrency'
  <2> SUFFICES ASSUME NEW q \in Placed'
               PROVE  /\ orders'[q].user = UserOf[q]
                      /\ carts'[orders'[q].cart].user = UserOf[q]
                      /\ \A l \in LinesOf(orders'[q]) :
                            l.currency = orders'[q].currency
    BY DEF OrderOfOneCustomerAndCurrency, LinesOf
  <2>1. CASE q = r
    BY <1>3, <1>4, <1>6, <1>7, <2>1
  <2>2. CASE q # r
    <3>1. q \in Placed /\ orders'[q] = orders[q]
      BY <1>8, <1>9, <2>2
    <3>2. orders[q].cart \in AddRequests
      BY <1>0, <3>1 DEF Placed, TablesTypeOK, OrderRow
    <3>3. /\ orders[q].user = UserOf[q]
          /\ carts[orders[q].cart].user = UserOf[q]
          /\ \A l \in LinesOf(orders[q]) : l.currency = orders[q].currency
      BY <1>0, <3>1 DEF OrderOfOneCustomerAndCurrency
    <3> QED
      BY <1>5, <3>1, <3>2, <3>3
  <2> QED
    BY <2>1, <2>2
<1> QED
  BY <1>10, <1>11, <1>12, <1>13, <1>14 DEF CartsInv

\* Every step keeps the invariant of the carts.
LEMMA NextCarts == PurchaseInv /\ CartsInv /\ [Next]_vars => CartsInv'
<1> SUFFICES ASSUME PurchaseInv, CartsInv, [Next]_vars PROVE CartsInv'
  OBVIOUS
<1>1. ASSUME NEW r \in CheckoutRequests, CheckoutStep(r) PROVE CartsInv'
  <2>1. CASE DeadlockVictim(r) \/ NumberCollides(r)
    <3>1. pc[r] # "done"
      BY <2>1 DEF DeadlockVictim, Deadlocked, InTransaction, NumberCollides
    <3> QED
      BY <2>1, <3>1, FailCarts DEF DeadlockVictim, NumberCollides
  <2> QED
    BY <1>1, <2>1, CheckoutReadsCarts, PlaceCarts DEF CheckoutStep
<1>2. ASSUME NEW r \in Requests, Step(r) PROVE CartsInv'
  BY <1>1, <1>2, AddCarts, ItemCarts, StockCarts DEF Step
<1>3. ASSUME NEW r \in Requests, Interrupt(r) PROVE CartsInv'
  BY <1>3, FailCarts DEF Interrupt
<1>4. CASE UNCHANGED vars \/ \E v \in Variants : UpdateVariant(v)
  <2>1. UNCHANGED <<carts, cartItems, orders, pc, cartRef, lines>>
    BY <1>4 DEF vars, tables, locals, UpdateVariant
  <2> QED
    BY <2>1, CartsStutter
<1> QED
  BY <1>2, <1>3, <1>4 DEF Next

\* CartsInv holds throughout every behaviour of carts, stock and checkout.
THEOREM CartsInvariant == Spec => []CartsInv
BY InitCarts, NextCarts, PurchaseInvariant, PTL DEF Spec

\* A cart is CONVERTED exactly when one order was placed from it: no
\* interleaving of checkouts places a second order from a cart.
THEOREM CartOrderedOnce == Spec => []OneOrderPerCart
<1>1. CartsInv => OneOrderPerCart
  BY DEF CartsInv
<1> QED
  BY <1>1, CartsInvariant, PTL

\* A customer has at most one ACTIVE cart, and a cart holds a variant once,
\* however adds, changes and checkouts interleave.
THEOREM CartsAreUnique == Spec => []CartsUnique
<1>1. CartsInv => CartsUnique
  BY DEF CartsInv
<1> QED
  BY <1>1, CartsInvariant, PTL

\* An order comes from a cart of the customer who placed it and is in one
\* currency.
THEOREM OrderIsOfOneCustomer == Spec => []OrderOfOneCustomerAndCurrency
<1>1. CartsInv => OrderOfOneCustomerAndCurrency
  BY DEF CartsInv
<1> QED
  BY <1>1, CartsInvariant, PTL

----------------------------------------------------------------------------
\* The lines of the orders.

LEMMA InitLines == Init => LinesSound
<1> SUFFICES ASSUME Init PROVE LinesSound
  OBVIOUS
<1>1. \A r \in CheckoutRequests : pc[r] \in {"new", "done"} /\ orders[r] = NoRow
  BY DEF Init
<1> QED
  BY <1>1 DEF LinesSound, OrderGroupedByVendor, Placed

\* Orders that stay, of lines that stay taken, stay grouped.
LEMMA GroupedStays ==
    ASSUME orders' = orders, OrderGroupedByVendor,
           \A q \in Placed : taken'[q] = taken[q]
    PROVE  OrderGroupedByVendor'
<1>1. Placed' = Placed
  BY DEF Placed
<1>2. \A q \in Placed :
          /\ LinesOf(orders[q]) = taken'[q] /\ taken'[q] # {}
          /\ \A w \in Vendors : \A l \in orders[q].vendorOrders[w] :
                VendorOf[l.variant] = w
  BY DEF OrderGroupedByVendor
<1>3. \A q \in Placed :
          /\ LinesOf(orders'[q]) = taken'[q] /\ taken'[q] # {}
          /\ \A w \in Vendors : \A l \in orders'[q].vendorOrders[w] :
                VendorOf[l.variant] = w
  BY <1>2
<1> QED
  BY <1>1, <1>3 DEF OrderGroupedByVendor, LinesOf

\* A step after which no checkout has advanced or lost its lines.
LEMMA LinesStay ==
    ASSUME LinesSound, UNCHANGED <<orders, taken>>,
           \A q \in CheckoutRequests :
               \/ pc'[q] = pc[q] /\ lines'[q] = lines[q]
               \/ pc'[q] = "done"
               \/ lines'[q] # {}
    PROVE  LinesSound'
<1>1. \A q \in CheckoutRequests :
          pc'[q] \in {"cart read", "lines loaded", "reserving"} => lines'[q] # {}
  BY DEF LinesSound
<1>2. OrderGroupedByVendor'
  BY GroupedStays DEF LinesSound
<1> QED
  BY <1>1, <1>2 DEF LinesSound

\* A request that is not a checkout.
LEMMA OthersLines ==
    ASSUME PurchaseInv, LinesSound, NEW r \in Requests \ CheckoutRequests, Step(r)
    PROVE  LinesSound'
<1>0. RequestsTypeOK
  BY DEF PurchaseInv, TypeOK
<1>1. UNCHANGED <<orders, taken>>
  BY DEF Step, AddItem, ReadVariant, CheckCurrency, FindCart, CreateCart,
         UpsertItem, ChangeItem, FindItem, UpdateItemQuantity, RemoveItem,
         FindCartToClear, ClearCart, Restock, Adjust, Refuse, Move, Fail,
         tables, locals
<1>2. \E place : pc' = [pc EXCEPT ![r] = place]
  BY DEF Step, AddItem, ReadVariant, CheckCurrency, FindCart, CreateCart,
         UpsertItem, ChangeItem, FindItem, UpdateItemQuantity, RemoveItem,
         FindCartToClear, ClearCart, Restock, Adjust, Refuse, Fail, Finish, Goto
<1>3. lines' = lines \/ \E l : lines' = [lines EXCEPT ![r] = l]
  BY DEF Step, AddItem, ReadVariant, CheckCurrency, FindCart, CreateCart,
         UpsertItem, ChangeItem, FindItem, UpdateItemQuantity, RemoveItem,
         FindCartToClear, ClearCart, Restock, Adjust, Refuse, Move, Fail, locals
<1>4. \A q \in CheckoutRequests : pc'[q] = pc[q] /\ lines'[q] = lines[q]
  BY <1>0, <1>2, <1>3 DEF RequestsTypeOK
<1> QED
  BY <1>1, <1>4, LinesStay

\* A request that ends without an order.
LEMMA FailLines ==
    ASSUME PurchaseInv, LinesSound, NEW r \in Requests, NEW a, Fail(r, a)
    PROVE  LinesSound'
<1>1. pc' = [pc EXCEPT ![r] = "done"] /\ UNCHANGED <<orders, taken, lines>>
  BY DEF Fail, Finish, tables, locals
<1>2. \A q \in CheckoutRequests : pc'[q] \in {pc[q], "done"}
  BY <1>1 DEF PurchaseInv, TypeOK, RequestsTypeOK
<1> QED
  BY <1>1, <1>2, LinesStay

\* A checkout reads at least one line, keeps its lines until it has taken all of
\* them, and its order divides them among the vendors.
LEMMA CheckoutLines ==
    ASSUME PurchaseInv, CartsInv, LinesSound, NEW r \in CheckoutRequests,
           CheckoutStep(r)
    PROVE  LinesSound'
<1>0. RequestsTypeOK /\ TablesTypeOK /\ RowsSound
  BY DEF PurchaseInv, TypeOK, CartsInv
<1>f. ASSUME NEW a, Fail(r, a) PROVE LinesSound'
  BY <1>f, FailLines
<1>r. ASSUME NEW place, NEW ls, ls # {}, pc' = [pc EXCEPT ![r] = place],
             lines' = [lines EXCEPT ![r] = ls], UNCHANGED <<orders, taken>>
      PROVE  LinesSound'
  <2>1. \A q \in CheckoutRequests : q # r => pc'[q] = pc[q] /\ lines'[q] = lines[q]
    BY <1>0, <1>r DEF RequestsTypeOK
  <2>2. lines'[r] # {}
    BY <1>0, <1>r DEF RequestsTypeOK
  <2> QED
    BY <1>r, <2>1, <2>2, LinesStay
<1>1. CASE LoadCart(r)
  <2>1. PICK c \in FindActiveCart(UserOf[r]) :
           IF c = NoRow \/ ItemsOf(c) = {}
           THEN Fail(r, "4xx")
           ELSE /\ lines' = [lines EXCEPT ![r] =
                     {[variant |-> cartItems[i].variant,
                       quantity |-> cartItems[i].quantity,
                       currency |-> cartItems[i].currency] : i \in ItemsOf(c)}]
                /\ Goto(r, "cart read")
                /\ UNCHANGED <<tables, taken>>
    BY <1>1 DEF LoadCart
  <2> DEFINE ls == {[variant |-> cartItems[i].variant,
                     quantity |-> cartItems[i].quantity,
                     currency |-> cartItems[i].currency] : i \in ItemsOf(c)}
  <2>2. CASE ~(c = NoRow \/ ItemsOf(c) = {})
    <3>1. ls # {}
      BY <2>2
    <3>2. /\ lines' = [lines EXCEPT ![r] = ls]
          /\ pc' = [pc EXCEPT ![r] = "cart read"]
          /\ UNCHANGED <<orders, taken>>
      BY <2>1, <2>2 DEF Goto, tables
    <3> HIDE DEF ls
    <3> QED
      BY <1>r, <3>1, <3>2
  <2> QED
    BY <1>f, <2>1, <2>2
<1>2. CASE LoadLines(r)
  <2> DEFINE ls == {[l EXCEPT !.currency = catalog[l.variant].currency] :
                      l \in lines[r]}
  <2>1. CASE /\ lines' = [lines EXCEPT ![r] = ls]
             /\ Goto(r, "lines loaded")
             /\ UNCHANGED <<tables, taken>>
    <3>1. ls # {}
      BY <1>2 DEF LinesSound, LoadLines
    <3>2. /\ lines' = [lines EXCEPT ![r] = ls]
          /\ pc' = [pc EXCEPT ![r] = "lines loaded"]
          /\ UNCHANGED <<orders, taken>>
      BY <2>1 DEF Goto, tables
    <3> HIDE DEF ls
    <3> QED
      BY <1>r, <3>1, <3>2
  <2> QED
    BY <1>2, <1>f, <2>1 DEF LoadLines
<1>3. CASE ConvertCart(r)
  <2>1. CASE Goto(r, "reserving") /\ UNCHANGED <<tables, lines, taken>>
    <3>1. lines[r] # {}
      BY <1>3 DEF LinesSound, ConvertCart
    <3>2. pc' = [pc EXCEPT ![r] = "reserving"]
      BY <2>1 DEF Goto
    <3>3. UNCHANGED <<orders, taken, lines>>
      BY <2>1 DEF tables
    <3>4. \A q \in CheckoutRequests : q # r => pc'[q] = pc[q]
      BY <1>0, <3>2 DEF RequestsTypeOK
    <3> QED
      BY <3>1, <3>3, <3>4, LinesStay
  <2> QED
    BY <1>3, <1>f, <2>1 DEF ConvertCart
<1>4. CASE ReserveStock(r)
  <2>1. CASE /\ taken' = [taken EXCEPT ![r] = @ \cup {current[r]}]
             /\ UNCHANGED <<tables, pc, lines>>
    <3>1. orders' = orders /\ pc' = pc /\ lines' = lines
      BY <2>1 DEF tables
    <3>2. r \notin Placed
      BY <1>0, <1>4 DEF RowsSound, Placed, ReserveStock
    <3>3. \A q \in Placed : taken'[q] = taken[q]
      BY <1>0, <2>1, <3>2 DEF RequestsTypeOK, Placed
    <3>4. OrderGroupedByVendor'
      BY <3>1, <3>3, GroupedStays DEF LinesSound
    <3> QED
      BY <3>1, <3>4 DEF LinesSound
  <2> QED
    BY <1>4, <1>f, <2>1 DEF ReserveStock
<1>5. CASE PlaceOrder(r)
  <2> DEFINE order == [user |-> UserOf[r], cart |-> cartRef[r],
                       currency |-> carts[cartRef[r]].currency,
                       vendorOrders |-> GroupByVendor(lines[r])]
  <2>1. /\ pc[r] = "reserving" /\ taken[r] = lines[r]
        /\ orders' = [orders EXCEPT ![r] = order]
        /\ pc' = [pc EXCEPT ![r] = "done"]
        /\ UNCHANGED <<lines, taken>>
    BY <1>5 DEF PlaceOrder, Finish, locals
  <2>2. lines[r] # {} /\ lines[r] \subseteq Line
    BY <1>0, <2>1 DEF LinesSound, RequestsTypeOK
  <2>3. /\ LinesOf(order) = lines[r]
        /\ \A w \in Vendors : \A l \in order.vendorOrders[w] :
              VendorOf[l.variant] = w
    <3>1. \A w \in Vendors :
             order.vendorOrders[w] = {l \in lines[r] : VendorOf[l.variant] = w}
      BY DEF GroupByVendor
    <3>2. \A l \in lines[r] : VendorOf[l.variant] \in Vendors
      BY <2>2, OwnersAssumption DEF Line
    <3> HIDE DEF order
    <3> QED
      BY <3>1, <3>2 DEF LinesOf
  <2> HIDE DEF order
  <2>4. /\ orders'[r] = order
        /\ \A q \in CheckoutRequests \ {r} : orders'[q] = orders[q]
    BY <1>0, <2>1 DEF TablesTypeOK
  <2>5. \A q \in CheckoutRequests : q # r => pc'[q] = pc[q]
    BY <1>0, <2>1 DEF RequestsTypeOK
  <2>6. pc'[r] = "done"
    BY <1>0, <2>1 DEF RequestsTypeOK
  <2>7. ASSUME NEW q \in Placed'
        PROVE  /\ LinesOf(orders'[q]) = taken[q] /\ taken[q] # {}
               /\ \A w \in Vendors : \A l \in orders'[q].vendorOrders[w] :
                     VendorOf[l.variant] = w
    <3>1. CASE q = r
      BY <2>1, <2>2, <2>3, <2>4, <3>1
    <3>2. CASE q # r
      <4>1. q \in Placed /\ orders'[q] = orders[q]
        BY <2>4, <3>2 DEF Placed
      <4> QED
        BY <4>1 DEF LinesSound, OrderGroupedByVendor
    <3> QED
      BY <3>1, <3>2
  <2>8. OrderGroupedByVendor'
    BY <2>1, <2>7 DEF OrderGroupedByVendor, LinesOf
  <2> QED
    BY <2>1, <2>5, <2>6, <2>8 DEF LinesSound
<1>6. CASE DeadlockVictim(r) \/ NumberCollides(r)
  BY <1>6, <1>f DEF DeadlockVictim, NumberCollides
<1> QED
  BY <1>1, <1>2, <1>3, <1>4, <1>5, <1>6 DEF CheckoutStep

LEMMA NextLines == PurchaseInv /\ CartsInv /\ LinesSound /\ [Next]_vars => LinesSound'
<1> SUFFICES ASSUME PurchaseInv, CartsInv, LinesSound, [Next]_vars
             PROVE  LinesSound'
  OBVIOUS
<1>1. ASSUME NEW r \in Requests, Step(r) PROVE LinesSound'
  <2>1. CASE r \notin CheckoutRequests
    BY <1>1, <2>1, OthersLines
  <2>2. CASE r \in CheckoutRequests
    <3>1. CheckoutStep(r)
      BY <1>1, <2>2, RequestsAssumption DEF Step
    <3> QED
      BY <2>2, <3>1, CheckoutLines
  <2> QED
    BY <2>1, <2>2
<1>2. ASSUME NEW r \in Requests, Interrupt(r) PROVE LinesSound'
  BY <1>2, FailLines DEF Interrupt
<1>3. CASE UNCHANGED vars \/ \E v \in Variants : UpdateVariant(v)
  <2>1. UNCHANGED <<orders, taken, pc, lines>>
    BY <1>3 DEF vars, tables, locals, UpdateVariant
  <2> QED
    BY <2>1, LinesStay
<1> QED
  BY <1>1, <1>2, <1>3 DEF Next

\* A placed order holds a line, exactly the lines whose stock its checkout took,
\* and under each vendor only lines of that vendor's variants.
THEOREM OrderIsGrouped == Spec => []OrderGroupedByVendor
<1>1. LinesSound => OrderGroupedByVendor
  BY DEF LinesSound
<1> QED
  BY <1>1, InitLines, NextLines, PurchaseInvariant, CartsInvariant, PTL DEF Spec

----------------------------------------------------------------------------
\* The refinement of StockBook: a commit of a checkout is a purchase, a restock
\* or adjustment a movement, and every other step a stutter.

\* A step that moves no stock, places no order and converts no cart.
LEMMA BookStutters ==
    ASSUME UNCHANGED <<inventory, orders>>, Spent' = Spent
    PROVE  UNCHANGED <<OnHand, Reserved, Bought, Spent>>
<1>1. OnHand' = OnHand /\ Reserved' = Reserved
  BY DEF OnHand, Reserved
<1>2. Bought' = Bought
  BY DEF Bought, Units, LinesOf
<1> QED
  BY <1>1, <1>2

LEMMA BookInitially == Init => Book!BookInit
<1> SUFFICES ASSUME Init PROVE Book!BookInit
  OBVIOUS
<1>1. PICK delivered \in [Variants -> 0..MaxInt] :
         inventory = [v \in Variants |-> [onHand |-> delivered[v], reserved |-> 0]]
  BY DEF Init
<1>2. OnHand \in [Variants -> 0..MaxInt] /\ Reserved = [v \in Variants |-> 0]
  BY <1>1 DEF OnHand, Reserved
<1>3. Bought = [r \in CheckoutRequests |-> [v \in Variants |-> 0]]
  BY DEF Init, Bought
<1>4. Spent = {}
  <2> SUFFICES ASSUME NEW c \in AddRequests, carts[c] # NoRow
               PROVE  carts[c].status # "CONVERTED"
    BY DEF Spent
  <2>1. carts[c] = [user |-> UserOf[c], status |-> "ACTIVE",
                    currency |-> StoredItems[c].currency]
    BY DEF Init
  <2> QED
    BY <2>1
<1> QED
  BY <1>2, <1>3, <1>4 DEF Book!BookInit, Book!Nothing

\* The units of a commit were there, are at least one, and are bought once.
LEMMA OrderIsPurchase ==
    ASSUME PurchaseInv, CartsInv, LinesSound, LinesSound',
           NEW r \in CheckoutRequests, PlaceOrder(r)
    PROVE  Book!Buy(r, cartRef[r])
<1> USE BoundsAssumption
<1> DEFINE c == cartRef[r]
           units == [v \in Variants |-> Units(taken[r], v)]
<1>0. /\ TablesTypeOK /\ RequestsTypeOK /\ StockSound /\ HeldStockStays
      /\ RequestsSound /\ RowsSound /\ CheckoutsSound
  BY DEF PurchaseInv, TypeOK, CartsInv
<1>1. /\ pc[r] = "reserving" /\ taken[r] = lines[r]
      /\ carts' = [carts EXCEPT ![c].status = "CONVERTED"]
      /\ inventory' = [v \in Variants |->
            [inventory[v] EXCEPT !.reserved = @ + Units(taken[r], v)]]
      /\ UNCHANGED taken
      /\ \E order : orders' = [orders EXCEPT ![r] = order] /\ order \in OrderRow
  <2>1. carts[cartRef[r]] \in CartRow /\ cartRef[r] \in AddRequests
    BY <1>0 DEF PlaceOrder, RequestsSound, TablesTypeOK
  <2>2. GroupByVendor(lines[r]) \in [Vendors -> SUBSET Line]
    BY <1>0 DEF GroupByVendor, RequestsTypeOK
  <2>3. [user |-> UserOf[r], cart |-> cartRef[r],
         currency |-> carts[cartRef[r]].currency,
         vendorOrders |-> GroupByVendor(lines[r])] \in OrderRow
    BY <2>1, <2>2, OwnersAssumption DEF OrderRow, CartRow
  <2> QED
    BY <2>3 DEF PlaceOrder, locals
<1>2. r \in InTransaction /\ c \in AddRequests /\ carts[c] \in CartRow
      /\ carts[c].status = "ACTIVE" /\ orders[r] = NoRow
  <2>1. r \in InTransaction /\ c \in AddRequests /\ carts[c] \in CartRow
    BY <1>0, <1>1 DEF InTransaction, RequestsSound, TablesTypeOK
  <2>2. carts[c].status = "ACTIVE" /\ orders[r] = NoRow
    BY <1>0, <1>1 DEF CheckoutsSound, RowsSound
  <2> QED
    BY <2>1, <2>2
<1>t. \A l \in taken[r] : l.variant \in Variants /\ l.quantity \in 1..MaxInt
  <2>1. taken[r] \in SUBSET Line
    BY <1>0 DEF RequestsTypeOK
  <2> QED
    BY <2>1 DEF Line
<1>3. ASSUME NEW v \in Variants
      PROVE  /\ Units(taken[r], v) \in 0..MaxInt
             /\ inventory[v].reserved + Units(taken[r], v) <= inventory[v].onHand
             /\ (\E l \in taken[r] : l.variant = v) => Units(taken[r], v) # 0
  <2>1. CASE \E l \in taken[r] : l.variant = v
    <3> DEFINE l == CHOOSE m \in taken[r] : m.variant = v
    <3>1. l \in taken[r] /\ l.variant = v
      BY <2>1
    <3>2. Units(taken[r], v) = l.quantity
      BY <2>1 DEF Units
    <3> HIDE DEF l
    <3>3. l.quantity \in 1..MaxInt
      BY <1>t, <3>1
    <3> QED
      BY <1>0, <1>2, <3>1, <3>2, <3>3 DEF HeldStockStays
  <2>2. CASE ~ \E l \in taken[r] : l.variant = v
    <3>1. Units(taken[r], v) = 0
      BY <2>2 DEF Units
    <3> QED
      BY <1>0, <2>2, <3>1 DEF StockSound, TablesTypeOK
  <2> QED
    BY <2>1, <2>2
<1>4. units \in [Variants -> 0..MaxInt]
  BY <1>3
<1>5. units # [v \in Variants |-> 0]
  <2>1. PICK l : l \in taken[r]
    BY <1>1 DEF LinesSound
  <2>2. l.variant \in Variants
    BY <1>t, <2>1
  <2>3. units[l.variant] # 0
    BY <1>3, <2>1, <2>2
  <2> QED
    BY <2>2, <2>3
<1>6. \A v \in Variants : Reserved[v] + units[v] <= OnHand[v]
  BY <1>3 DEF Reserved, OnHand
<1>7. /\ Reserved' = [v \in Variants |-> Reserved[v] + units[v]]
      /\ OnHand' = OnHand
  <2>1. \A v \in Variants :
           /\ inventory'[v].reserved = inventory[v].reserved + Units(taken[r], v)
           /\ inventory'[v].onHand = inventory[v].onHand
    BY <1>0, <1>1 DEF TablesTypeOK
  <2> QED
    BY <2>1 DEF Reserved, OnHand
<1>8. Bought[r] = [v \in Variants |-> 0]
  BY <1>2 DEF Bought
<1>9. Bought' = [Bought EXCEPT ![r] = units]
  <2>1. orders'[r] # NoRow /\ \A q \in CheckoutRequests \ {r} : orders'[q] = orders[q]
    BY <1>0, <1>1, NoRowAssumption DEF TablesTypeOK
  <2>2. r \in Placed'
    BY <2>1 DEF Placed
  <2>3. UNION {orders'[r].vendorOrders[w] : w \in Vendors} = taken[r]
    BY <1>1, <2>2 DEF LinesSound, OrderGroupedByVendor, LinesOf
  <2>4. LinesOf(orders'[r]) = taken[r]
    BY <2>3 DEF LinesOf
  <2>5. Bought' = [q \in CheckoutRequests |-> [v \in Variants |->
                     IF orders'[q] = NoRow THEN 0 ELSE Units(LinesOf(orders'[q]), v)]]
    BY DEF Bought, Units, LinesOf
  <2>6. Bought' = [q \in CheckoutRequests |-> IF q = r THEN units ELSE Bought[q]]
    <3> SUFFICES ASSUME NEW q \in CheckoutRequests
                 PROVE  [v \in Variants |-> IF orders'[q] = NoRow THEN 0
                                            ELSE Units(LinesOf(orders'[q]), v)]
                           = IF q = r THEN units ELSE Bought[q]
      BY <2>5
    <3>1. CASE q = r
      BY <2>1, <2>4, <3>1
    <3>2. CASE q # r
      BY <2>1, <3>2 DEF Bought
    <3> QED
      BY <3>1, <3>2
  <2> QED
    BY <2>6 DEF Bought
<1>10. c \notin Spent /\ Spent' = Spent \cup {c}
  <2>1. c \notin Spent
    BY <1>2 DEF Spent
  <2>2. carts'[c] \in CartRow /\ carts'[c].status = "CONVERTED"
        /\ \A d \in AddRequests \ {c} : carts'[d] = carts[d]
    BY <1>0, <1>1, <1>2 DEF TablesTypeOK, CartRow
  <2>3. carts'[c] # NoRow
    BY <2>2, NoRowAssumption
  <2> QED
    BY <1>2, <2>1, <2>2, <2>3 DEF Spent
<1> HIDE DEF units
<1> QED
  BY <1>4, <1>5, <1>6, <1>7, <1>8, <1>9, <1>10 DEF Book!Buy, Book!Nothing

\* A movement leaves at least what is reserved and fits in the column.
LEMMA MoveIsMovement ==
    ASSUME PurchaseInv, NEW v \in Variants, NEW n \in Int, NEW entry,
           Move(v, n, entry), inventory[v].onHand + n <= MaxInt,
           inventory[v].onHand + n >= inventory[v].reserved
    PROVE  Book!MoveStock(v)
<1> USE BoundsAssumption
<1>1. /\ inventory' = [inventory EXCEPT ![v].onHand = @ + n]
      /\ UNCHANGED <<carts, orders>>
  BY DEF Move
<1>2. /\ inventory \in [Variants -> [onHand : Int4, reserved : Int4]]
      /\ inventory[v].reserved \in Int
  BY DEF PurchaseInv, TypeOK, TablesTypeOK
<1>3. \A w \in Variants :
         /\ inventory'[w].reserved = inventory[w].reserved
         /\ inventory'[w].onHand =
               IF w = v THEN inventory[v].onHand + n ELSE inventory[w].onHand
  BY <1>1, <1>2
<1>4. Reserved' = Reserved
  BY <1>3 DEF Reserved
<1>5. OnHand' = [OnHand EXCEPT ![v] = inventory[v].onHand + n]
  BY <1>3 DEF OnHand
<1>6. inventory[v].onHand + n \in Reserved[v]..MaxInt
  BY <1>2 DEF Reserved
<1>7. Spent' = Spent
  BY <1>1 DEF Spent
<1>8. Bought' = Bought
  BY <1>1 DEF Bought, Units, LinesOf
<1> QED
  BY <1>4, <1>5, <1>6, <1>7, <1>8 DEF Book!MoveStock

\* A restock or an adjustment moves one variant's stock or none.
LEMMA StockMoves ==
    ASSUME PurchaseInv, NEW r \in StockRequests, Restock(r) \/ Adjust(r)
    PROVE  \/ \E v \in Variants : Book!MoveStock(v)
           \/ UNCHANGED <<carts, inventory, orders>>
<1> USE BoundsAssumption
<1>0. \A v \in Variants : /\ inventory[v].onHand \in Int
                          /\ inventory[v].reserved \in Int
                          /\ inventory[v].onHand >= inventory[v].reserved
  BY DEF PurchaseInv, TypeOK, TablesTypeOK, StockSound
<1>f. CASE \E a \in Answers : Fail(r, a)
  BY <1>f DEF Fail, tables
<1>1. CASE Restock(r) /\ ~ \E a \in Answers : Fail(r, a)
  <2>1. PICK v \in Variants, q \in 1..MaxQuantity :
           /\ ~Overflows(v, q)
           /\ Move(v, q, [ledger[v] EXCEPT !.restock = @ + q])
    BY <1>1 DEF Restock, Refuse
  <2>2. /\ inventory[v].onHand + q <= MaxInt
        /\ inventory[v].onHand + q >= inventory[v].reserved
    BY <1>0, <2>1 DEF Overflows
  <2> QED
    BY <2>1, <2>2, MoveIsMovement
<1>2. CASE Adjust(r) /\ ~ \E a \in Answers : Fail(r, a)
  <2>1. PICK v \in Variants, d \in (-MaxQuantity..MaxQuantity) \ {0} :
           /\ ~Overflows(v, d)
           /\ AdjustmentAllowed(v, d)
           /\ Move(v, d, [ledger[v] EXCEPT !.adjustment = @ + d])
    BY <1>2 DEF Adjust, Refuse
  <2>2. /\ inventory[v].onHand + d <= MaxInt
        /\ inventory[v].onHand + d >= inventory[v].reserved
    BY <1>0, <2>1 DEF Overflows, AdjustmentAllowed
  <2> QED
    BY <2>1, <2>2, MoveIsMovement
<1> QED
  BY <1>f, <1>1, <1>2

\* An add leaves the converted carts as they are.
LEMMA AddSpendsNothing ==
    ASSUME PurchaseInv, CartsInv, NEW r \in AddRequests, AddItem(r)
    PROVE  UNCHANGED <<inventory, orders>> /\ Spent' = Spent
<1>1. CASE UNCHANGED <<inventory, orders, carts>>
  BY <1>1 DEF Spent
<1>2. CASE ~ UNCHANGED <<inventory, orders, carts>>
  <2>1. CreateCart(r)
    BY <1>2 DEF AddItem, ReadVariant, CheckCurrency, FindCart, UpsertItem,
                Fail, tables
  <2>2. /\ carts' = [carts EXCEPT ![r] = [user |-> UserOf[r],
              currency |-> LineOf(r).currency, status |-> "ACTIVE"]]
        /\ UNCHANGED <<inventory, orders>>
    BY <1>2, <2>1 DEF CreateCart, Fail, tables
  <2>3. carts[r] = NoRow
    BY <2>1 DEF CartsInv, RowsSound, CreateCart
  <2>4. /\ carts'[r].status = "ACTIVE"
        /\ \A c \in AddRequests \ {r} : carts'[c] = carts[c]
    BY <2>2 DEF PurchaseInv, TypeOK, TablesTypeOK
  <2> QED
    BY <2>2, <2>3, <2>4 DEF Spent
<1> QED
  BY <1>1, <1>2

\* Every step of carts, stock and checkout is a step of StockBook or none.
LEMMA BookStep ==
    PurchaseInv /\ CartsInv /\ LinesSound /\ LinesSound' /\ [Next]_vars
        => [Book!BookNext]_Book!bookVars
<1> SUFFICES ASSUME PurchaseInv, CartsInv, LinesSound, LinesSound', [Next]_vars
             PROVE  \/ \E b \in CheckoutRequests, c \in AddRequests : Book!Buy(b, c)
                    \/ \E v \in Variants : Book!MoveStock(v)
                    \/ UNCHANGED <<OnHand, Reserved, Bought, Spent>>
  BY DEF Book!BookNext, Book!bookVars
<1>0. ASSUME UNCHANGED <<carts, inventory, orders>>
      PROVE  UNCHANGED <<OnHand, Reserved, Bought, Spent>>
  <2>1. Spent' = Spent
    BY <1>0 DEF Spent
  <2> QED
    BY <1>0, <2>1, BookStutters
<1>1. CASE UNCHANGED vars \/ \E v \in Variants : UpdateVariant(v)
  BY <1>0, <1>1 DEF vars, tables, UpdateVariant
<1>2. CASE \E r \in Requests : Interrupt(r)
  BY <1>0, <1>2 DEF Interrupt, Fail, tables
<1>3. CASE \E r \in AddRequests : AddItem(r)
  BY <1>3, AddSpendsNothing, BookStutters
<1>4. CASE \E r \in ItemRequests : ChangeItem(r)
  BY <1>0, <1>4 DEF ChangeItem, FindItem, UpdateItemQuantity, RemoveItem,
                    FindCartToClear, ClearCart, Fail, tables
<1>5. CASE \E r \in StockRequests : Restock(r) \/ Adjust(r)
  BY <1>0, <1>5, StockMoves
<1>6. CASE \E r \in CheckoutRequests : CheckoutStep(r)
  <2>1. PICK r \in CheckoutRequests : CheckoutStep(r)
    BY <1>6
  <2>2. CASE PlaceOrder(r)
    <3>1. cartRef[r] \in AddRequests
      BY <2>2 DEF PlaceOrder, PurchaseInv, RequestsSound
    <3> QED
      BY <2>2, <3>1, OrderIsPurchase
  <2>3. CASE ~PlaceOrder(r)
    BY <1>0, <2>1, <2>3 DEF CheckoutStep, LoadCart, LoadLines, ConvertCart,
                            ReserveStock, DeadlockVictim, NumberCollides,
                            Fail, tables
  <2> QED
    BY <2>2, <2>3
<1> QED
  BY <1>1, <1>2, <1>3, <1>4, <1>5, <1>6 DEF Next, Step

LEMMA LinesInvariant == Spec => []LinesSound
BY InitLines, NextLines, PurchaseInvariant, CartsInvariant, PTL DEF Spec

\* Carts, stock and checkout implement StockBook: whatever interleaves, a
\* checkout buys all its lines at once or nothing, from stock that is there, and
\* a cart is bought once.
THEOREM KeepsTheStockBook == Spec => ImplementsStockBook
BY BookInitially, BookStep, PurchaseInvariant, CartsInvariant, LinesInvariant, PTL
   DEF Spec, ImplementsStockBook, Book!BookSpec

----------------------------------------------------------------------------
\* What orders add up to, by the steps of StockBook.

UnitsOf(v) == [r \in CheckoutRequests |-> Bought[r][v]]

\* The checkouts that have bought something.
Served == {r \in CheckoutRequests : Bought[r] # [v \in Variants |-> 0]}

\* Only finitely many checkouts have bought, and the units of a variant that
\* are reserved are the sum of what they have bought of it.
OrdersAddUp ==
    /\ Bought \in [CheckoutRequests -> [Variants -> Nat]]
    /\ IsFiniteSet(Served)
    /\ \A v \in Variants : Reserved[v] = SumOver(UnitsOf(v), Served)

\* The sum in ReservedIsOrdered is the one of Sums.
LEMMA UnitsSum ==
    ASSUME NEW v \in Variants, IsFiniteSet(Placed)
    PROVE  MapThenSumSet(LAMBDA r : Units(LinesOf(orders[r]), v), Placed)
               = SumOver(UnitsOf(v), Placed)
<1>0. PICK units : units = [r \in Placed |-> Units(LinesOf(orders[r]), v)]
  OBVIOUS
<1>1. PICK h : AddsUp(h, units, Placed)
  BY SumExists
<1>2. \A s \in SUBSET Placed : s # {} =>
          units[AnyOf(s)] = Units(LinesOf(orders[AnyOf(s)]), v)
  BY <1>0, AnyOfIn
<1>3. h = [s \in SUBSET Placed |->
             IF s = {} THEN 0
             ELSE Units(LinesOf(orders[AnyOf(s)]), v) + h[s \ {AnyOf(s)}]]
  <2>1. h = [s \in SUBSET Placed |-> h[s]]
    BY <1>1 DEF AddsUp
  <2>2. \A s \in SUBSET Placed :
           h[s] = IF s = {} THEN 0
                  ELSE Units(LinesOf(orders[AnyOf(s)]), v) + h[s \ {AnyOf(s)}]
    BY <1>1, <1>2, AddsUpAt
  <2> QED
    BY <2>1, <2>2
<1>4. PICK k :
        /\ k = [s \in SUBSET Placed |->
                  IF s = {} THEN 0
                  ELSE Units(LinesOf(orders[AnyOf(s)]), v) + k[s \ {AnyOf(s)}]]
        /\ MapThenSumSet(LAMBDA r : Units(LinesOf(orders[r]), v), Placed) = k[Placed]
  BY <1>3 DEF MapThenSumSet, MapThenFoldSet, AnyOf
<1>5. AddsUp(k, units, Placed)
  <2>1. k = [s \in SUBSET Placed |-> k[s]]
    BY <1>4
  <2>2. \A s \in SUBSET Placed :
           k[s] = IF s = {} THEN 0
                  ELSE Units(LinesOf(orders[AnyOf(s)]), v) + k[s \ {AnyOf(s)}]
    <3> HIDE DEF AnyOf
    <3> QED
      BY <1>4
  <2>3. \A s \in SUBSET Placed :
           k[s] = IF s = {} THEN 0 ELSE units[AnyOf(s)] + k[s \ {AnyOf(s)}]
    BY <1>2, <2>2
  <2> QED
    BY <2>1, <2>3 DEF AddsUp
<1>6. SumOver(units, Placed) = SumOver(UnitsOf(v), Placed)
  <2>1. \A r \in Placed : units[r] = UnitsOf(v)[r]
    BY <1>0 DEF UnitsOf, Bought, Placed
  <2> QED
    BY <2>1, SumSame
<1> QED
  BY <1>4, <1>5, <1>6, SumOfAddsUp

\* Whoever has placed an order has bought something, and nobody else.
LEMMA PlacedIsServed ==
    ASSUME TypeOK, LinesSound
    PROVE  Placed = Served
<1>1. ASSUME NEW r \in CheckoutRequests, orders[r] = NoRow
      PROVE  Bought[r] = [v \in Variants |-> 0]
  BY <1>1 DEF Bought
<1>2. ASSUME NEW r \in Placed PROVE Bought[r] # [v \in Variants |-> 0]
  <2>1. LinesOf(orders[r]) = taken[r] /\ taken[r] # {} /\ taken[r] \in SUBSET Line
    <3>1. r \in CheckoutRequests
      BY DEF Placed
    <3>2. LinesOf(orders[r]) = taken[r] /\ taken[r] # {}
      BY DEF LinesSound, OrderGroupedByVendor
    <3> QED
      BY <3>1, <3>2 DEF TypeOK, RequestsTypeOK
  <2>2. PICK l : l \in taken[r]
    BY <2>1
  <2>3. PICK v : v = l.variant /\ v \in Variants
    BY <2>1, <2>2 DEF Line
  <2>4. PICK m : /\ m = (CHOOSE x \in taken[r] : x.variant = v)
                 /\ m \in taken[r]
    BY <2>2, <2>3
  <2>5. Bought[r][v] = m.quantity
    BY <2>1, <2>2, <2>3, <2>4 DEF Bought, Placed, Units
  <2>6. m.quantity \in 1..MaxInt
    BY <2>1, <2>4 DEF Line
  <2> QED
    BY <2>3, <2>5, <2>6, BoundsAssumption
<1> QED
  BY <1>1, <1>2 DEF Placed, Served

LEMMA AddingUpIsOrdered ==
    ASSUME TypeOK, LinesSound, OrdersAddUp
    PROVE  ReservedIsOrdered
<1> SUFFICES ASSUME NEW v \in Variants
             PROVE  inventory[v].reserved =
                      MapThenSumSet(LAMBDA r : Units(LinesOf(orders[r]), v), Placed)
  BY DEF ReservedIsOrdered
<1>1. IsFiniteSet(Placed) /\ Reserved[v] = SumOver(UnitsOf(v), Placed)
  BY PlacedIsServed DEF OrdersAddUp
<1> QED
  BY <1>1, UnitsSum DEF Reserved

LEMMA NothingAddsUp == Init => OrdersAddUp
<1> SUFFICES ASSUME Init PROVE OrdersAddUp
  OBVIOUS
<1>1. /\ \A v \in Variants : Reserved[v] = 0
      /\ Bought = [r \in CheckoutRequests |-> [v \in Variants |-> 0]]
  BY BookInitially DEF Book!BookInit, Book!Nothing
<1>2. Served = {} /\ Bought \in [CheckoutRequests -> [Variants -> Nat]]
  BY <1>1 DEF Served
<1> QED
  BY <1>1, <1>2, FS_EmptySet, SumEmpty DEF OrdersAddUp

LEMMA BuyAddsUp ==
    ASSUME OrdersAddUp, NEW b \in CheckoutRequests, NEW c, Book!Buy(b, c)
    PROVE  OrdersAddUp'
<1>1. PICK units \in [Variants -> 0..MaxInt] :
        /\ units # [v \in Variants |-> 0]
        /\ Bought[b] = [v \in Variants |-> 0]
        /\ Reserved' = [v \in Variants |-> Reserved[v] + units[v]]
        /\ Bought' = [Bought EXCEPT ![b] = units]
  BY DEF Book!Buy, Book!Nothing
<1>2. Bought' \in [CheckoutRequests -> [Variants -> Nat]]
  <2>1. units \in [Variants -> Nat]
    BY BoundsAssumption
  <2> QED
    BY <1>1, <2>1 DEF OrdersAddUp
<1>3. PICK S : S = Served
  OBVIOUS
<1>4. Served' = S \cup {b} /\ b \notin S /\ S \subseteq CheckoutRequests
  BY <1>1, <1>3 DEF Served, OrdersAddUp
<1>5. IsFiniteSet(S) /\ IsFiniteSet(S \cup {b})
  BY <1>3, FS_AddElement DEF OrdersAddUp
<1>6. ASSUME NEW v \in Variants PROVE Reserved'[v] = SumOver(UnitsOf(v)', Served')
  <2>1. UnitsOf(v)' = [r \in CheckoutRequests |-> Bought'[r][v]]
    BY DEF UnitsOf
  <2>2. PICK f : f = [r \in CheckoutRequests |-> Bought'[r][v]]
    OBVIOUS
  <2>3. \A r \in S \cup {b} : f[r] \in Int
    BY <1>2, <1>4, <2>2
  <2>4. SumOver(f, S \cup {b}) = SumOver(f, S) + f[b]
    BY <1>4, <1>5, <2>3, SumAdd
  <2>5. \A r \in S : f[r] = UnitsOf(v)[r]
    BY <1>1, <1>4, <2>2 DEF UnitsOf, OrdersAddUp
  <2>6. SumOver(f, S) = Reserved[v]
    BY <1>3, <1>5, <2>5, SumSame DEF OrdersAddUp
  <2>7. f[b] = units[v]
    BY <1>1, <2>2 DEF OrdersAddUp
  <2> QED
    BY <1>1, <1>4, <2>1, <2>2, <2>4, <2>6, <2>7
<1> QED
  BY <1>2, <1>4, <1>5, <1>6 DEF OrdersAddUp

LEMMA BookAddsUp ==
    ASSUME OrdersAddUp, [Book!BookNext]_Book!bookVars
    PROVE  OrdersAddUp'
<1>1. CASE UNCHANGED <<Reserved, Bought>>
  BY <1>1 DEF OrdersAddUp, Served, UnitsOf
<1>2. CASE \E b \in CheckoutRequests, c \in AddRequests : Book!Buy(b, c)
  BY <1>2, BuyAddsUp
<1>3. UNCHANGED <<Reserved, Bought>>
        \/ \E b \in CheckoutRequests, c \in AddRequests : Book!Buy(b, c)
  BY DEF Book!BookNext, Book!bookVars, Book!MoveStock
<1> QED
  BY <1>1, <1>2, <1>3

\* The stock that is reserved is what the orders hold, variant by variant, and
\* each order gives each vendor its own lines among those reserved.
THEOREM StockIsOrdered == Spec => []OrdersMatchStock
<1>1. PurchaseInv => TypeOK
  BY DEF PurchaseInv
<1>2. OrdersAddUp /\ [Book!BookNext]_Book!bookVars => OrdersAddUp'
  BY BookAddsUp
<1>3. TypeOK /\ LinesSound /\ OrdersAddUp => OrdersMatchStock
  <2>1. LinesSound => OrderGroupedByVendor
    BY DEF LinesSound
  <2> QED
    BY <2>1, AddingUpIsOrdered DEF OrdersMatchStock
<1>4. Init => OrdersAddUp
  BY NothingAddsUp
<1> QED
  BY <1>1, <1>2, <1>3, <1>4, BookStep, PurchaseInvariant, CartsInvariant,
     LinesInvariant, PTL DEF Spec

----------------------------------------------------------------------------
\* The vendor orders.

HIDE DEF ShopperRequests, Requests, Places, Answers, Int4

Ends == {"FULFILLED", "CANCELLED"}

\* The statuses st as the transaction of request q sees them: Seen(r) with its
\* state as arguments.
SeenBy(q, st) == {IF v = q.target THEN q.to ELSE st[v] : v \in VendorOrders}

\* The transitions lead out of statuses that are not terminal, into statuses a
\* request may ask for.
LEMMA TransitionFacts ==
    \A s, t : <<s, t>> \in Transitions =>
        /\ s \in VendorStatuses /\ s \notin Terminal
        /\ t \in Targets /\ t \in VendorStatuses
        /\ s # t
BY DEF Transitions, VendorStatuses, Targets, Terminal

\* deriveMasterOrderStatus returns a MasterOrderStatus.
LEMMA DeriveType == \A S : Derive(S) \in MasterStatuses
BY DEF Derive, MasterStatuses

\* Vendor orders that have no returns derive an end only when all are at it.
LEMMA DeriveEnd ==
    ASSUME NEW S, S \subseteq {"PENDING"} \cup Targets, Derive(S) \in Ends
    PROVE  S \subseteq Terminal
BY DEF Derive, Ends, Targets, Terminal, Inactive

\* A row that continues a history keeps it a chain and becomes its last row.
LEMMA ChainAppend ==
    ASSUME NEW h \in Seq(Change), NEW c \in Change,
           Chain(h), c.from = Last(h).to
    PROVE  /\ Append(h, c) \in Seq(Change)
           /\ Chain(Append(h, c))
           /\ Last(Append(h, c)) = c
           /\ Len(Append(h, c)) = Len(h) + 1
           /\ \A k \in 1..Len(h) : Append(h, c)[k] = h[k]
           /\ Append(h, c)[Len(h) + 1] = c
<1>1. /\ Append(h, c) \in Seq(Change)
      /\ Len(Append(h, c)) = Len(h) + 1
      /\ \A k \in 1..Len(h) : Append(h, c)[k] = h[k]
      /\ Append(h, c)[Len(h) + 1] = c
  OBVIOUS
<1>2. Last(Append(h, c)) = c
  BY <1>1 DEF Last
<1>3. Len(h) \in Nat /\ Len(h) > 0
  BY DEF Chain
<1>4. ASSUME NEW k \in 2..(Len(h) + 1)
      PROVE  Append(h, c)[k].from = Append(h, c)[k-1].to
  <2>1. CASE k = Len(h) + 1
    <3>1. Append(h, c)[k] = c /\ Append(h, c)[k-1] = h[Len(h)]
      BY <1>1, <1>3, <2>1
    <3> QED
      BY <3>1 DEF Last
  <2>2. CASE k # Len(h) + 1
    <3>1. k \in 2..Len(h) /\ k \in 1..Len(h) /\ k - 1 \in 1..Len(h)
      BY <1>3, <2>2
    <3>2. Append(h, c)[k] = h[k] /\ Append(h, c)[k-1] = h[k-1]
      BY <1>1, <3>1
    <3> QED
      BY <3>1, <3>2 DEF Chain
  <2> QED
    BY <2>1, <2>2
<1>5. Append(h, c)[1].from = None
  BY <1>1, <1>3 DEF Chain
<1>6. Chain(Append(h, c))
  BY <1>1, <1>3, <1>4, <1>5 DEF Chain
<1> QED
  BY <1>1, <1>2, <1>6

----------------------------------------------------------------------------
\* Checkout's rows satisfy the invariant.
LEMMA FulfilmentInitInv == FulfilmentInit => FulfilmentInv
<1> SUFFICES ASSUME FulfilmentInit PROVE FulfilmentInv
  OBVIOUS
<1> USE DEF FulfilmentInit
<1>1. \A r \in Slots : req[r] = NoRequest
  OBVIOUS
<1>2. FulfilmentTypeOK
  <2>1. [from |-> None, to |-> "PENDING"] \in Change
    BY DEF Change, VendorStatuses, MasterStatuses
  <2>2. NoRequest \in Request
    BY AttemptsAssumption
       DEF NoRequest, Request, TransitionPlaces, VendorStatuses, MasterStatuses
  <2> QED
    BY <2>1, <2>2 DEF FulfilmentTypeOK, VendorStatuses, MasterStatuses
<1>3. TransitionsSound
  BY <1>1 DEF TransitionsSound, NoRequest, HoldsVendorOrder
<1>4. MasterWriteSound /\ DerivedEndSound
  BY <1>1 DEF MasterWriteSound, DerivedEndSound, NoRequest, HasDerived
<1>5. HistoryTrue /\ MasterHistoryTrue
  BY DEF HistoryTrue, MasterHistoryTrue, Chain, Last
<1>6. EndIsTrue
  BY DEF EndIsTrue
<1> QED
  BY <1>2, <1>3, <1>4, <1>5, <1>6 DEF FulfilmentInv

\* A step that writes no row and changes slot r alone preserves the invariant
\* when the request it leaves there is sound.
LEMMA ReqInv ==
    ASSUME FulfilmentInv, NEW r \in Slots, NEW q \in Request,
           req' = [req EXCEPT ![r] = q], UNCHANGED rows,
           q.pc # "idle" => /\ q.target \in VendorOrders
                            /\ <<q.from, q.to>> \in Transitions,
           q.pc \notin {"idle", "checked"} =>
               /\ status[q.target] = q.from
               /\ \A s \in Slots \ {r} : HoldsVendorOrder(s) => req[s].target # q.target,
           q.pc = "master written" =>
               /\ master = q.masterRead
               /\ \A s \in Slots \ {r} : req[s].pc # "master written",
           q.pc \in {"writing master", "master written"} => q.derived # q.masterRead,
           /\ q.pc \in {"reading master", "writing master",
                        "master unchanged", "master written"}
           /\ q.derived \in Ends
           => /\ SeenBy(q, status) \subseteq Terminal
              /\ q.derived = Derive(SeenBy(q, status))
    PROVE  FulfilmentInv'
<1>1. FulfilmentTypeOK'
  BY DEF FulfilmentInv, FulfilmentTypeOK, rows
<1>2. HistoryTrue' /\ MasterHistoryTrue' /\ EndIsTrue'
  BY DEF FulfilmentInv, HistoryTrue, MasterHistoryTrue, EndIsTrue, rows
<1>3. /\ req'[r] = q
      /\ \A s \in Slots \ {r} : req'[s] = req[s]
  BY DEF FulfilmentInv, FulfilmentTypeOK
<1>4. status' = status /\ master' = master
  BY DEF rows
<1>5. TransitionsSound'
  <2>1. /\ \A v \in VendorOrders : status'[v] \in {"PENDING"} \cup Targets
        /\ \A s \in Slots : req'[s].pc # "idle" =>
              /\ req'[s].target \in VendorOrders
              /\ <<req'[s].from, req'[s].to>> \in Transitions
    BY <1>3, <1>4 DEF FulfilmentInv, TransitionsSound
  <2>2. \A s \in Slots : HoldsVendorOrder(s)' => status'[req'[s].target] = req'[s].from
    BY <1>3, <1>4 DEF FulfilmentInv, TransitionsSound, HoldsVendorOrder
  <2>3. ASSUME NEW s \in Slots, NEW t \in Slots, HoldsVendorOrder(s)',
               HoldsVendorOrder(t)', req'[s].target = req'[t].target
        PROVE  s = t
    <3>1. CASE s # r /\ t # r
      BY <1>3, <2>3, <3>1 DEF FulfilmentInv, TransitionsSound, HoldsVendorOrder
    <3>2. CASE s = r \/ t = r
      BY <1>3, <2>3, <3>2 DEF HoldsVendorOrder
    <3> QED
      BY <3>1, <3>2
  <2> QED
    BY <2>1, <2>2, <2>3 DEF TransitionsSound
<1>6. MasterWriteSound'
  BY <1>3, <1>4 DEF FulfilmentInv, MasterWriteSound
<1>7. DerivedEndSound'
  <2> SUFFICES ASSUME NEW s \in Slots, HasDerived(s)',
                      req'[s].derived \in Ends
               PROVE  Seen(s)' \subseteq Terminal /\ req'[s].derived = Derive(Seen(s)')
    BY DEF DerivedEndSound, Ends
  <2>a. Seen(s)' = SeenBy(req'[s], status') /\ Seen(s) = SeenBy(req[s], status)
    BY DEF Seen, SeenBy
  <2>1. CASE s = r
    <3>1. q.pc \in {"reading master", "writing master",
                    "master unchanged", "master written"}
      BY <1>3, <2>1 DEF HasDerived
    <3> QED
      BY <1>3, <1>4, <2>a, <2>1, <3>1
  <2>2. CASE s # r
    <3>1. Seen(s)' = Seen(s) /\ HasDerived(s) /\ req[s].derived \in Ends
      BY <1>3, <1>4, <2>a, <2>2 DEF HasDerived
    <3> QED
      BY <1>3, <2>2, <3>1 DEF FulfilmentInv, DerivedEndSound, Ends
  <2> QED
    BY <2>1, <2>2
<1> QED
  BY <1>1, <1>2, <1>5, <1>6, <1>7 DEF FulfilmentInv

\* An answer that commits nothing: a lost update, an exhausted retry, a failure.
LEMMA EndInv ==
    ASSUME FulfilmentInv, NEW r \in Slots, End(r), UNCHANGED rows
    PROVE  FulfilmentInv'
<1>1. NoRequest \in Request
  BY AttemptsAssumption
     DEF NoRequest, Request, TransitionPlaces, VendorStatuses, MasterStatuses
<1>2. NoRequest.pc = "idle" /\ req' = [req EXCEPT ![r] = NoRequest]
  BY DEF NoRequest, End
<1> QED
  BY <1>1, <1>2, ReqInv

LEMMA CheckTransitionInv ==
    ASSUME FulfilmentInv, NEW r \in Slots, CheckTransition(r)
    PROVE  FulfilmentInv'
<1>1. PICK v \in VendorOrders, s \in Targets :
          /\ <<status[v], s>> \in Transitions
          /\ req' = [req EXCEPT ![r] = [NoRequest EXCEPT
                        !.pc = "checked", !.target = v,
                        !.from = status[v], !.to = s]]
  BY DEF CheckTransition
<1> DEFINE q == [NoRequest EXCEPT !.pc = "checked", !.target = v,
                                  !.from = status[v], !.to = s]
<1>2. /\ q \in Request
      /\ q.pc = "checked" /\ q.target = v /\ q.from = status[v] /\ q.to = s
  <2>1. status[v] \in VendorStatuses /\ s \in VendorStatuses
    BY TransitionFacts, <1>1
  <2>2. NoRequest \in Request
    BY AttemptsAssumption
       DEF NoRequest, Request, TransitionPlaces, VendorStatuses, MasterStatuses
  <2> QED
    BY <2>1, <2>2 DEF Request, TransitionPlaces
<1>3. UNCHANGED rows /\ req' = [req EXCEPT ![r] = q]
  BY <1>1 DEF CheckTransition
<1> HIDE DEF q
<1> QED
  BY <1>1, <1>2, <1>3, ReqInv

LEMMA UpdateVendorOrderInv ==
    ASSUME FulfilmentInv, NEW r \in Slots, UpdateVendorOrder(r)
    PROVE  FulfilmentInv'
<1>1. CASE ~StillAsRead(r)
  BY <1>1, EndInv DEF UpdateVendorOrder
<1>2. CASE StillAsRead(r)
  <2> DEFINE q == [req[r] EXCEPT !.pc = "reading siblings"]
  <2>1. /\ req[r] \in Request /\ req[r].pc = "checked"
        /\ \A s \in Slots : HoldsVendorOrder(s) => req[s].target # req[r].target
        /\ status[req[r].target] = req[r].from
        /\ UNCHANGED rows
    BY <1>2 DEF UpdateVendorOrder, StillAsRead, VendorOrderLocked,
                FulfilmentInv, FulfilmentTypeOK
  <2>2. req' = [req EXCEPT ![r] = q]
    BY <1>2 DEF UpdateVendorOrder
  <2>3. /\ q \in Request
        /\ q.pc = "reading siblings" /\ q.target = req[r].target
        /\ q.from = req[r].from /\ q.to = req[r].to
    BY <2>1 DEF Request, TransitionPlaces
  <2>4. q.target \in VendorOrders /\ <<q.from, q.to>> \in Transitions
    BY <2>1, <2>3 DEF FulfilmentInv, TransitionsSound
  <2> HIDE DEF q
  <2> QED
    BY <2>1, <2>2, <2>3, <2>4, ReqInv
<1> QED
  BY <1>1, <1>2

\* What the invariant says of the request of an open transaction.
LEMMA OpenFacts ==
    ASSUME FulfilmentInv, NEW r \in Slots, HoldsVendorOrder(r)
    PROVE  /\ req[r] \in Request
           /\ req[r].target \in VendorOrders
           /\ <<req[r].from, req[r].to>> \in Transitions
           /\ status[req[r].target] = req[r].from
           /\ status[req[r].target] \notin Terminal
           /\ \A s \in Slots \ {r} : HoldsVendorOrder(s) => req[s].target # req[r].target
<1>1. /\ req[r] \in Request
      /\ req[r].target \in VendorOrders
      /\ <<req[r].from, req[r].to>> \in Transitions
      /\ status[req[r].target] = req[r].from
      /\ \A s \in Slots \ {r} : HoldsVendorOrder(s) => req[s].target # req[r].target
  BY DEF FulfilmentInv, FulfilmentTypeOK, TransitionsSound, HoldsVendorOrder
<1> QED
  BY <1>1, TransitionFacts

LEMMA ReadSiblingsInv ==
    ASSUME FulfilmentInv, NEW r \in Slots, ReadSiblings(r)
    PROVE  FulfilmentInv'
<1> DEFINE q == [req[r] EXCEPT !.pc = "reading master", !.derived = Derive(Seen(r))]
<1>1. HoldsVendorOrder(r) /\ UNCHANGED rows /\ req' = [req EXCEPT ![r] = q]
  BY DEF ReadSiblings, HoldsVendorOrder
<1>2. req[r] \in Request
  BY <1>1, OpenFacts
<1>3. /\ q \in Request
      /\ q.pc = "reading master" /\ q.derived = Derive(Seen(r))
      /\ q.target = req[r].target /\ q.from = req[r].from /\ q.to = req[r].to
  BY <1>2, DeriveType DEF Request, TransitionPlaces
<1>4. /\ q.target \in VendorOrders
      /\ <<q.from, q.to>> \in Transitions
      /\ status[q.target] = q.from
      /\ \A s \in Slots \ {r} : HoldsVendorOrder(s) => req[s].target # q.target
  BY <1>1, <1>3, OpenFacts
<1>5. Seen(r) = SeenBy(q, status)
  BY <1>3 DEF Seen, SeenBy
<1>6. Seen(r) \subseteq {"PENDING"} \cup Targets
  <2>1. q.to \in Targets
    BY <1>4, TransitionFacts
  <2>2. \A v \in VendorOrders : status[v] \in {"PENDING"} \cup Targets
    BY DEF FulfilmentInv, TransitionsSound
  <2> HIDE DEF q
  <2> QED
    BY <1>5, <2>1, <2>2 DEF SeenBy
<1>7. q.derived \in Ends => Seen(r) \subseteq Terminal
  BY <1>3, <1>6, DeriveEnd
<1> HIDE DEF q
<1> QED
  BY <1>1, <1>3, <1>4, <1>5, <1>7, ReqInv

\* What the invariant says of what an open transaction has derived.
LEMMA DerivedFacts ==
    ASSUME FulfilmentInv, NEW r \in Slots, HasDerived(r), req[r].derived \in Ends
    PROVE  Seen(r) \subseteq Terminal /\ req[r].derived = Derive(Seen(r))
BY DEF FulfilmentInv, DerivedEndSound, Ends

LEMMA ReadMasterInv ==
    ASSUME FulfilmentInv, NEW r \in Slots, ReadMaster(r)
    PROVE  FulfilmentInv'
<1> DEFINE q == [req[r] EXCEPT
                    !.pc = IF master = req[r].derived THEN "master unchanged"
                           ELSE "writing master",
                    !.masterRead = master]
<1>1. /\ HoldsVendorOrder(r) /\ HasDerived(r)
      /\ UNCHANGED rows /\ req' = [req EXCEPT ![r] = q]
  BY DEF ReadMaster, HoldsVendorOrder, HasDerived
<1>2. req[r] \in Request /\ master \in MasterStatuses
  BY <1>1, OpenFacts DEF FulfilmentInv, FulfilmentTypeOK
<1>3. /\ q \in Request
      /\ q.pc \in {"master unchanged", "writing master"}
      /\ q.pc = "writing master" => q.derived # q.masterRead
      /\ q.derived = req[r].derived
      /\ q.target = req[r].target /\ q.from = req[r].from /\ q.to = req[r].to
  BY <1>2 DEF Request, TransitionPlaces
<1>4. /\ q.target \in VendorOrders
      /\ <<q.from, q.to>> \in Transitions
      /\ status[q.target] = q.from
      /\ \A s \in Slots \ {r} : HoldsVendorOrder(s) => req[s].target # q.target
  BY <1>1, <1>3, OpenFacts
<1>5. Seen(r) = SeenBy(q, status)
  BY <1>3 DEF Seen, SeenBy
<1>6. q.derived \in Ends => Seen(r) \subseteq Terminal /\ q.derived = Derive(Seen(r))
  BY <1>1, <1>3, DerivedFacts
<1> HIDE DEF q
<1> QED
  BY <1>1, <1>3, <1>4, <1>5, <1>6, ReqInv

LEMMA WriteMasterInv ==
    ASSUME FulfilmentInv, NEW r \in Slots, WriteMaster(r)
    PROVE  FulfilmentInv'
<1>1. HoldsVendorOrder(r) /\ HasDerived(r) /\ UNCHANGED rows
  BY DEF WriteMaster, HoldsVendorOrder, HasDerived
<1>2. /\ req[r] \in Request
      /\ req[r].target \in VendorOrders
      /\ <<req[r].from, req[r].to>> \in Transitions
      /\ status[req[r].target] = req[r].from
      /\ \A s \in Slots \ {r} : HoldsVendorOrder(s) => req[s].target # req[r].target
  BY <1>1, OpenFacts
<1>3. CASE MasterAsRead(r) /\ req' = [req EXCEPT ![r].pc = "master written"]
  <2> DEFINE q == [req[r] EXCEPT !.pc = "master written"]
  <2>1. req' = [req EXCEPT ![r] = q]
    BY <1>3
  <2>2. /\ q \in Request /\ q.pc = "master written"
        /\ q.derived = req[r].derived /\ q.masterRead = req[r].masterRead
        /\ q.target = req[r].target /\ q.from = req[r].from /\ q.to = req[r].to
    BY <1>2 DEF Request, TransitionPlaces
  <2>3. /\ master = q.masterRead
        /\ \A s \in Slots \ {r} : req[s].pc # "master written"
        /\ q.derived # q.masterRead
    BY <1>3, <2>2 DEF MasterAsRead, WriteMaster, MasterLocked,
                      FulfilmentInv, MasterWriteSound
  <2>4. Seen(r) = SeenBy(q, status)
    BY <2>2 DEF Seen, SeenBy
  <2>5. q.derived \in Ends => Seen(r) \subseteq Terminal /\ q.derived = Derive(Seen(r))
    BY <1>1, <2>2, DerivedFacts
  <2> HIDE DEF q
  <2> QED
    BY <1>1, <1>2, <2>1, <2>2, <2>3, <2>4, <2>5, ReqInv
<1>4. CASE ~LastAttempt(r) /\ req' = [req EXCEPT ![r].pc = "reading siblings",
                                                 ![r].attempt = @ + 1]
  <2> DEFINE q == [req[r] EXCEPT !.pc = "reading siblings",
                                 !.attempt = req[r].attempt + 1]
  <2>1. req' = [req EXCEPT ![r] = q]
    BY <1>4, <1>2 DEF FulfilmentInv, FulfilmentTypeOK
  <2>2. req[r].attempt + 1 \in 0..(MaxAttempts - 1)
    <3>1. /\ req[r].attempt \in 0..(MaxAttempts - 1)
          /\ req[r].attempt + 1 # MaxAttempts
      BY <1>2, <1>4 DEF Request, LastAttempt
    <3> QED
      BY <3>1, AttemptsAssumption
  <2>3. /\ q \in Request /\ q.pc = "reading siblings"
        /\ q.target = req[r].target /\ q.from = req[r].from /\ q.to = req[r].to
    BY <1>2, <2>2 DEF Request, TransitionPlaces
  <2> HIDE DEF q
  <2> QED
    BY <1>1, <1>2, <2>1, <2>3, ReqInv
<1>5. CASE End(r)
  BY <1>1, <1>5, EndInv
<1> QED
  BY <1>3, <1>4, <1>5 DEF WriteMaster

\* A commit publishes what the transaction has written.
LEMMA CommitInv ==
    ASSUME FulfilmentInv, NEW r \in Slots, Commit(r)
    PROVE  FulfilmentInv'
<1> DEFINE t == req[r].target
           row == [from |-> req[r].from, to |-> req[r].to]
           masterRow == [from |-> req[r].masterRead, to |-> req[r].derived]
<1>1. HoldsVendorOrder(r) /\ HasDerived(r)
  BY DEF Commit, HoldsVendorOrder, HasDerived
<1>2. /\ req[r] \in Request
      /\ t \in VendorOrders
      /\ <<req[r].from, req[r].to>> \in Transitions
      /\ status[t] = req[r].from
      /\ status[t] \notin Terminal
      /\ \A s \in Slots \ {r} : HoldsVendorOrder(s) => req[s].target # t
  BY <1>1, OpenFacts
<1>3. /\ status' = [status EXCEPT ![t] = req[r].to]
      /\ history' = [history EXCEPT ![t] = Append(history[t], row)]
      /\ req' = [req EXCEPT ![r] = NoRequest]
  BY DEF Commit, End
<1>4. \/ /\ req[r].pc = "master written"
         /\ master' = req[r].derived
         /\ masterHistory' = Append(masterHistory, masterRow)
      \/ req[r].pc = "master unchanged" /\ UNCHANGED <<master, masterHistory>>
  BY DEF Commit
<1>5. /\ status \in [VendorOrders -> VendorStatuses] /\ master \in MasterStatuses
      /\ history \in [VendorOrders -> Seq(Change)] /\ masterHistory \in Seq(Change)
      /\ req \in [Slots -> Request]
  BY DEF FulfilmentInv, FulfilmentTypeOK
<1>6. NoRequest \in Request /\ NoRequest.pc = "idle"
  BY AttemptsAssumption
     DEF NoRequest, Request, TransitionPlaces, VendorStatuses, MasterStatuses
<1>7. /\ row \in Change /\ row.from = req[r].from /\ row.to = req[r].to
      /\ masterRow \in Change
      /\ masterRow.from = req[r].masterRead /\ masterRow.to = req[r].derived
  BY <1>2 DEF Request, Change
<1>8. /\ Chain(history[t]) /\ Last(history[t]).to = status[t]
      /\ Chain(masterHistory) /\ Last(masterHistory).to = master
  BY <1>2 DEF FulfilmentInv, HistoryTrue, MasterHistoryTrue
<1> HIDE DEF row, masterRow, t
<1>9. /\ status'[t] = req[r].to /\ history'[t] = Append(history[t], row)
      /\ \A v \in VendorOrders \ {t} : status'[v] = status[v] /\ history'[v] = history[v]
      /\ req'[r] = NoRequest
      /\ \A s \in Slots \ {r} : req'[s] = req[s]
  BY <1>2, <1>3, <1>5
<1>10. FulfilmentTypeOK'
  <2>1. history[t] \in Seq(Change) /\ Append(history[t], row) \in Seq(Change)
    BY <1>2, <1>5, <1>7
  <2>2. status' \in [VendorOrders -> VendorStatuses]
    BY <1>2, <1>3, <1>5, TransitionFacts
  <2>3. history' \in [VendorOrders -> Seq(Change)]
    BY <1>3, <1>5, <2>1
  <2>4. req' \in [Slots -> Request]
    BY <1>3, <1>5, <1>6
  <2>5. master' \in MasterStatuses /\ masterHistory' \in Seq(Change)
    <3>1. req[r].derived \in MasterStatuses
      BY <1>2 DEF Request
    <3>2. Append(masterHistory, masterRow) \in Seq(Change)
      BY <1>5, <1>7
    <3> QED
      BY <1>4, <1>5, <3>1, <3>2
  <2> QED
    BY <2>2, <2>3, <2>4, <2>5 DEF FulfilmentTypeOK
<1>11. TransitionsSound'
  <2>1. \A v \in VendorOrders : status'[v] \in {"PENDING"} \cup Targets
    BY <1>2, <1>9, TransitionFacts DEF FulfilmentInv, TransitionsSound
  <2>2. \A s \in Slots : req'[s].pc # "idle" =>
            /\ req'[s].target \in VendorOrders
            /\ <<req'[s].from, req'[s].to>> \in Transitions
    BY <1>6, <1>9 DEF FulfilmentInv, TransitionsSound
  <2>3. ASSUME NEW s \in Slots, HoldsVendorOrder(s)'
        PROVE  /\ s # r /\ HoldsVendorOrder(s)
               /\ status'[req'[s].target] = req'[s].from
    <3>1. s # r
      BY <1>6, <1>9, <2>3 DEF HoldsVendorOrder
    <3>2. HoldsVendorOrder(s) /\ req'[s] = req[s]
      BY <1>9, <2>3, <3>1 DEF HoldsVendorOrder
    <3>3. /\ req[s].target \in VendorOrders /\ req[s].target # t
          /\ status[req[s].target] = req[s].from
      BY <1>2, <3>1, <3>2, OpenFacts
    <3> QED
      BY <1>9, <3>1, <3>2, <3>3
  <2>4. ASSUME NEW s \in Slots, NEW s2 \in Slots, HoldsVendorOrder(s)',
               HoldsVendorOrder(s2)', req'[s].target = req'[s2].target
        PROVE  s = s2
    <3>1. s # r /\ s2 # r /\ HoldsVendorOrder(s) /\ HoldsVendorOrder(s2)
      BY <2>3, <2>4
    <3>2. req[s].target = req[s2].target
      BY <1>9, <2>4, <3>1
    <3> QED
      BY <3>1, <3>2 DEF FulfilmentInv, TransitionsSound
  <2> QED
    BY <2>1, <2>2, <2>3, <2>4 DEF TransitionsSound
<1>12. MasterWriteSound'
  <2>1. ASSUME NEW s \in Slots, req'[s].pc # "idle"
        PROVE  s # r /\ req'[s] = req[s]
    BY <1>6, <1>9, <2>1
  <2>2. ASSUME NEW s \in Slots, req'[s].pc = "master written"
        PROVE  master' = req'[s].masterRead
    <3>1. s # r /\ req[s].pc = "master written" /\ req'[s] = req[s]
      BY <2>1, <2>2
    <3>2. req[r].pc # "master written"
      BY <3>1 DEF FulfilmentInv, MasterWriteSound
    <3>3. master' = master /\ master = req[s].masterRead
      BY <1>4, <3>1, <3>2 DEF FulfilmentInv, MasterWriteSound
    <3> QED
      BY <3>1, <3>3
  <2>3. \A s \in Slots :
          req'[s].pc \in {"writing master", "master written"} =>
             req'[s].derived # req'[s].masterRead
    BY <2>1 DEF FulfilmentInv, MasterWriteSound
  <2>4. \A s, s2 \in Slots :
          req'[s].pc = "master written" /\ req'[s2].pc = "master written" => s = s2
    BY <2>1 DEF FulfilmentInv, MasterWriteSound
  <2> QED
    BY <2>2, <2>3, <2>4 DEF MasterWriteSound
<1>13. DerivedEndSound'
  <2> SUFFICES ASSUME NEW s \in Slots, HasDerived(s)', req'[s].derived \in Ends
               PROVE  FALSE
    BY DEF DerivedEndSound, Ends
  <2>1. s # r
    BY <1>6, <1>9 DEF HasDerived
  <2>2. req'[s] = req[s] /\ HasDerived(s) /\ HoldsVendorOrder(s)
    BY <1>9, <2>1 DEF HasDerived, HoldsVendorOrder
  <2>3. Seen(s) \subseteq Terminal /\ req[s].target # t
    BY <1>2, <2>1, <2>2, DerivedFacts
  <2>4. status[t] \in Seen(s)
    BY <1>2, <2>3 DEF Seen
  <2> QED
    BY <1>2, <2>3, <2>4
<1>14. HistoryTrue'
  <2> SUFFICES ASSUME NEW v \in VendorOrders
               PROVE  /\ Chain(history'[v])
                      /\ Last(history'[v]).to = status'[v]
                      /\ \A k \in 2..Len(history'[v]) :
                            <<history'[v][k].from, history'[v][k].to>> \in Transitions
    BY DEF HistoryTrue
  <2>1. CASE v # t
    BY <1>9, <2>1 DEF FulfilmentInv, HistoryTrue
  <2>2. CASE v = t
    <3> DEFINE h == history[t]
    <3>1. h \in Seq(Change) /\ Chain(h) /\ row.from = Last(h).to
      BY <1>2, <1>5, <1>7, <1>8
    <3>2. \A k \in 2..Len(h) : <<h[k].from, h[k].to>> \in Transitions
      BY <1>2 DEF FulfilmentInv, HistoryTrue
    <3>3. history'[v] = Append(h, row) /\ status'[v] = row.to
      BY <1>7, <1>9, <2>2
    <3> HIDE DEF h
    <3>4. /\ Chain(Append(h, row)) /\ Last(Append(h, row)) = row
          /\ Len(Append(h, row)) = Len(h) + 1
          /\ \A k \in 1..Len(h) : Append(h, row)[k] = h[k]
          /\ Append(h, row)[Len(h) + 1] = row
      BY <1>7, <3>1, ChainAppend
    <3>5. ASSUME NEW k \in 2..(Len(h) + 1)
          PROVE  <<Append(h, row)[k].from, Append(h, row)[k].to>> \in Transitions
      <4>1. CASE k = Len(h) + 1
        BY <1>2, <1>7, <3>4, <4>1
      <4>2. CASE k # Len(h) + 1
        <5>1. k \in 2..Len(h) /\ k \in 1..Len(h)
          BY <3>1, <4>2
        <5> QED
          BY <3>2, <3>4, <5>1
      <4> QED
        BY <4>1, <4>2
    <3> QED
      BY <3>3, <3>4, <3>5
  <2> QED
    BY <2>1, <2>2
<1>15. MasterHistoryTrue'
  <2>1. CASE UNCHANGED <<master, masterHistory>>
    BY <2>1 DEF FulfilmentInv, MasterHistoryTrue
  <2>2. CASE /\ req[r].pc = "master written"
             /\ master' = req[r].derived
             /\ masterHistory' = Append(masterHistory, masterRow)
    <3> DEFINE h == masterHistory
    <3>1. req[r].masterRead = master /\ req[r].derived # req[r].masterRead
      BY <2>2 DEF FulfilmentInv, MasterWriteSound
    <3>2. h \in Seq(Change) /\ Chain(h) /\ masterRow.from = Last(h).to
      BY <1>5, <1>7, <1>8, <3>1
    <3>3. \A k \in 2..Len(h) : h[k].from # h[k].to
      BY DEF FulfilmentInv, MasterHistoryTrue
    <3>4. masterHistory' = Append(h, masterRow) /\ master' = masterRow.to
      BY <1>7, <2>2
    <3> HIDE DEF h
    <3>5. /\ Chain(Append(h, masterRow)) /\ Last(Append(h, masterRow)) = masterRow
          /\ Len(Append(h, masterRow)) = Len(h) + 1
          /\ \A k \in 1..Len(h) : Append(h, masterRow)[k] = h[k]
          /\ Append(h, masterRow)[Len(h) + 1] = masterRow
      BY <1>7, <3>2, ChainAppend
    <3>6. ASSUME NEW k \in 2..(Len(h) + 1)
          PROVE  Append(h, masterRow)[k].from # Append(h, masterRow)[k].to
      <4>1. CASE k = Len(h) + 1
        BY <1>7, <3>1, <3>5, <4>1
      <4>2. CASE k # Len(h) + 1
        <5>1. k \in 2..Len(h) /\ k \in 1..Len(h)
          BY <3>2, <4>2
        <5> QED
          BY <3>3, <3>5, <5>1
      <4> QED
        BY <4>1, <4>2
    <3> QED
      BY <3>4, <3>5, <3>6 DEF MasterHistoryTrue
  <2> QED
    BY <1>4, <2>1, <2>2
<1>16. EndIsTrue'
  <2> SUFFICES ASSUME master' \in Ends
               PROVE  /\ \A v \in VendorOrders : status'[v] \in Terminal
                      /\ master' = Derive({status'[v] : v \in VendorOrders})
    BY DEF EndIsTrue, Ends
  <2>1. CASE master' = master
    <3>1. status[t] \in Terminal
      BY <1>2, <2>1 DEF FulfilmentInv, EndIsTrue, Ends
    <3> QED
      BY <1>2, <3>1
  <2>2. CASE master' = req[r].derived
    <3>1. Seen(r) \subseteq Terminal /\ req[r].derived = Derive(Seen(r))
      BY <1>1, <2>2, DerivedFacts
    <3>2. Seen(r) = {IF v = t THEN req[r].to ELSE status[v] : v \in VendorOrders}
      BY DEF Seen, t
    <3>3. \A v \in VendorOrders : status'[v] = IF v = t THEN req[r].to ELSE status[v]
      BY <1>9
    <3>4. Seen(r) = {status'[v] : v \in VendorOrders}
      BY <3>2, <3>3
    <3> QED
      BY <2>2, <3>1, <3>4
  <2> QED
    BY <1>4, <2>1, <2>2
<1> QED
  BY <1>10, <1>11, <1>12, <1>13, <1>14, <1>15, <1>16 DEF FulfilmentInv

LEMMA FulfilmentNextInv == FulfilmentInv /\ [FulfilmentNext]_fulfilmentVars => FulfilmentInv'
<1> SUFFICES ASSUME FulfilmentInv, [FulfilmentNext]_fulfilmentVars PROVE FulfilmentInv'
  OBVIOUS
<1>1. ASSUME NEW r \in Slots, CheckTransition(r) PROVE FulfilmentInv'
  BY <1>1, CheckTransitionInv
<1>2. ASSUME NEW r \in Slots, UpdateVendorOrder(r) PROVE FulfilmentInv'
  BY <1>2, UpdateVendorOrderInv
<1>3. ASSUME NEW r \in Slots, ReadSiblings(r) PROVE FulfilmentInv'
  BY <1>3, ReadSiblingsInv
<1>4. ASSUME NEW r \in Slots, ReadMaster(r) PROVE FulfilmentInv'
  BY <1>4, ReadMasterInv
<1>5. ASSUME NEW r \in Slots, WriteMaster(r) PROVE FulfilmentInv'
  BY <1>5, WriteMasterInv
<1>6. ASSUME NEW r \in Slots, Commit(r) PROVE FulfilmentInv'
  BY <1>6, CommitInv
<1>7. ASSUME NEW r \in Slots, InterruptTransition(r) PROVE FulfilmentInv'
  BY <1>7, EndInv DEF InterruptTransition
<1>8. CASE UNCHANGED fulfilmentVars
  <2>1. /\ status' = status /\ master' = master /\ history' = history
        /\ masterHistory' = masterHistory /\ req' = req
    BY <1>8 DEF fulfilmentVars, progress, rows
  <2>2. FulfilmentTypeOK' /\ HistoryTrue' /\ MasterHistoryTrue' /\ EndIsTrue'
    BY <2>1 DEF FulfilmentInv, FulfilmentTypeOK, HistoryTrue, MasterHistoryTrue, EndIsTrue
  <2>3. TransitionsSound' /\ MasterWriteSound'
    BY <2>1 DEF FulfilmentInv, TransitionsSound, MasterWriteSound, HoldsVendorOrder
  <2>4. DerivedEndSound'
    <3>1. \A r \in Slots : Seen(r)' = Seen(r) /\ HasDerived(r)' = HasDerived(r)
      BY <2>1 DEF Seen, HasDerived
    <3> QED
      BY <2>1, <3>1 DEF FulfilmentInv, DerivedEndSound
  <2> QED
    BY <2>2, <2>3, <2>4 DEF FulfilmentInv
<1> QED
  BY <1>1, <1>2, <1>3, <1>4, <1>5, <1>6, <1>7, <1>8 DEF FulfilmentNext, FulfilmentStep

----------------------------------------------------------------------------
\* updateStatus keeps the inductive invariant, whatever requests run together.
THEOREM FulfilmentInvariant == FulfilmentSpec => []FulfilmentInv
BY FulfilmentInitInv, FulfilmentNextInv, PTL DEF FulfilmentSpec

\* Every row keeps its type, and no request uses more than MaxAttempts.
THEOREM FulfilmentTypeCorrect == FulfilmentSpec => []FulfilmentTypeOK
<1>1. FulfilmentInv => FulfilmentTypeOK
  BY DEF FulfilmentInv
<1> QED
  BY <1>1, FulfilmentInvariant, PTL

\* A vendor order's history is the path it has taken along allowed transitions,
\* and a master order's a gapless path of real changes to its status.
THEOREM HistoriesAreTrue == FulfilmentSpec => []HistoriesTrue
<1>1. FulfilmentInv => HistoriesTrue
  BY DEF FulfilmentInv, HistoriesTrue
<1> QED
  BY <1>1, FulfilmentInvariant, PTL

\* FULFILLED and CANCELLED are never claimed before every vendor order is at its
\* end and they follow from the vendor orders.
THEOREM EndNotEarly == FulfilmentSpec => []EndIsTrue
<1>1. FulfilmentInv => EndIsTrue
  BY DEF FulfilmentInv
<1> QED
  BY <1>1, FulfilmentInvariant, PTL

\* A recomputation in flight never takes FULFILLED or CANCELLED back: no
\* transaction can be open then, for each updates a vendor order that is not
\* at its end.
THEOREM EndStays == FulfilmentSpec => EndIsFinal
<1>1. FulfilmentInv /\ [FulfilmentNext]_fulfilmentVars =>
        [(master \in {"FULFILLED", "CANCELLED"} => master' = master)]_fulfilmentVars
  <2> SUFFICES ASSUME FulfilmentInv, FulfilmentNext, master \in {"FULFILLED", "CANCELLED"}
               PROVE  master' = master
    BY DEF fulfilmentVars, progress
  <2>1. PICK r \in Slots : CheckTransition(r) \/ FulfilmentStep(r) \/ InterruptTransition(r)
    BY DEF FulfilmentNext
  <2>2. CASE Commit(r)
    <3>1. HoldsVendorOrder(r)
      BY <2>2 DEF Commit, HoldsVendorOrder
    <3>2. req[r].target \in VendorOrders /\ status[req[r].target] \notin Terminal
      BY <3>1, OpenFacts
    <3> QED
      BY <3>2 DEF FulfilmentInv, EndIsTrue
  <2>3. CASE ~Commit(r)
    BY <2>1, <2>3 DEF FulfilmentStep, CheckTransition, UpdateVendorOrder, ReadSiblings,
                      ReadMaster, WriteMaster, InterruptTransition, rows
  <2> QED
    BY <2>2, <2>3
<1> QED
  BY <1>1, FulfilmentInvariant, PTL DEF FulfilmentSpec, EndIsFinal

----------------------------------------------------------------------------
\* When the master order's status follows from its vendor orders.

\* What is derived from the rows of a transaction that stays alone with them.
FollowInv == DerivationsSound /\ MasterFollows

\* A step that commits nothing overtakes nobody and misleads nobody.
LEMMA QuietFacts ==
    ASSUME NEW r \in Slots, Observe(r), UNCHANGED rows
    PROVE  /\ misled' = misled /\ status' = status /\ master' = master
           /\ \A s \in Slots : s \in overtaken' <=> HasDerived(s)' /\ s \in overtaken
BY DEF Observe, rows

\* Such a step of slot r preserves FollowInv when what r has then derived does.
LEMMA QuietFollow ==
    ASSUME FulfilmentInv, FollowInv, NEW r \in Slots, NEW q, Observe(r),
           UNCHANGED rows, req' = [req EXCEPT ![r] = q],
           q.pc \in {"reading master", "writing master",
                     "master unchanged", "master written"} /\ r \notin overtaken =>
               q.derived = Derive(SeenBy(q, status)),
           q.pc = "master unchanged" /\ r \notin overtaken => master = q.derived
    PROVE  FollowInv'
<1>1. /\ req'[r] = q
      /\ \A s \in Slots \ {r} : req'[s] = req[s]
  BY DEF FulfilmentInv, FulfilmentTypeOK
<1>2. /\ misled' = misled /\ status' = status /\ master' = master
      /\ \A s \in Slots : s \in overtaken' <=> HasDerived(s)' /\ s \in overtaken
  BY QuietFacts
<1>3. \A s \in Slots : Seen(s)' = SeenBy(req'[s], status) /\ Seen(s) = SeenBy(req[s], status)
  BY <1>2 DEF Seen, SeenBy
<1>4. ASSUME NEW s \in Slots, s \notin overtaken'
      PROVE  /\ HasDerived(s)' => req'[s].derived = Derive(Seen(s)')
             /\ req'[s].pc = "master unchanged" => master' = req'[s].derived
  <2>1. HasDerived(s)' => s \notin overtaken
    BY <1>2, <1>4
  <2>2. req'[s].pc = "master unchanged" => HasDerived(s)'
    BY DEF HasDerived
  <2>3. CASE s = r
    <3>1. HasDerived(s)' => q.pc \in {"reading master", "writing master",
                                      "master unchanged", "master written"}
      BY <1>1, <2>3 DEF HasDerived
    <3> QED
      BY <1>1, <1>2, <1>3, <2>1, <2>2, <2>3, <3>1
  <2>4. CASE s # r
    <3>1. req'[s] = req[s] /\ Seen(s)' = Seen(s) /\ HasDerived(s)' = HasDerived(s)
      BY <1>1, <1>3, <2>4 DEF HasDerived
    <3> QED
      BY <1>2, <2>1, <2>2, <3>1 DEF FollowInv, DerivationsSound
  <2> QED
    BY <2>3, <2>4
<1>5. MasterFollows'
  BY <1>2 DEF FollowInv, MasterFollows
<1> QED
  BY <1>4, <1>5 DEF FollowInv, DerivationsSound

\* The steps that derive nothing.
LEMMA EndFollow ==
    ASSUME FulfilmentInv, FollowInv, NEW r \in Slots, Observe(r), End(r),
           UNCHANGED rows
    PROVE  FollowInv'
BY QuietFollow DEF End, NoRequest

LEMMA CheckTransitionFollow ==
    ASSUME FulfilmentInv, FollowInv, NEW r \in Slots, Observe(r), CheckTransition(r)
    PROVE  FollowInv'
<1>1. PICK v \in VendorOrders, s \in Targets :
          req' = [req EXCEPT ![r] = [NoRequest EXCEPT
                        !.pc = "checked", !.target = v,
                        !.from = status[v], !.to = s]]
  BY DEF CheckTransition
<1>2. PICK q : q = [NoRequest EXCEPT !.pc = "checked", !.target = v,
                                     !.from = status[v], !.to = s]
  OBVIOUS
<1>3. q.pc = "checked"
  BY <1>2 DEF NoRequest
<1>4. req' = [req EXCEPT ![r] = q]
  BY <1>1, <1>2
<1> QED
  BY <1>3, <1>4, QuietFollow DEF CheckTransition

LEMMA UpdateVendorOrderFollow ==
    ASSUME FulfilmentInv, FollowInv, NEW r \in Slots, Observe(r), UpdateVendorOrder(r)
    PROVE  FollowInv'
<1>1. CASE End(r)
  BY <1>1, EndFollow DEF UpdateVendorOrder
<1>2. CASE req' = [req EXCEPT ![r].pc = "reading siblings"]
  <2>1. req[r] \in Request
    BY DEF FulfilmentInv, FulfilmentTypeOK
  <2>2. PICK q : q = [req[r] EXCEPT !.pc = "reading siblings"]
    OBVIOUS
  <2>3. req' = [req EXCEPT ![r] = q] /\ q.pc = "reading siblings"
    BY <1>2, <2>1, <2>2 DEF Request
  <2> QED
    BY <2>3, QuietFollow DEF UpdateVendorOrder
<1> QED
  BY <1>1, <1>2 DEF UpdateVendorOrder

LEMMA ReadSiblingsFollow ==
    ASSUME FulfilmentInv, FollowInv, NEW r \in Slots, Observe(r), ReadSiblings(r)
    PROVE  FollowInv'
<1>1. req[r] \in Request
  BY DEF FulfilmentInv, FulfilmentTypeOK
<1>2. PICK q : q = [req[r] EXCEPT !.pc = "reading master", !.derived = Derive(Seen(r))]
  OBVIOUS
<1>3. /\ req' = [req EXCEPT ![r] = q]
      /\ q.pc = "reading master" /\ q.derived = Derive(Seen(r))
      /\ q.target = req[r].target /\ q.to = req[r].to
  BY <1>1, <1>2 DEF ReadSiblings, Request
<1>4. Seen(r) = SeenBy(q, status)
  BY <1>3 DEF Seen, SeenBy
<1> QED
  BY <1>3, <1>4, QuietFollow DEF ReadSiblings

LEMMA ReadMasterFollow ==
    ASSUME FulfilmentInv, FollowInv, NEW r \in Slots, Observe(r), ReadMaster(r)
    PROVE  FollowInv'
<1>1. req[r] \in Request
  BY DEF FulfilmentInv, FulfilmentTypeOK
<1>2. PICK q : q = [req[r] EXCEPT
                       !.pc = IF master = req[r].derived THEN "master unchanged"
                              ELSE "writing master",
                       !.masterRead = master]
  OBVIOUS
<1>3. /\ req' = [req EXCEPT ![r] = q]
      /\ q.pc = "master unchanged" => master = q.derived
      /\ q.derived = req[r].derived
      /\ q.target = req[r].target /\ q.to = req[r].to
  BY <1>1, <1>2 DEF ReadMaster, Request
<1>4. Seen(r) = SeenBy(q, status)
  BY <1>3 DEF Seen, SeenBy
<1>5. r \notin overtaken => req[r].derived = Derive(Seen(r))
  BY DEF ReadMaster, HasDerived, FollowInv, DerivationsSound
<1> QED
  BY <1>3, <1>4, <1>5, QuietFollow DEF ReadMaster

LEMMA WriteMasterFollow ==
    ASSUME FulfilmentInv, FollowInv, NEW r \in Slots, Observe(r), WriteMaster(r)
    PROVE  FollowInv'
<1>1. req[r] \in Request
  BY DEF FulfilmentInv, FulfilmentTypeOK
<1>2. CASE req' = [req EXCEPT ![r].pc = "master written"]
  <2>1. PICK q : q = [req[r] EXCEPT !.pc = "master written"]
    OBVIOUS
  <2>2. /\ req' = [req EXCEPT ![r] = q] /\ q.pc = "master written"
        /\ q.derived = req[r].derived
        /\ q.target = req[r].target /\ q.to = req[r].to
    BY <1>1, <1>2, <2>1 DEF Request
  <2>3. Seen(r) = SeenBy(q, status)
    BY <2>2 DEF Seen, SeenBy
  <2>4. r \notin overtaken => req[r].derived = Derive(Seen(r))
    BY DEF WriteMaster, HasDerived, FollowInv, DerivationsSound
  <2> QED
    BY <2>2, <2>3, <2>4, QuietFollow DEF WriteMaster
<1>3. CASE req' = [req EXCEPT ![r].pc = "reading siblings", ![r].attempt = @ + 1]
  <2>1. PICK q : q = [req[r] EXCEPT !.pc = "reading siblings",
                                    !.attempt = req[r].attempt + 1]
    OBVIOUS
  <2>2. req' = [req EXCEPT ![r] = q] /\ q.pc = "reading siblings"
    BY <1>1, <1>3, <2>1 DEF Request, FulfilmentInv, FulfilmentTypeOK
  <2> QED
    BY <2>2, QuietFollow DEF WriteMaster
<1>4. CASE End(r)
  BY <1>4, EndFollow DEF WriteMaster
<1> QED
  BY <1>2, <1>3, <1>4 DEF WriteMaster

\* A commit overtakes every other transaction that has derived a status; its own
\* derivation was right unless it was overtaken itself.
LEMMA CommitFollow ==
    ASSUME FulfilmentInv, FollowInv, NEW r \in Slots, Observe(r), Commit(r)
    PROVE  FollowInv'
<1>1. HoldsVendorOrder(r) /\ HasDerived(r)
  BY DEF Commit, HoldsVendorOrder, HasDerived
<1>2. /\ req[r].target \in VendorOrders
      /\ <<req[r].from, req[r].to>> \in Transitions
      /\ status[req[r].target] = req[r].from
  BY <1>1, OpenFacts
<1>3. /\ \A v \in VendorOrders :
            status'[v] = IF v = req[r].target THEN req[r].to ELSE status[v]
      /\ status' # status
  <2>1. status' = [status EXCEPT ![req[r].target] = req[r].to]
    BY DEF Commit
  <2>2. req[r].to # req[r].from
    BY <1>2, TransitionFacts
  <2> QED
    BY <1>2, <2>1, <2>2 DEF FulfilmentInv, FulfilmentTypeOK
<1>4. Seen(r) = {status'[v] : v \in VendorOrders}
  BY <1>3 DEF Seen
<1>5. r \notin overtaken => master' = Derive(Seen(r))
  <2>1. r \notin overtaken => req[r].derived = Derive(Seen(r))
    BY <1>1 DEF FollowInv, DerivationsSound
  <2>2. CASE req[r].pc = "master written"
    BY <2>1, <2>2 DEF Commit
  <2>3. CASE req[r].pc = "master unchanged"
    <3>1. r \notin overtaken => master = req[r].derived
      BY <2>3 DEF FollowInv, DerivationsSound
    <3> QED
      BY <2>1, <2>3, <3>1 DEF Commit
  <2> QED
    BY <2>2, <2>3 DEF Commit
<1>6. MasterFollows'
  <2>1. misled' = (r \in overtaken)
    BY <1>3 DEF Observe
  <2> QED
    BY <1>4, <1>5, <2>1 DEF MasterFollows
<1>7. \A s \in Slots : s \notin overtaken' => ~HasDerived(s)'
  <2>1. /\ req'[r] = NoRequest
        /\ \A s \in Slots \ {r} : req'[s] = req[s]
    BY DEF Commit, End, FulfilmentInv, FulfilmentTypeOK
  <2>2. ~HasDerived(r)'
    BY <2>1 DEF HasDerived, NoRequest
  <2> QED
    BY <1>3, <2>2 DEF Observe
<1>8. DerivationsSound'
  BY <1>7 DEF DerivationsSound, HasDerived
<1> QED
  BY <1>6, <1>8 DEF FollowInv

LEMMA FollowInit == FulfilmentInit => FollowInv
<1> SUFFICES ASSUME FulfilmentInit PROVE FollowInv
  OBVIOUS
<1>1. \A r \in Slots : req[r].pc = "idle"
  BY DEF FulfilmentInit, NoRequest
<1>2. {status[v] : v \in VendorOrders} = {"PENDING"}
  BY VendorOrdersAssumption DEF FulfilmentInit
<1>3. Derive({"PENDING"}) = "PENDING"
  BY DEF Derive, Inactive
<1> QED
  BY <1>1, <1>2, <1>3
     DEF FollowInv, DerivationsSound, MasterFollows, HasDerived, FulfilmentInit

LEMMA FollowNext ==
    FulfilmentInv /\ FollowInv /\ [FulfilmentNext]_fulfilmentVars => FollowInv'
<1> SUFFICES ASSUME FulfilmentInv, FollowInv, [FulfilmentNext]_fulfilmentVars
             PROVE  FollowInv'
  OBVIOUS
<1>1. ASSUME NEW r \in Slots, Observe(r), CheckTransition(r) PROVE FollowInv'
  BY <1>1, CheckTransitionFollow
<1>2. ASSUME NEW r \in Slots, Observe(r), FulfilmentStep(r) PROVE FollowInv'
  BY <1>2, UpdateVendorOrderFollow, ReadSiblingsFollow, ReadMasterFollow,
     WriteMasterFollow, CommitFollow DEF FulfilmentStep
<1>3. ASSUME NEW r \in Slots, Observe(r), InterruptTransition(r) PROVE FollowInv'
  BY <1>3, EndFollow DEF InterruptTransition
<1>4. CASE UNCHANGED fulfilmentVars
  <2>1. /\ status' = status /\ master' = master /\ req' = req
        /\ overtaken' = overtaken /\ misled' = misled
    BY <1>4 DEF fulfilmentVars, progress, rows
  <2>2. \A r : Seen(r)' = Seen(r) /\ HasDerived(r)' = HasDerived(r)
    BY <2>1 DEF Seen, HasDerived
  <2> QED
    BY <2>1, <2>2 DEF FollowInv, DerivationsSound, MasterFollows
<1> QED
  BY <1>1, <1>2, <1>3, <1>4 DEF FulfilmentNext

\* The master order's status follows from its vendor orders at every moment,
\* for any number of them and of requests, unless the last commit was of a
\* transaction that a rival had overtaken between its reads and its commit.
THEOREM MasterFollowsUnlessOvertaken == FulfilmentSpec => []MasterFollows
<1>1. FollowInv => MasterFollows
  BY DEF FollowInv
<1> QED
  BY <1>1, FollowInit, FollowNext, FulfilmentInvariant, PTL DEF FulfilmentSpec
=============================================================================
