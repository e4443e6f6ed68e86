------------------------------- MODULE Tables -------------------------------
(***************************************************************************)
(* The PostgreSQL tables that cart, inventory and checkout share, and the  *)
(* HTTP requests that read and write them.                                 *)
(*                                                                         *)
(* A request runs once.  The rows it inserts are named after it: cart r    *)
(* and cart item r are the rows inserted by add request r, order r is the  *)
(* master order inserted by checkout r.  (The code draws UUIDs.)           *)
(*                                                                         *)
(* Transactions are READ COMMITTED.  The table variables hold committed    *)
(* rows only; what an open transaction has written is kept with its        *)
(* request and published by the action that commits.  A row written by an  *)
(* open transaction is locked: another writer waits until that transaction *)
(* ends and then evaluates its WHERE on the newly committed row.           *)
(***************************************************************************)
EXTENDS Integers, FiniteSets

CONSTANTS
    Users,              \* authenticated customers
    Vendors,            \* owners of the products
    Variants,           \* product variants, each with its Inventory row
    Currencies,         \* ISO currency codes
    AddRequests,        \* POST   /cart/items
    ItemRequests,       \* PATCH and DELETE on /cart/items/:id, DELETE /cart
    CheckoutRequests,   \* POST   /checkout
    StockRequests,      \* POST   .../inventory/restock and .../adjust
    UserOf,             \* the user each shopper request is authenticated as
    VendorOf,           \* the vendor each variant's product belongs to
    MaxQuantity,        \* bound: the largest quantity one request names
    MaxInt,             \* the largest value of an int4 column
    NoRow,              \* "no such row", Prisma's null
    StoredItems         \* the cart items that earlier add requests have left

ShopperRequests == AddRequests \cup ItemRequests \cup CheckoutRequests
Requests == ShopperRequests \cup StockRequests

ASSUME RequestsAssumption ==
    /\ AddRequests \cap ItemRequests = {}
    /\ AddRequests \cap CheckoutRequests = {}
    /\ ItemRequests \cap CheckoutRequests = {}
    /\ ShopperRequests \cap StockRequests = {}

ASSUME OwnersAssumption ==
    /\ UserOf \in [ShopperRequests -> Users]
    /\ VendorOf \in [Variants -> Vendors]

ASSUME BoundsAssumption ==
    /\ MaxInt \in Nat
    /\ MaxQuantity \in 1..MaxInt

EarlierAdds == DOMAIN StoredItems

\* The values of an int4 column.
Int4 == (-MaxInt - 1)..MaxInt

CartRow == [user : Users, currency : Currencies,
            status : {"ACTIVE", "CONVERTED"}]
ItemRow == [cart : AddRequests, variant : Variants,
            quantity : 1..MaxInt, currency : Currencies]
Line == [variant : Variants, quantity : 1..MaxInt, currency : Currencies]
OrderRow == [user : Users, cart : AddRequests, currency : Currencies,
             vendorOrders : [Vendors -> SUBSET Line]]

ASSUME NoRowAssumption ==
    /\ NoRow \notin AddRequests
    /\ NoRow \notin CartRow \cup ItemRow \cup OrderRow \cup Line

\* Earlier adds left each customer one cart in one currency, named after the
\* add that created it, with a row per variant.
ASSUME StoredAssumption ==
    /\ EarlierAdds \subseteq AddRequests
    /\ StoredItems \in [EarlierAdds -> ItemRow]
    /\ \A i \in EarlierAdds :
          LET c == StoredItems[i].cart
          IN  /\ c \in EarlierAdds
              /\ StoredItems[c].cart = c
              /\ StoredItems[c].currency = StoredItems[i].currency
    /\ \A i, j \in EarlierAdds :
          /\ UserOf[i] = UserOf[j] <=> StoredItems[i].cart = StoredItems[j].cart
          /\ StoredItems[i].cart = StoredItems[j].cart
                /\ StoredItems[i].variant = StoredItems[j].variant => i = j

VARIABLES
    carts,       \* carts[c]: the row, or NoRow
    cartItems,   \* cartItems[i]: the row, or NoRow
    catalog,     \* catalog[v]: whether v can be bought, and its currency
    inventory,   \* inventory[v]: the onHand and reserved counters
    ledger,      \* ledger[v]: sums of v's inventory_transactions, by type
    orders,      \* orders[r]: the master order with its children, or NoRow
    pc,          \* pc[r]: where request r is in its handler
    answer,      \* answer[r]: the class of the response of a finished request
    cartRef,     \* cartRef[r]: the cart id request r has read
    itemRef,     \* itemRef[r]: the cart item id request r has read
    lines,       \* lines[r]: the lines request r carries from its reads
    taken,       \* taken[r]: the lines whose stock checkout r has reserved
    current      \* current[r]: the line whose stock checkout r reserves next

tables == <<carts, cartItems, catalog, inventory, ledger, orders>>
locals == <<cartRef, itemRef, lines, taken, current>>
vars == <<tables, pc, answer, locals>>

Places == {"new", "variant read", "cart read", "in transaction",
           "updating", "removing", "clearing", "lines loaded",
           "reserving", "done"}
Answers == {"none", "2xx", "4xx", "5xx"}

----------------------------------------------------------------------------
\* Reads of the committed tables.

ActiveCartsOf(u) ==
    {c \in AddRequests : /\ carts[c] # NoRow
                         /\ carts[c].user = u
                         /\ carts[c].status = "ACTIVE"}

ItemsOf(c) ==
    {i \in AddRequests : cartItems[i] # NoRow /\ cartItems[i].cart = c}

\* What prisma.cart.findFirst({ userId, status: 'ACTIVE' }) may return.
FindActiveCart(u) ==
    IF ActiveCartsOf(u) = {} THEN {NoRow} ELSE ActiveCartsOf(u)

\* isProductActive, isVendorActive and the variant's own status and deletedAt.
Available(v) == catalog[v].available

\* The checkout transactions that are open.
InTransaction == {r \in CheckoutRequests : pc[r] = "reserving"}

\* The rows an open checkout has updated and so keeps locked.
LocksCart(r, c) == r \in InTransaction /\ cartRef[r] = c
LocksStock(r, v) == r \in InTransaction /\ \E l \in taken[r] : l.variant = v

CartLocked(c) == \E r \in CheckoutRequests : LocksCart(r, c)
StockLocked(v) == \E r \in CheckoutRequests : LocksStock(r, v)

----------------------------------------------------------------------------
\* How a request ends: Finish answers it and leaves the tables to the caller.
Finish(r, a) ==
    /\ pc' = [pc EXCEPT ![r] = "done"]
    /\ answer' = [answer EXCEPT ![r] = a]

\* An exception before anything is committed: an open transaction rolls back.
Fail(r, a) ==
    /\ Finish(r, a)
    /\ UNCHANGED <<tables, locals>>

Goto(r, place) ==
    /\ pc' = [pc EXCEPT ![r] = place]
    /\ UNCHANGED answer

TablesTypeOK ==
    /\ carts \in [AddRequests -> CartRow \cup {NoRow}]
    /\ cartItems \in [AddRequests -> ItemRow \cup {NoRow}]
    /\ catalog \in [Variants -> [available : BOOLEAN, currency : Currencies]]
    /\ inventory \in [Variants -> [onHand : Int4, reserved : Int4]]
    /\ ledger \in [Variants -> [restock : Int, adjustment : Int,
                                reservation : Int]]
    /\ orders \in [CheckoutRequests -> OrderRow \cup {NoRow}]

RequestsTypeOK ==
    /\ pc \in [Requests -> Places]
    /\ answer \in [Requests -> Answers]
    /\ cartRef \in [ShopperRequests -> AddRequests \cup {NoRow}]
    /\ itemRef \in [ItemRequests -> AddRequests \cup {NoRow}]
    /\ lines \in [AddRequests \cup CheckoutRequests -> SUBSET Line]
    /\ taken \in [CheckoutRequests -> SUBSET Line]
    /\ current \in [CheckoutRequests -> Line \cup {NoRow}]

\* The stock is counted from the rows variant creation inserts (0, 0) plus
\* the deliveries booked before the first request.
Init ==
    /\ carts = [c \in AddRequests |->
                  IF c \in EarlierAdds /\ StoredItems[c].cart = c
                  THEN [user |-> UserOf[c], status |-> "ACTIVE",
                        currency |-> StoredItems[c].currency]
                  ELSE NoRow]
    /\ cartItems = [i \in AddRequests |->
                      IF i \in EarlierAdds THEN StoredItems[i] ELSE NoRow]
    /\ catalog \in [Variants -> [available : {TRUE}, currency : Currencies]]
    /\ \E delivered \in [Variants -> 0..MaxInt] :
          /\ inventory = [v \in Variants |->
                            [onHand |-> delivered[v], reserved |-> 0]]
          /\ ledger = [v \in Variants |->
                         [restock |-> delivered[v], adjustment |-> 0,
                          reservation |-> 0]]
    /\ orders = [r \in CheckoutRequests |-> NoRow]
    /\ pc = [r \in Requests |-> IF r \in EarlierAdds THEN "done" ELSE "new"]
    /\ answer = [r \in Requests |->
                   IF r \in EarlierAdds THEN "2xx" ELSE "none"]
    /\ cartRef = [r \in ShopperRequests |-> NoRow]
    /\ itemRef = [r \in ItemRequests |-> NoRow]
    /\ lines = [r \in AddRequests \cup CheckoutRequests |-> {}]
    /\ taken = [r \in CheckoutRequests |-> {}]
    /\ current = [r \in CheckoutRequests |-> NoRow]
============================================================================
