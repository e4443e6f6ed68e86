----------------------------- MODULE MCPurchase -----------------------------
(***************************************************************************)
(* Small instances of PurchaseProperties.                                  *)
(***************************************************************************)
EXTENDS PurchaseProperties, TLC

CONSTANTS u1, u2, v1, v2, w1, w2, a1, a2, a3, a4, i1, i2, k1, k2, s1

Item(c, v, q) == [cart |-> c, variant |-> v, quantity |-> q, currency |-> "BDT"]

\* One customer sends everything.
OneUser == [r \in ShopperRequests |-> u1]

\* Two customers: a2, a4 and k2 are the second one's, the rest the first one's.
TwoUsers == [r \in ShopperRequests |-> IF r \in {a2, a4, k2} THEN u2 ELSE u1]

OneVendor == (v1 :> w1)
TwoVendors == (v1 :> w1) @@ (v2 :> w2)

\* Nobody has a cart yet.
NothingStored == <<>>

\* Both customers have both variants in their carts.
BothStored == (a1 :> Item(a1, v1, 1)) @@ (a3 :> Item(a1, v2, 1))
              @@ (a2 :> Item(a2, v1, 1)) @@ (a4 :> Item(a2, v2, 1))
============================================================================
