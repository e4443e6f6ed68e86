----------------------------- MODULE StockBook -----------------------------
(***************************************************************************)
(* What the shop promises about stock, without requests, transactions or   *)
(* locks: a purchase takes all its units at once and only if they are all  *)
(* there, each cart is bought at most once, and a vendor never moves stock *)
(* below what customers have bought.                                       *)
(***************************************************************************)
EXTENDS Integers

CONSTANTS
    Variants,
    Buyers,     \* attempts to buy
    Carts,
    MaxStock    \* bound: the units of one variant on hand

VARIABLES
    onHand,     \* onHand[v]: the units of v in the vendor's hands
    reserved,   \* reserved[v]: those of them that are bought
    bought,     \* bought[b]: the units of each variant that b has bought
    spent       \* the carts that have been bought

bookVars == <<onHand, reserved, bought, spent>>

Nothing == [v \in Variants |-> 0]

BookInit ==
    /\ onHand \in [Variants -> 0..MaxStock]
    /\ reserved = Nothing
    /\ bought = [b \in Buyers |-> Nothing]
    /\ spent = {}

Buy(b, c) ==
    /\ bought[b] = Nothing
    /\ c \notin spent
    /\ \E units \in [Variants -> 0..MaxStock] :
          /\ units # Nothing
          /\ \A v \in Variants : reserved[v] + units[v] <= onHand[v]
          /\ reserved' = [v \in Variants |-> reserved[v] + units[v]]
          /\ bought' = [bought EXCEPT ![b] = units]
    /\ spent' = spent \cup {c}
    /\ UNCHANGED onHand

MoveStock(v) ==
    /\ \E n \in reserved[v]..MaxStock : onHand' = [onHand EXCEPT ![v] = n]
    /\ UNCHANGED <<reserved, bought, spent>>

BookNext ==
    \/ \E b \in Buyers, c \in Carts : Buy(b, c)
    \/ \E v \in Variants : MoveStock(v)

BookSpec == BookInit /\ [][BookNext]_bookVars
============================================================================
