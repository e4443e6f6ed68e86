----------------------------- MODULE RefundBook -----------------------------
(***************************************************************************)
(* What refunds promise: each refund is granted once, then paid or denied  *)
(* once and for all, and paying it adds its amount, once, to what its      *)
(* payment has given back.                                                 *)
(***************************************************************************)
EXTENDS Integers

CONSTANTS
    Payers,     \* the payments
    Grants,     \* the refunds
    Largest,    \* the largest amount of a refund
    Nothing     \* a refund that was not granted

VARIABLES
    granted,    \* granted[g]: payment, amount and status of g, or Nothing
    returned    \* returned[p]: what payment p has given back

bookVars == <<granted, returned>>

BookInit ==
    /\ granted = [g \in Grants |-> Nothing]
    /\ returned = [p \in Payers |-> 0]

Grant(g) ==
    /\ granted[g] = Nothing
    /\ \E p \in Payers, amount \in 1..Largest :
          granted' = [granted EXCEPT ![g] =
              [payment |-> p, amount |-> amount, status |-> "PENDING"]]
    /\ UNCHANGED returned

Pay(g) ==
    /\ granted[g] # Nothing
    /\ granted[g].status = "PENDING"
    /\ granted' = [granted EXCEPT ![g].status = "SUCCEEDED"]
    /\ returned' = [returned EXCEPT ![granted[g].payment] = @ + granted[g].amount]

Deny(g) ==
    /\ granted[g] # Nothing
    /\ granted[g].status = "PENDING"
    /\ granted' = [granted EXCEPT ![g].status = "FAILED"]
    /\ UNCHANGED returned

BookNext == \E g \in Grants : Grant(g) \/ Pay(g) \/ Deny(g)

BookSpec == BookInit /\ [][BookNext]_bookVars
============================================================================
