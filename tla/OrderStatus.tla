---------------------------- MODULE OrderStatus ----------------------------
(***************************************************************************)
(* The statuses of vendor orders and master orders, the transitions a      *)
(* vendor may make, and how a master order's status follows from its       *)
(* vendor orders.                                                          *)
(***************************************************************************)
EXTENDS Integers

VendorStatuses == {"PENDING", "CONFIRMED", "PROCESSING", "READY_TO_SHIP",
                   "SHIPPED", "DELIVERED", "CANCELLED",
                   "RETURN_REQUESTED", "RETURNED"}

MasterStatuses == {"PENDING", "CONFIRMED", "PROCESSING",
                   "PARTIALLY_FULFILLED", "FULFILLED", "CANCELLED"}

\* ALLOWED_VENDOR_ORDER_TRANSITIONS, as a relation.
Transitions == {<<"PENDING", "CONFIRMED">>, <<"PENDING", "CANCELLED">>,
                <<"CONFIRMED", "PROCESSING">>, <<"CONFIRMED", "CANCELLED">>,
                <<"PROCESSING", "READY_TO_SHIP">>,
                <<"READY_TO_SHIP", "SHIPPED">>, <<"SHIPPED", "DELIVERED">>}

\* The statuses UpdateVendorOrderStatusDto accepts.
Targets == {"CONFIRMED", "PROCESSING", "READY_TO_SHIP", "SHIPPED",
            "DELIVERED", "CANCELLED"}

\* isTerminalInactive.
Inactive == {"CANCELLED", "RETURN_REQUESTED", "RETURNED"}

\* Mutant: one delivery fulfils the order.
DeriveEager(S) ==
    LET active == S \ Inactive
    IN  CASE active = {}             -> "CANCELLED"
          [] "DELIVERED" \in active  -> "FULFILLED"
          [] "DELIVERED" \notin active /\ "PENDING" \in active
                                     -> "PENDING"
          [] active \cap {"DELIVERED", "PENDING"} = {} /\ "CONFIRMED" \in active
                                     -> "CONFIRMED"
          [] OTHER                   -> "PROCESSING"

\* deriveMasterOrderStatus: the result depends only on which statuses occur,
\* so S is the set of the vendor orders' statuses.
Derive(S) ==
    LET active == S \ Inactive
    IN  CASE active = {}             -> "CANCELLED"
          [] active = {"DELIVERED"}  -> "FULFILLED"
          [] "DELIVERED" \in active /\ active # {"DELIVERED"}
                                     -> "PARTIALLY_FULFILLED"
          [] "DELIVERED" \notin active /\ "PENDING" \in active
                                     -> "PENDING"
          [] active \cap {"DELIVERED", "PENDING"} = {} /\ "CONFIRMED" \in active
                                     -> "CONFIRMED"
          [] OTHER                   -> "PROCESSING"
============================================================================
