---------------------------- MODULE Fulfilment ----------------------------
(***************************************************************************)
(* VendorOrdersService.updateStatus: vendors move the vendor orders of one *)
(* master order along, and each of their transactions recomputes the       *)
(* master order's status.                                                  *)
(*                                                                         *)
(* One master order is enough: no request reads or writes the rows of two. *)
(* A slot is a place for one PATCH in flight; when it is answered the slot *)
(* takes another.  Transactions are READ COMMITTED: status, master and the *)
(* histories are committed rows, a slot's own writes are seen by itself    *)
(* alone until it commits, and a row it has written is locked until then.  *)
(***************************************************************************)
EXTENDS OrderStatus, Sequences

CONSTANTS
    VendorOrders,   \* the vendor orders of the master order
    Slots,          \* requests in flight at once
    MaxAttempts,    \* MASTER_ORDER_RECOMPUTE_MAX_ATTEMPTS
    None            \* fromStatus of a history's first row: null

ASSUME VendorOrdersAssumption == VendorOrders # {}
ASSUME AttemptsAssumption == MaxAttempts \in Nat \ {0}

VARIABLES
    status,         \* status[v]: VendorOrder.status
    master,         \* MasterOrder.status
    history,        \* history[v]: v's VendorOrderStatusHistory rows
    masterHistory,  \* the OrderStatusHistory rows
    req,            \* req[r]: the request in slot r
    overtaken,      \* history: the open transactions that have derived a status
                    \* before a rival's commit
    misled          \* history: whether the last commit was of one of them

rows == <<status, master, history, masterHistory>>
progress == <<rows, req>>
fulfilmentVars == <<progress, overtaken, misled>>

Change == [from : VendorStatuses \cup MasterStatuses \cup {None},
           to : VendorStatuses \cup MasterStatuses]

TransitionPlaces ==
    {"idle", "checked", "reading siblings", "reading master",
     "writing master", "master unchanged", "master written"}

Request ==
    [pc : TransitionPlaces,
     target : VendorOrders \cup {None},               \* vendorOrderId
     from : VendorStatuses, to : VendorStatuses,      \* as read; as asked
     derived : MasterStatuses,                        \* as last derived
     masterRead : MasterStatuses,                     \* as last read
     attempt : 0..(MaxAttempts - 1)]                  \* failed master writes

NoRequest == [pc |-> "idle", target |-> None,
              from |-> "PENDING", to |-> "PENDING", derived |-> "PENDING",
              masterRead |-> "PENDING", attempt |-> 0]

\* A slot whose transaction has updated its vendor order.
HoldsVendorOrder(r) == req[r].pc \notin {"idle", "checked"}

VendorOrderLocked(v) ==
    \E r \in Slots : HoldsVendorOrder(r) /\ req[r].target = v
MasterLocked == \E r \in Slots : req[r].pc = "master written"

\* The request in slot r is answered; what it has not committed is undone.
End(r) == req' = [req EXCEPT ![r] = NoRequest]

\* What checkout commits: the orders are PENDING and say so in their history.
FulfilmentInit ==
    /\ status = [v \in VendorOrders |-> "PENDING"]
    /\ master = "PENDING"
    /\ history = [v \in VendorOrders |-> <<[from |-> None, to |-> "PENDING"]>>]
    /\ masterHistory = <<[from |-> None, to |-> "PENDING"]>>
    /\ req = [r \in Slots |-> NoRequest]
    /\ overtaken = {} /\ misled = FALSE

\* The read and the check before the transaction; a transition that is not
\* allowed is a 409 and changes nothing.
CheckTransition(r) ==
    /\ req[r].pc = "idle"
    /\ \E v \in VendorOrders, s \in Targets :
          /\ <<status[v], s>> \in Transitions
          /\ req' = [req EXCEPT ![r] = [NoRequest EXCEPT
                        !.pc = "checked", !.target = v,
                        !.from = status[v], !.to = s]]
    /\ UNCHANGED rows

\* Mutant: the siblings are read outside of the transaction.
SeenOutside(r) == {status[v] : v \in VendorOrders}

\* Mutant: the vendor order is updated by id alone.
NotCompared(r) == TRUE

\* The WHERE clause of the vendor order's updateMany.
StillAsRead(r) == status[req[r].target] = req[r].from

UpdateVendorOrder(r) ==
    /\ req[r].pc = "checked"
    /\ ~VendorOrderLocked(req[r].target)
    /\ IF StillAsRead(r)
       THEN req' = [req EXCEPT ![r].pc = "reading siblings"]
       ELSE End(r)
    /\ UNCHANGED rows

\* The statuses of the vendor orders as the transaction of slot r sees them.
Seen(r) == {IF v = req[r].target THEN req[r].to ELSE status[v] :
              v \in VendorOrders}

ReadSiblings(r) ==
    /\ req[r].pc = "reading siblings"
    /\ req' = [req EXCEPT ![r].pc = "reading master",
                          ![r].derived = Derive(Seen(r))]
    /\ UNCHANGED rows

ReadMaster(r) ==
    /\ req[r].pc = "reading master"
    /\ req' = [req EXCEPT
                  ![r].pc = IF master = req[r].derived THEN "master unchanged"
                            ELSE "writing master",
                  ![r].masterRead = master]
    /\ UNCHANGED rows

\* Mutant: the master order is updated by id alone.
MasterNotCompared(r) == TRUE

\* The WHERE clause of the master order's updateMany.
MasterAsRead(r) == master = req[r].masterRead

\* The loop's last turn.
LastAttempt(r) == req[r].attempt + 1 = MaxAttempts

\* Mutant: a write that loses is repeated without reading again.
WriteMasterAgain(r) ==
    /\ req[r].pc = "writing master"
    /\ ~MasterLocked
    /\ MasterAsRead(r)
    /\ req' = [req EXCEPT ![r].pc = "master written"]
    /\ UNCHANGED rows

\* A write that loses to a sibling's is retried from the reads; the last
\* attempt throws, and the transaction is rolled back.
WriteMaster(r) ==
    /\ req[r].pc = "writing master"
    /\ ~MasterLocked
    /\ \/ /\ MasterAsRead(r)
          /\ req' = [req EXCEPT ![r].pc = "master written"]
       \/ /\ ~MasterAsRead(r)
          /\ ~LastAttempt(r)
          /\ req' = [req EXCEPT ![r].pc = "reading siblings",
                                ![r].attempt = @ + 1]
       \/ /\ ~MasterAsRead(r)
          /\ LastAttempt(r)
          /\ End(r)
    /\ UNCHANGED rows

\* The commit of both writes and both history rows.
Commit(r) ==
    /\ req[r].pc \in {"master unchanged", "master written"}
    /\ status' = [status EXCEPT ![req[r].target] = req[r].to]
    /\ history' = [history EXCEPT ![req[r].target] =
                      Append(@, [from |-> req[r].from, to |-> req[r].to])]
    /\ IF req[r].pc = "master written"
       THEN /\ master' = req[r].derived
            /\ masterHistory' = Append(masterHistory,
                   [from |-> req[r].masterRead, to |-> req[r].derived])
       ELSE UNCHANGED <<master, masterHistory>>
    /\ End(r)

\* The request dies or its transaction exceeds its time limit.
InterruptTransition(r) ==
    /\ req[r].pc # "idle"
    /\ End(r)
    /\ UNCHANGED rows

FulfilmentStep(r) ==
    \/ UpdateVendorOrder(r)
    \/ ReadSiblings(r)
    \/ ReadMaster(r)
    \/ WriteMaster(r)
    \/ Commit(r)

HasDerived(r) == req[r].pc \in {"reading master", "writing master",
                                 "master unchanged", "master written"}

\* What the history variables keep of a step of slot r; only a commit changes
\* status.
Observe(r) ==
    /\ overtaken' = {s \in Slots :
          HasDerived(s)' /\ (s \in overtaken \/ (s # r /\ status' # status))}
    /\ misled' = IF status' # status THEN r \in overtaken ELSE misled

FulfilmentNext ==
    \E r \in Slots :
        /\ CheckTransition(r) \/ FulfilmentStep(r) \/ InterruptTransition(r)
        /\ Observe(r)

FulfilmentSpec == FulfilmentInit /\ [][FulfilmentNext]_fulfilmentVars

\* A statement that does not wait for a lock is executed; PostgreSQL queues
\* the waiters of a row, so a request does not wait for ever behind others that
\* take and release it.
FulfilmentFairness ==
    \A r \in Slots :
        /\ WF_progress(FulfilmentStep(r))
        /\ SF_progress(UpdateVendorOrder(r))
        /\ SF_progress(WriteMaster(r))
FairFulfilmentSpec == FulfilmentSpec /\ FulfilmentFairness

----------------------------------------------------------------------------
FulfilmentTypeOK ==
    /\ status \in [VendorOrders -> VendorStatuses]
    /\ master \in MasterStatuses
    /\ history \in [VendorOrders -> Seq(Change)]
    /\ masterHistory \in Seq(Change)
    /\ req \in [Slots -> Request]

Last(h) == h[Len(h)]

\* h starts with a creation and each row continues where the one before it
\* ended.
Chain(h) ==
    /\ Len(h) > 0
    /\ h[1].from = None
    /\ \A k \in 2..Len(h) : h[k].from = h[k-1].to

\* The history of a vendor order is the path it has taken along the allowed
\* transitions, up to where it is, although the status a row comes from was
\* read before the transaction and rivals update the same vendor order.
HistoryTrue ==
    \A v \in VendorOrders :
        /\ Chain(history[v])
        /\ Last(history[v]).to = status[v]
        /\ \A k \in 2..Len(history[v]) :
              <<history[v][k].from, history[v][k].to>> \in Transitions

\* The history of the master order is a gapless path up to its status, and
\* each row is a real change, although siblings write it concurrently.
MasterHistoryTrue ==
    /\ Chain(masterHistory)
    /\ Last(masterHistory).to = master
    /\ \A k \in 2..Len(masterHistory) : masterHistory[k].from # masterHistory[k].to

\* Both histories tell the customer and the vendors how the orders came to be
\* where they are, however their changes interleave.
HistoriesTrue == HistoryTrue /\ MasterHistoryTrue

Terminal == {"DELIVERED", "CANCELLED"}

\* The customer is told FULFILLED or CANCELLED only when it is so: every
\* vendor order is at its end, and FULFILLED or CANCELLED is what they derive.
\* Concurrent recomputations from incomplete reads never claim it early.
EndIsTrue ==
    master \in {"FULFILLED", "CANCELLED"} =>
        /\ \A v \in VendorOrders : status[v] \in Terminal
        /\ master = Derive({status[v] : v \in VendorOrders})

\* A master order that is FULFILLED or CANCELLED stays so: no recomputation
\* still in flight, with siblings or master read earlier, reopens it.
EndIsFinal ==
    [][(master \in {"FULFILLED", "CANCELLED"} => master' = master)]_fulfilmentVars

\* What is left of the documented derivation (MasterIsDerived, below): whatever
\* runs at once, and while transactions are open too, the master order's status
\* follows from its vendor orders unless the last commit was of a transaction
\* that had derived before a rival's; the next that had not puts it right.
MasterFollows == misled \/ master = Derive({status[v] : v \in VendorOrders})

\* A request in flight carries an allowed transition out of the status it has
\* read; while its transaction is open its vendor order still has that status,
\* and no other open transaction has updated the same vendor order.
TransitionsSound ==
    /\ \A v \in VendorOrders : status[v] \in {"PENDING"} \cup Targets
    /\ \A r \in Slots : req[r].pc # "idle" =>
          /\ req[r].target \in VendorOrders
          /\ <<req[r].from, req[r].to>> \in Transitions
    /\ \A r \in Slots : HoldsVendorOrder(r) => status[req[r].target] = req[r].from
    /\ \A r, s \in Slots :
          r # s /\ HoldsVendorOrder(r) /\ HoldsVendorOrder(s) =>
             req[r].target # req[s].target

\* Whoever has updated the master order has done so alone, and to another
\* status than the one it still has for everybody else.
MasterWriteSound ==
    /\ \A r \in Slots :
          req[r].pc = "master written" => master = req[r].masterRead
    /\ \A r \in Slots :
          req[r].pc \in {"writing master", "master written"} =>
             req[r].derived # req[r].masterRead
    /\ \A r, s \in Slots :
          req[r].pc = "master written" /\ req[s].pc = "master written" => r = s

\* An end that a transaction has derived is not overtaken: the siblings it saw
\* at their end stay there until it commits.
DerivedEndSound ==
    \A r \in Slots :
        HasDerived(r) /\ req[r].derived \in {"FULFILLED", "CANCELLED"} =>
            /\ Seen(r) \subseteq Terminal
            /\ req[r].derived = Derive(Seen(r))

\* What a transaction that is not overtaken has derived, and found the master
\* order to be already, is still so.
DerivationsSound ==
    \A r \in Slots \ overtaken :
        /\ HasDerived(r) => req[r].derived = Derive(Seen(r))
        /\ req[r].pc = "master unchanged" => master = req[r].derived

\* The inductive invariant behind the history and end properties.
FulfilmentInv ==
    /\ FulfilmentTypeOK
    /\ TransitionsSound
    /\ MasterWriteSound
    /\ DerivedEndSound
    /\ HistoryTrue
    /\ MasterHistoryTrue
    /\ EndIsTrue

\* Every PATCH whose handler has checked its transition is answered: nobody
\* waits for ever for a vendor order or master order row, and the retries end.
TransitionsFinish ==
    \A r \in Slots : req[r].pc # "idle" ~> req[r].pc = "idle"

\* docs/database/order.md and the comment on recomputeMasterOrderStatus: the
\* master order's status is derived from its vendor orders, and the bounded
\* retry handles concurrent siblings.  So it agrees with them when no
\* transaction is open.
MasterIsDerived ==
    (\A r \in Slots : ~HoldsVendorOrder(r)) =>
        master = Derive({status[v] : v \in VendorOrders})
============================================================================
