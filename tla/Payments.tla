------------------------------ MODULE Payments ------------------------------
(***************************************************************************)
(* PaymentsService: the payments of one master order, their attempts and   *)
(* their refunds.                                                          *)
(*                                                                         *)
(* One order is enough: no request reads or writes the rows of two.  Its   *)
(* customer sends the create and retry requests, an administrator the      *)
(* refund requests; a request runs once and the row it inserts is named    *)
(* after it, and so is the provider reference drawn for that row.  Amounts *)
(* are whole units of money.  A transaction is one action, that of its     *)
(* commit, because its writes do not depend on what it has read, or are    *)
(* conditional on it, and its rows are locked in one order.                *)
(***************************************************************************)
EXTENDS Integers, FiniteSets

CONSTANTS
    Creates,        \* POST /payments
    Retries,        \* POST /payments/:id/retry
    RefundRequests, \* POST /payments/:id/refunds
    Deliveries,     \* POST /payments/webhook
    Events,         \* the gateway's event ids
    Total,          \* totalAmount of the order
    None            \* "no such row", Prisma's null

Attempts == Creates \cup Retries
Requests == Attempts \cup RefundRequests \cup Deliveries

ASSUME TotalAssumption == Total \in Nat \ {0}

ASSUME RequestsAssumption ==
    /\ Creates \cap Retries = {}
    /\ Attempts \cap RefundRequests = {}
    /\ (Attempts \cup RefundRequests) \cap Deliveries = {}

PaymentStatuses == {"PENDING", "PAID", "FAILED",
                    "PARTIALLY_REFUNDED", "REFUNDED"}

PaymentRow == [status : PaymentStatuses, paid : 0..Total, refunded : Nat]
AttemptRow == [payment : Creates, number : Nat \ {0},
               status : {"INITIATED", "SUCCEEDED", "FAILED"}]
RefundRow == [payment : Creates, amount : 1..Total,
              status : {"PENDING", "SUCCEEDED", "FAILED"}]

ASSUME NoneAssumption ==
    /\ None \notin Requests \cup Events
    /\ None \notin PaymentRow \cup AttemptRow \cup RefundRow

VARIABLES
    payments,       \* payments[c]: the row inserted by c, or None
    attempts,       \* attempts[a]: the row inserted by a, or None
    refunds,        \* refunds[r]: the row inserted by r, or None
    events,         \* events[e]: the webhook event row of id e, or None
    paymentStatus,  \* MasterOrder.paymentStatus
    pc,             \* pc[r]: where request r is in its handler
    answer,         \* answer[r]: the response of a finished request
    work,           \* work[r]: what request r carries from its reads
    overlapped,     \* history: the payments of which two refunds have been open
                    \* at the same time
    contested       \* history: the attempts that two deliveries have found
                    \* INITIATED at the same time

rows == <<payments, attempts, refunds, events, paymentStatus>>
vars == <<rows, pc, answer, work, overlapped, contested>>

NoWork == [payment |-> None, number |-> 0, amount |-> 0, event |-> None]

Finish(r, a) ==
    /\ pc' = [pc EXCEPT ![r] = "done"]
    /\ answer' = [answer EXCEPT ![r] = a]
    /\ UNCHANGED work

\* The request is answered with an error and leaves the rows as they are.
Fail(r, a) == Finish(r, a) /\ UNCHANGED rows

\* The request goes on to place with w from its reads.
Goto(r, place, w) ==
    /\ pc' = [pc EXCEPT ![r] = place]
    /\ work' = [work EXCEPT ![r] = w]
    /\ UNCHANGED answer

\* The rows that have been inserted into table t.
Inserted(t) == {r \in DOMAIN t : t[r] # None}

AttemptsOf(p) == {a \in Inserted(attempts) : attempts[a].payment = p}

Init ==
    /\ payments = [c \in Creates |-> None]
    /\ attempts = [a \in Attempts |-> None]
    /\ refunds = [r \in RefundRequests |-> None]
    /\ events = [e \in Events |-> None]
    /\ paymentStatus = "PENDING"
    /\ pc = [r \in Requests |-> "new"]
    /\ answer = [r \in Requests |-> "none"]
    /\ work = [r \in Requests |-> NoWork]
    /\ overlapped = {}
    /\ contested = {}

----------------------------------------------------------------------------
\* createForUser

\* The count of the order's payments, before the transaction.
NoPayment == Inserted(payments) = {}

CountPayments(r) ==
    /\ pc[r] = "new"
    /\ IF NoPayment
       THEN Goto(r, "checked", NoWork) /\ UNCHANGED rows
       ELSE Fail(r, "4xx")

\* A payment and its first attempt; no index makes masterOrderId unique.
InsertPayment(r) ==
    /\ pc[r] = "checked"
    /\ payments' = [payments EXCEPT ![r] =
                       [status |-> "PENDING", paid |-> 0, refunded |-> 0]]
    /\ attempts' = [attempts EXCEPT ![r] =
                       [payment |-> r, number |-> 1, status |-> "INITIATED"]]
    /\ Finish(r, "2xx")
    /\ UNCHANGED <<refunds, events, paymentStatus>>

CreatePayment(r) == CountPayments(r) \/ InsertPayment(r)

----------------------------------------------------------------------------
\* retry

\* The read and the check before the transaction.
FindFailedPayment(r) ==
    /\ pc[r] = "new"
    /\ \E p \in Inserted(payments) :
          IF payments[p].status = "FAILED"
          THEN /\ Goto(r, "checked", [NoWork EXCEPT !.payment = p])
               /\ UNCHANGED rows
          ELSE Fail(r, "4xx")

\* One more than the highest number of p's attempts.
NextNumber(p) ==
    1 + (CHOOSE n \in {attempts[a].number : a \in AttemptsOf(p)} :
            \A a \in AttemptsOf(p) : n >= attempts[a].number)

\* The check and the attempt's number inside the transaction.
RecheckPayment(r) ==
    /\ pc[r] = "checked"
    /\ LET p == work[r].payment
       IN  IF payments[p].status = "FAILED"
           THEN /\ Goto(r, "numbered", [work[r] EXCEPT !.number = NextNumber(p)])
                /\ UNCHANGED rows
           ELSE Fail(r, "4xx")

\* Mutant: attempt numbers are not unique.
NeverTaken(p, n) == FALSE

\* @@unique([paymentId, attemptNumber])
NumberTaken(p, n) == \E a \in AttemptsOf(p) : attempts[a].number = n

\* The attempt and, unconditionally, the payment's status; the order's
\* paymentStatus is left as it is.
InsertAttempt(r) ==
    /\ pc[r] = "numbered"
    /\ LET p == work[r].payment
       IN  IF NumberTaken(p, work[r].number)
           THEN Fail(r, "4xx")
           ELSE /\ attempts' = [attempts EXCEPT ![r] =
                       [payment |-> p, number |-> work[r].number,
                        status |-> "INITIATED"]]
                /\ payments' = [payments EXCEPT ![p].status = "PENDING"]
                /\ Finish(r, "2xx")
                /\ UNCHANGED <<refunds, events, paymentStatus>>

RetryPayment(r) ==
    FindFailedPayment(r) \/ RecheckPayment(r) \/ InsertAttempt(r)

----------------------------------------------------------------------------
\* createRefund

\* Mutant: what was given back already is not looked at.
RefundableOfPaid(p, amount) == amount > 0 /\ amount <= payments[p].paid

\* The amount against paidAmount - refundedAmount; refunds that are still
\* pending are not counted.
Refundable(p, amount) ==
    /\ amount > 0
    /\ amount <= payments[p].paid - payments[p].refunded

CheckRefund(r) ==
    /\ pc[r] = "new"
    /\ \E p \in Inserted(payments), amount \in 0..Total :
          IF Refundable(p, amount)
          THEN /\ Goto(r, "checked",
                       [NoWork EXCEPT !.payment = p, !.amount = amount])
               /\ UNCHANGED rows
          ELSE Fail(r, "4xx")

InsertRefund(r) ==
    /\ pc[r] = "checked"
    /\ refunds' = [refunds EXCEPT ![r] =
                      [payment |-> work[r].payment, amount |-> work[r].amount,
                       status |-> "PENDING"]]
    /\ Finish(r, "2xx")
    /\ UNCHANGED <<payments, attempts, events, paymentStatus>>

CreateRefund(r) == CheckRefund(r) \/ InsertRefund(r)
============================================================================
