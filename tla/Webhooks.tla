------------------------------ MODULE Webhooks ------------------------------
(***************************************************************************)
(* WebhooksService.processEvent: what the payment gateway reports about    *)
(* attempts and refunds, delivered at least once and in any order.         *)
(*                                                                         *)
(* The gateway is outside the program.  Two deliveries of one event id     *)
(* carry the same report; one reference may be reported under several      *)
(* event ids, and with contradictory outcomes.                             *)
(***************************************************************************)
EXTENDS Payments

PaymentTypes == {"payment.succeeded", "payment.failed"}
RefundTypes == {"refund.succeeded", "refund.failed"}
Types == PaymentTypes \cup RefundTypes \cup {"other"}

EventRow == [type : Types, ref : Attempts \cup RefundRequests \cup {None},
             status : {"RECEIVED", "PROCESSED", "IGNORED", "FAILED"}]

ASSUME EventNoneAssumption == None \notin EventRow

\* The references of type t that the gateway may name: those it was given,
\* or one this program does not know.
References(t) ==
    {None} \cup
    CASE t \in PaymentTypes -> Inserted(attempts)
      [] t \in RefundTypes -> Inserted(refunds)
      [] OTHER -> {}

Outcome(type) ==
    IF type \in {"payment.succeeded", "refund.succeeded"}
    THEN "SUCCEEDED" ELSE "FAILED"

\* Mutant: an event that is ignored is left as received.
MarkUnlessIgnored(e, s) ==
    events' = [events EXCEPT ![e].status = IF s = "IGNORED" THEN @ ELSE s]

Mark(e, s) == events' = [events EXCEPT ![e].status = s]

\* The insert violates UNIQUE(provider, eventId).
AlreadyReceived(e) == events[e] # None

\* The event row is inserted, and committed, before anything is done about it.
ReceiveEvent(d) ==
    /\ pc[d] = "new"
    /\ \E e \in Events :
          \/ /\ AlreadyReceived(e)
             /\ Fail(d, "duplicate")
          \/ /\ ~AlreadyReceived(e)
             /\ \E t \in Types : \E ref \in References(t) :
                   events' = [events EXCEPT ![e] =
                       [type |-> t, ref |-> ref, status |-> "RECEIVED"]]
             /\ Goto(d, "received", [NoWork EXCEPT !.event = e])
             /\ UNCHANGED <<payments, attempts, refunds, paymentStatus>>

\* Mutant: the status of the attempt is not looked at.
OpenIfPending(ref) ==
    IF ref \in Attempts THEN TRUE ELSE refunds[ref].status = "PENDING"

\* attempt.status and refund.status, as the handlers read them.
Open(ref) ==
    IF ref \in Attempts THEN attempts[ref].status = "INITIATED"
    ELSE refunds[ref].status = "PENDING"

\* The look-up of the reference.  An event that is not to be processed is
\* marked by a second statement; nobody else writes that row.
FindReference(d) ==
    /\ pc[d] = "received"
    /\ LET e == work[d].event
           ref == events[e].ref
       IN  \/ /\ ref # None
              /\ Open(ref)
              /\ Goto(d, "open", work[d]) /\ UNCHANGED rows
           \/ /\ ref # None
              /\ ~Open(ref)
              /\ Mark(e, "IGNORED") /\ Finish(d, "duplicate")
              /\ UNCHANGED <<payments, attempts, refunds, paymentStatus>>
           \/ /\ ref = None
              /\ \/ /\ events[e].type = "other"
                    /\ Mark(e, "IGNORED") /\ Finish(d, "ignored")
                 \/ /\ events[e].type # "other"
                    /\ Mark(e, "FAILED") /\ Finish(d, "unmatched")
              /\ UNCHANGED <<payments, attempts, refunds, paymentStatus>>

\* Mutant: the order hears of payments and not of refunds.
SummaryOfAttempts(row) ==
    IF row.status \in {"PAID", "FAILED"} THEN row.status ELSE paymentStatus

\* MasterOrder.paymentStatus once the payment's row is row.
Summary(row) == row.status

\* Mutant: a payment that an attempt pays keeps its status.
SettledAlone(row, outcome) ==
    IF outcome = "SUCCEEDED" THEN [row EXCEPT !.paid = Total]
    ELSE [row EXCEPT !.status = "FAILED"]

\* The payment's row after an attempt: absolute values, by id.
Settled(row, outcome) ==
    IF outcome = "SUCCEEDED" THEN [row EXCEPT !.status = "PAID", !.paid = Total]
    ELSE [row EXCEPT !.status = "FAILED"]

\* handlePaymentOutcome's transaction does not look at the attempt again.
SettleAttempt(d) ==
    /\ pc[d] = "open"
    /\ LET e == work[d].event
           a == events[e].ref
           p == attempts[a].payment
           outcome == Outcome(events[e].type)
       IN  /\ a \in Attempts
           /\ attempts' = [attempts EXCEPT ![a].status = outcome]
           /\ payments' = [payments EXCEPT ![p] = Settled(@, outcome)]
           /\ paymentStatus' = Summary(Settled(payments[p], outcome))
           /\ Mark(e, "PROCESSED")
    /\ Finish(d, "processed")
    /\ UNCHANGED refunds

\* Mutant: the refunded amount is written as it was read with the refund.
Overwritten(row, amount) ==
    [row EXCEPT !.refunded = amount,
                !.status = IF amount >= row.paid THEN "REFUNDED"
                           ELSE "PARTIALLY_REFUNDED"]

\* The payment's row after a refund, computed by the UPDATE itself.
Refunded(row, amount) ==
    [row EXCEPT !.refunded = @ + amount,
                !.status = IF row.refunded + amount >= row.paid THEN "REFUNDED"
                           ELSE "PARTIALLY_REFUNDED"]

\* Mutant: the refund is updated by id alone.
NotConditional(r) == TRUE

\* The WHERE clause of the refund's updateMany.
StillPending(r) == refunds[r].status = "PENDING"

\* handleRefundOutcome's transaction: the refund only if it is still pending.
SettleRefund(d) ==
    /\ pc[d] = "open"
    /\ LET e == work[d].event
           r == events[e].ref
           p == refunds[r].payment
           outcome == Outcome(events[e].type)
       IN  /\ r \in RefundRequests
           /\ IF StillPending(r)
              THEN /\ refunds' = [refunds EXCEPT ![r].status = outcome]
                   /\ IF outcome = "SUCCEEDED"
                      THEN LET row == Refunded(payments[p], refunds[r].amount)
                           IN  /\ payments' = [payments EXCEPT ![p] = row]
                               /\ paymentStatus' = Summary(row)
                      ELSE UNCHANGED <<payments, paymentStatus>>
                   /\ Mark(e, "PROCESSED")
                   /\ Finish(d, "processed")
                   /\ UNCHANGED attempts
              ELSE Goto(d, "duplicate", work[d]) /\ UNCHANGED rows

\* markDuplicateRefund after the transaction that found the refund settled.
MarkDuplicateRefund(d) ==
    /\ pc[d] = "duplicate"
    /\ Mark(work[d].event, "IGNORED")
    /\ Finish(d, "duplicate")
    /\ UNCHANGED <<payments, attempts, refunds, paymentStatus>>

ProcessEvent(d) ==
    \/ ReceiveEvent(d)
    \/ FindReference(d)
    \/ SettleAttempt(d)
    \/ SettleRefund(d)
    \/ MarkDuplicateRefund(d)
============================================================================
