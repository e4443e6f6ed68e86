----------------------------- MODULE Settlement -----------------------------
(***************************************************************************)
(* Payments and webhooks together: the customer's, the administrators' and *)
(* the gateway's concurrent requests about one master order.               *)
(***************************************************************************)
EXTENDS Webhooks, FiniteSetsExt

\* The process stops, or its connection or the transaction's time is lost.
Interrupt(r) ==
    /\ pc[r] \notin {"new", "done"}
    /\ Fail(r, "5xx")

Step(r) ==
    \/ r \in Creates /\ CreatePayment(r)
    \/ r \in Retries /\ RetryPayment(r)
    \/ r \in RefundRequests /\ CreateRefund(r)
    \/ r \in Deliveries /\ ProcessEvent(r)

\* The refunds of p that have been checked and have not been settled.
OpenRefunds(p) ==
    {r \in RefundRequests :
        \/ pc[r] = "checked" /\ work[r].payment = p
        \/ /\ refunds[r] # None
           /\ refunds[r].payment = p /\ refunds[r].status = "PENDING"}

\* The deliveries that are about to settle reference ref.
Reporting(ref) ==
    {d \in Deliveries : pc[d] = "open" /\ events[work[d].event].ref = ref}

\* What the history variables keep of a step.
Observe ==
    /\ overlapped' = overlapped \cup
          {p \in Creates : \E r, s \in OpenRefunds(p)' : r # s}
    /\ contested' = contested \cup
          {a \in Attempts : \E c, d \in Reporting(a)' : c # d}

Next == (\E r \in Requests : Step(r) \/ Interrupt(r)) /\ Observe

Spec == Init /\ [][Next]_vars

----------------------------------------------------------------------------
Places == {"new", "checked", "numbered", "received", "open", "duplicate", "done"}
Answers == {"none", "2xx", "4xx", "5xx",
            "processed", "duplicate", "ignored", "unmatched"}
Work == [payment : Creates \cup {None}, number : Nat, amount : 0..Total,
         event : Events \cup {None}]

TypeOK ==
    /\ payments \in [Creates -> PaymentRow \cup {None}]
    /\ attempts \in [Attempts -> AttemptRow \cup {None}]
    /\ refunds \in [RefundRequests -> RefundRow \cup {None}]
    /\ events \in [Events -> EventRow \cup {None}]
    /\ paymentStatus \in PaymentStatuses
    /\ pc \in [Requests -> Places]
    /\ answer \in [Requests -> Answers]
    /\ work \in [Requests -> Work]

Succeeded(p) ==
    {r \in Inserted(refunds) : /\ refunds[r].payment = p
                               /\ refunds[r].status = "SUCCEEDED"}

\* What a payment says it has given back is the sum of its refunds that
\* succeeded: refunds that settle at once, under duplicated events or under
\* events with different ids, are neither lost nor counted twice.
RefundedIsSum ==
    \A p \in Inserted(payments) :
        payments[p].refunded =
            MapThenSumSet(LAMBDA r : refunds[r].amount, Succeeded(p))

\* What is left of the documented bound (RefundsWithinPaid, below): a payment
\* gives back no more than was paid for as long as no two of its refunds have
\* been open at once, from the check of one to the event that settles it, although
\* late and contradictory events of its attempts and refunds arrive.
OverRefundNeedsRace ==
    \A p \in Inserted(payments) \ overlapped :
        payments[p].refunded <= payments[p].paid

\* The events that were processed about reference ref.
ProcessedFor(ref) ==
    {e \in Inserted(events) : /\ events[e].ref = ref
                              /\ events[e].status = "PROCESSED"}

\* A settled row of reference ref was settled by exactly one event, whose
\* outcome it has; an unsettled one by none.
SettledByOneEvent(ref, row, unsettled) ==
    IF row.status = unsettled THEN ProcessedFor(ref) = {}
    ELSE \E e \in Inserted(events) : /\ ProcessedFor(ref) = {e}
                                     /\ row.status = Outcome(events[e].type)

RefundSettledOnce ==
    \A r \in Inserted(refunds) : SettledByOneEvent(r, refunds[r], "PENDING")

AttemptSettledOnce ==
    \A a \in Inserted(attempts) \ contested :
        SettledByOneEvent(a, attempts[a], "INITIATED")

\* Every refund that is settled was settled by one event alone, also when the
\* gateway reports it under several ids and the deliveries run concurrently.
\* Of attempts, whose transaction does not look at the status again, the same
\* holds unless two deliveries have found the attempt INITIATED at once: a
\* second or contradictory event that finds it settled changes nothing.
SettledOnce == RefundSettledOnce /\ AttemptSettledOnce

Numbers(p) == {attempts[a].number : a \in AttemptsOf(p)}

\* The attempts of a payment are numbered 1, 2, 3, ... without a gap or a
\* duplicate, although a retry's number is computed before it is inserted.
AttemptsNumbered ==
    /\ \A p \in Inserted(payments) : \A n \in Numbers(p) :
          n = 1 \/ n - 1 \in Numbers(p)
    /\ \A a, b \in Inserted(attempts) :
          /\ attempts[a].payment = attempts[b].payment
          /\ attempts[a].number = attempts[b].number
          => a = b

LastAttempt(p) ==
    CHOOSE a \in AttemptsOf(p) :
        \A b \in AttemptsOf(p) : attempts[a].number >= attempts[b].number

\* Where payment p is when its last attempt is last.
Follows(p, last) ==
    /\ \A a \in AttemptsOf(p) \ {last} : attempts[a].status = "FAILED"
    /\ attempts[last].status = "INITIATED" <=> payments[p].status = "PENDING"
    /\ attempts[last].status = "FAILED" <=> payments[p].status = "FAILED"
    /\ payments[p].paid = IF attempts[last].status = "SUCCEEDED" THEN Total ELSE 0

OrderFollows(p) ==
    Inserted(payments) = {p} =>
        \/ paymentStatus = payments[p].status
        \/ payments[p].status = "PENDING" /\ paymentStatus = "FAILED"

\* No two deliveries have settled an attempt of p beside each other.
Uncontested(p) == AttemptsOf(p) \cap contested = {}

\* Unless two deliveries have found one of its attempts INITIATED at once, a
\* payment is where its last attempt is, and its earlier attempts have failed:
\* no late or contradictory event of any attempt and no concurrent retry moves
\* it, and money is taken once.
\* The order's summary agrees with its payment when it has only one, except
\* that a retry leaves the order at FAILED while the payment is PENDING.
StatusesFollow ==
    \A p \in Inserted(payments) :
        Uncontested(p) => Follows(p, LastAttempt(p)) /\ OrderFollows(p)

\* An event that was received and is not handled is in the hands of exactly
\* one delivery, or of one that died: nothing else leaves it behind, although
\* every later delivery of it is answered as a duplicate.
ReceivedIsCarried ==
    \A e \in Inserted(events) :
        events[e].status = "RECEIVED" =>
            \E d \in Deliveries :
                /\ work[d].event = e
                /\ pc[d] # "done" \/ answer[d] = "5xx"
                /\ \A c \in Deliveries \ {d} : work[c].event # e

\* A request inserts its row last; what it has read is still there, and a
\* retry that has a number follows an attempt with the number before it.  A
\* delivery carries an event of its own, which nobody else has handled.
RequestsSound ==
    /\ \A r \in Requests : pc[r] = "new" => work[r] = NoWork
    /\ \A c \in Creates : payments[c] # None => pc[c] = "done"
    /\ \A a \in Attempts : attempts[a] # None => pc[a] = "done"
    /\ \A r \in RefundRequests : refunds[r] # None => pc[r] = "done"
    /\ \A r \in Retries :
          /\ pc[r] \in {"checked", "numbered"} =>
                work[r].payment \in Inserted(payments)
          /\ pc[r] = "numbered" =>
                work[r].number - 1 \in Numbers(work[r].payment)
    /\ \A r \in RefundRequests : pc[r] = "checked" =>
          /\ work[r].payment \in Inserted(payments) /\ work[r].amount > 0
          /\ payments[work[r].payment].paid > 0

DeliveriesSound ==
    /\ \A d \in Deliveries :
          /\ work[d].event # None => work[d].event \in Inserted(events)
          /\ pc[d] \in {"received", "open", "duplicate"} =>
                /\ work[d].event # None
                /\ events[work[d].event].status = "RECEIVED"
          /\ pc[d] = "open" => events[work[d].event].ref # None
    /\ \A c, d \in Deliveries :
          work[c].event # None /\ work[c].event = work[d].event => c = d

RowsSound ==
    /\ \A a \in Inserted(attempts) : attempts[a].payment \in Inserted(payments)
    /\ \A r \in Inserted(refunds) : /\ refunds[r].payment \in Inserted(payments)
                                     /\ payments[refunds[r].payment].paid > 0
    /\ \A e \in Inserted(events) : events[e].ref # None =>
          events[e].ref \in Inserted(attempts) \cup Inserted(refunds)
    /\ Inserted(payments) = {} => paymentStatus = "PENDING"
    /\ \A p \in Inserted(payments) : \E k \in Numbers(p) : Numbers(p) = 1..k

\* A retry is numbered after attempts that have failed.
RetriesSound ==
    \A r \in Retries :
        pc[r] = "numbered" /\ Uncontested(work[r].payment) =>
            \A a \in AttemptsOf(work[r].payment) :
                attempts[a].number < work[r].number => attempts[a].status = "FAILED"

\* An attempt that is not contested has at most one delivery about to settle it,
\* and is INITIATED until then.
ReportsSound ==
    \A a \in Attempts \ contested :
        \A d \in Reporting(a) : /\ attempts[a].status = "INITIATED"
                                /\ \A c \in Reporting(a) : c = d

\* The inductive invariant behind these properties.
SettlementInv ==
    /\ TypeOK /\ RequestsSound /\ DeliveriesSound /\ RowsSound /\ RetriesSound
    /\ SettledOnce /\ AttemptsNumbered /\ StatusesFollow /\ ReceivedIsCarried

\* What each payment says it has given back.
GivenBack ==
    [c \in Creates |-> IF payments[c] = None THEN 0 ELSE payments[c].refunded]

\* What payment p was paid, and the amount of refund r, inserted or not.
PaidIn(p) == IF payments[p] = None THEN 0 ELSE payments[p].paid
AmountOf(r) == IF refunds[r] = None THEN work[r].amount ELSE refunds[r].amount

\* The one open refund of a payment fits into what it has not given back yet.
Alone(p) == \A r, s \in OpenRefunds(p) : r = s
Fits(p) ==
    /\ GivenBack[p] <= PaidIn(p)
    /\ \A r \in OpenRefunds(p) : GivenBack[p] + AmountOf(r) <= PaidIn(p)
RefundsFit == \A p \in Creates \ overlapped : Alone(p) /\ Fits(p)

\* The customer and the gateway together do to the refunds what RefundBook
\* allows.
Book == INSTANCE RefundBook WITH
    Payers <- Creates,
    Grants <- RefundRequests,
    Largest <- Total,
    Nothing <- None,
    granted <- refunds,
    returned <- GivenBack

ImplementsRefundBook == Book!BookSpec

----------------------------------------------------------------------------
\* What the documents say and the code does not keep (README.md).

\* payments.service.ts:61: "`createForUser` therefore rejects (409) a second
\* Payment for an order that already has one".
OnePaymentPerOrder == Cardinality(Inserted(payments)) <= 1

\* webhooks.service.ts:151: "this attempt was already resolved by a prior event
\* ... Never re-apply the financial effect".  Two deliveries that have both
\* found it INITIATED apply theirs both.
EveryAttemptSettledOnce ==
    \A a \in Inserted(attempts) : SettledByOneEvent(a, attempts[a], "INITIATED")

\* docs/database/payment-refund.md:670: "Retry safety", :673: "Failure recovery".
\* An event whose delivery died is a duplicate ever after, and is not handled.
ReceivedIsHandled ==
    \A e \in Inserted(events) :
        events[e].status = "RECEIVED" =>
            \E d \in Deliveries : work[d].event = e /\ pc[d] # "done"

\* docs/database/payment-refund.md:848: "sum(successful refunds) <= paidAmount".
RefundsWithinPaid ==
    \A p \in Inserted(payments) : payments[p].refunded <= payments[p].paid
============================================================================
