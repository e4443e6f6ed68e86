-------------------------- MODULE SettlementProofs --------------------------
(***************************************************************************)
(* For any number of payments, retries, refunds, deliveries and events:    *)
(* refunds are settled once, and so is an attempt that no two deliveries   *)
(* have found INITIATED at once; attempts are numbered without gaps,       *)
(* statuses follow the attempts, and no received event is forgotten by a   *)
(* living delivery.                                                        *)
(***************************************************************************)
EXTENDS Settlement, Sums, TLAPS

\* The sorts of requests are told apart.
LEMMA Sorts ==
    /\ Creates \subseteq Attempts /\ Retries \subseteq Attempts
    /\ Attempts \subseteq Requests /\ RefundRequests \subseteq Requests
    /\ Deliveries \subseteq Requests
    /\ Creates \cap Retries = {} /\ Attempts \cap RefundRequests = {}
    /\ Attempts \cap Deliveries = {} /\ RefundRequests \cap Deliveries = {}
    /\ None \notin Requests /\ None \notin Events
    /\ \A a \in Attempts : a \in Creates \/ a \in Retries
BY RequestsAssumption, NoneAssumption DEF Requests, Attempts

\* The rows of each table have their types.
LEMMA RowTypes ==
    ASSUME TypeOK
    PROVE  /\ \A p \in Inserted(payments) : /\ p \in Creates
                                            /\ payments[p] \in PaymentRow
                                            /\ payments[p] # None
           /\ \A a \in Inserted(attempts) : /\ a \in Attempts
                                            /\ attempts[a] \in AttemptRow
                                            /\ attempts[a] # None
           /\ \A r \in Inserted(refunds) : /\ r \in RefundRequests
                                           /\ refunds[r] \in RefundRow
                                           /\ refunds[r] # None
           /\ \A e \in Inserted(events) : /\ e \in Events
                                          /\ events[e] \in EventRow
                                          /\ events[e] # None
BY DEF TypeOK, Inserted

\* Inserted, with the types of the tables.
LEMMA InsertedFacts ==
    ASSUME TypeOK
    PROVE  /\ Inserted(payments) = {c \in Creates : payments[c] # None}
           /\ Inserted(attempts) = {a \in Attempts : attempts[a] # None}
           /\ Inserted(refunds) = {r \in RefundRequests : refunds[r] # None}
           /\ Inserted(events) = {e \in Events : events[e] # None}
BY DEF TypeOK, Inserted

LEMMA NoWorkType == NoWork \in Work
BY TotalAssumption DEF NoWork, Work

\* The last attempt of a payment is the one with the highest number.
LEMMA LastIs ==
    ASSUME TypeOK, AttemptsNumbered, NEW p, NEW a \in AttemptsOf(p),
           \A b \in AttemptsOf(p) : attempts[a].number >= attempts[b].number
    PROVE  LastAttempt(p) = a
<1> DEFINE Highest(x) == \A b \in AttemptsOf(p) : attempts[x].number >= attempts[b].number
<1>1. \A b \in AttemptsOf(p) : b \in Inserted(attempts) /\ attempts[b].payment = p
                               /\ attempts[b].number \in Nat
  BY RowTypes DEF AttemptsOf, AttemptRow
<1>2. ASSUME NEW b \in AttemptsOf(p), Highest(b) PROVE b = a
  <2>1. attempts[b].number >= attempts[a].number /\ attempts[a].number >= attempts[b].number
    BY <1>2
  <2>2. attempts[b].number = attempts[a].number
    BY <1>1, <2>1
  <2> QED
    BY <1>1, <2>2 DEF AttemptsNumbered
<1>3. a \in AttemptsOf(p) /\ Highest(a)
  OBVIOUS
<1> QED
  BY <1>2, <1>3 DEF LastAttempt

\* Every payment has a last attempt, whose number is the highest.
LEMMA LastFacts ==
    ASSUME TypeOK, AttemptsNumbered, RowsSound, NEW p \in Inserted(payments)
    PROVE  /\ LastAttempt(p) \in AttemptsOf(p)
           /\ Numbers(p) = 1..attempts[LastAttempt(p)].number
           /\ attempts[LastAttempt(p)].number \in Nat \ {0}
           /\ \A b \in AttemptsOf(p) :
                 attempts[LastAttempt(p)].number >= attempts[b].number
<1>1. PICK k \in Numbers(p) : Numbers(p) = 1..k
  BY DEF RowsSound
<1>2. PICK a \in AttemptsOf(p) : attempts[a].number = k
  BY DEF Numbers
<1>3. \A b \in AttemptsOf(p) : b \in Inserted(attempts) /\ attempts[b].number \in Nat \ {0}
  BY RowTypes DEF AttemptsOf, AttemptRow
<1>4. \A b \in AttemptsOf(p) : attempts[b].number \in 1..k
  BY <1>1 DEF Numbers
<1>5. \A b \in AttemptsOf(p) : attempts[a].number >= attempts[b].number
  BY <1>2, <1>3, <1>4
<1>6. LastAttempt(p) = a
  BY <1>5, LastIs
<1> QED
  BY <1>1, <1>2, <1>3, <1>5, <1>6

----------------------------------------------------------------------------
\* What stays true of attempts and payments while nobody writes them.
LEMMA AttemptsKept ==
    ASSUME SettlementInv, UNCHANGED <<payments, attempts, paymentStatus>>,
           contested \subseteq contested'
    PROVE  /\ AttemptsNumbered' /\ StatusesFollow'
           /\ Inserted(payments)' = Inserted(payments)
           /\ Inserted(attempts)' = Inserted(attempts)
           /\ \A p : AttemptsOf(p)' = AttemptsOf(p) /\ Numbers(p)' = Numbers(p)
<1>1. /\ Inserted(payments)' = Inserted(payments)
      /\ Inserted(attempts)' = Inserted(attempts)
  BY DEF Inserted
<1>2. \A p : AttemptsOf(p)' = AttemptsOf(p)
  BY <1>1 DEF AttemptsOf
<1>3. \A p : Numbers(p)' = Numbers(p) /\ LastAttempt(p)' = LastAttempt(p)
  BY <1>2 DEF Numbers, LastAttempt
<1>4. AttemptsNumbered'
  BY <1>1, <1>3 DEF SettlementInv, AttemptsNumbered
<1>5. \A p : Uncontested(p)' => Uncontested(p)
  BY <1>2 DEF Uncontested
<1>6. ASSUME NEW p \in Inserted(payments)
      PROVE  /\ Follows(p, LastAttempt(p)) => Follows(p, LastAttempt(p))'
             /\ OrderFollows(p) => OrderFollows(p)'
  <2>1. Follows(p, LastAttempt(p)) => Follows(p, LastAttempt(p))'
    BY <1>1, <1>2, <1>3 DEF Follows
  <2>2. OrderFollows(p) => OrderFollows(p)'
    BY <1>1 DEF OrderFollows
  <2> QED
    BY <2>1, <2>2
<1>7. StatusesFollow'
  BY <1>1, <1>5, <1>6 DEF SettlementInv, StatusesFollow
<1> QED
  BY <1>1, <1>2, <1>3, <1>4, <1>7

\* Settled rows while nobody writes attempts, refunds or events.
LEMMA SettledKept ==
    ASSUME SettlementInv, UNCHANGED <<attempts, refunds, events>>,
           contested \subseteq contested'
    PROVE  SettledOnce'
<1>1. /\ Inserted(events)' = Inserted(events)
      /\ Inserted(attempts)' = Inserted(attempts)
      /\ Inserted(refunds)' = Inserted(refunds)
  BY DEF Inserted
<1>2. \A x : ProcessedFor(x)' = ProcessedFor(x)
  BY <1>1 DEF ProcessedFor
<1>4. RefundSettledOnce'
  BY <1>1, <1>2 DEF SettlementInv, SettledOnce, RefundSettledOnce, SettledByOneEvent
<1>5. AttemptSettledOnce => AttemptSettledOnce'
  BY <1>1, <1>2 DEF AttemptSettledOnce, SettledByOneEvent
<1> QED
  BY <1>4, <1>5 DEF SettlementInv, SettledOnce

\* A step of request r that writes no row.
LEMMA LocalInv ==
    ASSUME SettlementInv, TypeOK', UNCHANGED rows, NEW r \in Requests,
           contested \subseteq contested',
           pc[r] # "done", pc'[r] # "new",
           \A q \in Requests \ {r} : /\ pc'[q] = pc[q] /\ work'[q] = work[q]
                                     /\ answer'[q] = answer[q],
           r \in Retries =>
               /\ pc'[r] \in {"checked", "numbered"} =>
                     work'[r].payment \in Inserted(payments)
               /\ pc'[r] = "numbered" =>
                     work'[r].number - 1 \in Numbers(work'[r].payment)
               /\ Uncontested(work'[r].payment) /\ pc'[r] = "numbered" =>
                     \A a \in AttemptsOf(work'[r].payment) :
                         attempts[a].number < work'[r].number =>
                             attempts[a].status = "FAILED",
           r \in RefundRequests /\ pc'[r] = "checked" =>
               /\ work'[r].payment \in Inserted(payments) /\ work'[r].amount > 0
               /\ payments[work'[r].payment].paid > 0,
           r \in Deliveries =>
               /\ work'[r] = work[r]
               /\ pc'[r] \in {"received", "open", "duplicate"} =>
                     pc[r] \in {"received", "open", "duplicate"}
               /\ pc'[r] = "open" => events[work[r].event].ref # None
               /\ pc'[r] = "done" => work[r].event = None \/ answer'[r] = "5xx"
    PROVE  SettlementInv'
<1> USE DEF SettlementInv
<1>1. UNCHANGED <<payments, attempts, refunds, events, paymentStatus>>
  BY DEF rows
<1>2. SettledOnce'
  BY <1>1, SettledKept
<1>3. /\ AttemptsNumbered' /\ StatusesFollow'
      /\ Inserted(payments)' = Inserted(payments)
      /\ Inserted(attempts)' = Inserted(attempts)
      /\ \A p : AttemptsOf(p)' = AttemptsOf(p) /\ Numbers(p)' = Numbers(p)
  BY <1>1, AttemptsKept
<1>4. Inserted(events)' = Inserted(events) /\ Inserted(refunds)' = Inserted(refunds)
  BY <1>1 DEF Inserted
<1>5. RowsSound'
  BY <1>1, <1>3, <1>4 DEF RowsSound
<1>6. RequestsSound'
  <2>1. /\ \A q \in Requests : pc'[q] = "new" => work'[q] = NoWork
        /\ \A c \in Creates : payments'[c] # None => pc'[c] = "done"
        /\ \A a \in Attempts : attempts'[a] # None => pc'[a] = "done"
        /\ \A q \in RefundRequests : refunds'[q] # None => pc'[q] = "done"
    BY <1>1, Sorts DEF RequestsSound
  <2>2. \A q \in Retries :
          /\ pc'[q] \in {"checked", "numbered"} =>
                work'[q].payment \in Inserted(payments)
          /\ pc'[q] = "numbered" =>
                work'[q].number - 1 \in Numbers(work'[q].payment)
    BY Sorts DEF RequestsSound
  <2>3. \A q \in RefundRequests : pc'[q] = "checked" =>
          /\ work'[q].payment \in Inserted(payments) /\ work'[q].amount > 0
          /\ payments[work'[q].payment].paid > 0
    BY Sorts DEF RequestsSound
  <2>4. \A q \in Retries : Numbers(work[q].payment)' = Numbers(work'[q].payment)
    BY <1>1 DEF Numbers, AttemptsOf, Inserted
  <2> QED
    BY <1>1, <1>3, <2>1, <2>2, <2>3, <2>4 DEF RequestsSound
<1>7. RetriesSound'
  <2> SUFFICES ASSUME NEW q \in Retries, pc'[q] = "numbered",
                      Uncontested(work[q].payment)'
               PROVE  (\A a \in AttemptsOf(work[q].payment) :
                         attempts[a].number < work[q].number =>
                             attempts[a].status = "FAILED")'
    BY DEF RetriesSound
  <2>2. Uncontested(work'[q].payment)
    BY <1>1 DEF Uncontested, AttemptsOf, Inserted
  <2>1. \A a \in AttemptsOf(work'[q].payment) :
            attempts[a].number < work'[q].number => attempts[a].status = "FAILED"
    BY <2>2, Sorts DEF RetriesSound
  <2> QED
    BY <1>1, <2>1 DEF AttemptsOf, Inserted
<1>8. \A d \in Deliveries : work'[d] = work[d]
  BY Sorts
<1>9. DeliveriesSound'
  <2>1. \A d \in Deliveries :
          /\ pc'[d] \in {"received", "open", "duplicate"} =>
                 pc[d] \in {"received", "open", "duplicate"}
          /\ pc'[d] = "open" => events[work[d].event].ref # None
    BY Sorts DEF DeliveriesSound
  <2> QED
    BY <1>1, <1>4, <1>8, <2>1 DEF DeliveriesSound
<1>10. ReceivedIsCarried'
  <2> SUFFICES ASSUME NEW e \in Inserted(events), events[e].status = "RECEIVED"
               PROVE  \E d \in Deliveries :
                        /\ work'[d].event = e
                        /\ pc'[d] # "done" \/ answer'[d] = "5xx"
                        /\ \A c \in Deliveries \ {d} : work'[c].event # e
    BY <1>1, <1>4 DEF ReceivedIsCarried
  <2>1. PICK d \in Deliveries :
            /\ work[d].event = e
            /\ pc[d] # "done" \/ answer[d] = "5xx"
            /\ \A c \in Deliveries \ {d} : work[c].event # e
    BY DEF ReceivedIsCarried
  <2>2. e # None
    BY RowTypes, Sorts
  <2>3. pc'[d] # "done" \/ answer'[d] = "5xx"
    BY <2>1, <2>2, Sorts
  <2> QED
    BY <1>8, <2>1, <2>3
<1> QED
  BY <1>2, <1>3, <1>5, <1>6, <1>7, <1>9, <1>10

\* A request that fails.
LEMMA FailInv ==
    ASSUME SettlementInv, contested \subseteq contested',
           NEW r \in Requests, NEW a \in Answers, Fail(r, a),
           pc[r] # "done",
           r \in Deliveries => work[r].event = None \/ a = "5xx"
    PROVE  SettlementInv'
<1>1. /\ pc' = [pc EXCEPT ![r] = "done"]
      /\ answer' = [answer EXCEPT ![r] = a]
      /\ work' = work /\ UNCHANGED rows
  BY DEF Fail, Finish
<1>2. /\ pc \in [Requests -> Places] /\ answer \in [Requests -> Answers]
      /\ work \in [Requests -> Work]
  BY DEF SettlementInv, TypeOK
<1>3. "done" \in Places
  BY DEF Places
<1>4. TypeOK'
  <2>1. /\ pc' \in [Requests -> Places] /\ answer' \in [Requests -> Answers]
        /\ work' \in [Requests -> Work]
    BY <1>1, <1>2, <1>3
  <2> QED
    BY <1>1, <2>1 DEF SettlementInv, TypeOK, rows
<1>5. pc'[r] = "done" /\ answer'[r] = a /\ work'[r] = work[r]
  BY <1>1, <1>2
<1>6. \A q \in Requests \ {r} : /\ pc'[q] = pc[q] /\ work'[q] = work[q]
                                /\ answer'[q] = answer[q]
  BY <1>1, <1>2
<1> QED
  BY <1>1, <1>4, <1>5, <1>6, LocalInv

\* A request that goes on: the types, and what it leaves alone.
LEMMA GotoFacts ==
    ASSUME SettlementInv, NEW r \in Requests, NEW place \in Places, NEW w \in Work,
           Goto(r, place, w)
    PROVE  /\ pc'[r] = place /\ work'[r] = w /\ answer'[r] = answer[r]
           /\ \A q \in Requests \ {r} : /\ pc'[q] = pc[q] /\ work'[q] = work[q]
                                        /\ answer'[q] = answer[q]
           /\ UNCHANGED rows => TypeOK'
<1>1. /\ pc' = [pc EXCEPT ![r] = place] /\ answer' = answer
      /\ work' = [work EXCEPT ![r] = w]
  BY DEF Goto
<1>2. /\ pc \in [Requests -> Places] /\ answer \in [Requests -> Answers]
      /\ work \in [Requests -> Work]
  BY DEF SettlementInv, TypeOK
<1>3. /\ pc' \in [Requests -> Places] /\ answer' \in [Requests -> Answers]
      /\ work' \in [Requests -> Work]
  BY <1>1, <1>2
<1>4. UNCHANGED rows => TypeOK'
  BY <1>3 DEF SettlementInv, TypeOK, rows
<1> QED
  BY <1>1, <1>2, <1>4

\* The program starts with empty tables.
LEMMA InitInv == Init => SettlementInv
<1> SUFFICES ASSUME Init PROVE SettlementInv
  OBVIOUS
<1>1. TypeOK
  <2>1. /\ "new" \in Places /\ "none" \in Answers /\ "PENDING" \in PaymentStatuses
    BY DEF Places, Answers, PaymentStatuses
  <2> QED
    BY <2>1, NoWorkType DEF Init, TypeOK
<1>2. /\ Inserted(payments) = {} /\ Inserted(attempts) = {}
      /\ Inserted(refunds) = {} /\ Inserted(events) = {}
  BY DEF Init, Inserted
<1>3. \A r \in Requests : pc[r] = "new" /\ work[r] = NoWork
  BY DEF Init
<1>4. RequestsSound
  BY <1>3, Sorts DEF Init, RequestsSound
<1>5. DeliveriesSound
  BY <1>3, Sorts DEF DeliveriesSound, NoWork
<1>6. RowsSound
  BY <1>2 DEF RowsSound, Init
<1>7. RetriesSound
  BY <1>3, Sorts DEF RetriesSound
<1>8. SettledOnce
  BY <1>2 DEF SettledOnce, RefundSettledOnce, AttemptSettledOnce
<1>9. AttemptsNumbered
  BY <1>2 DEF AttemptsNumbered
<1>10. StatusesFollow
  BY <1>2 DEF StatusesFollow
<1>11. ReceivedIsCarried
  BY <1>2 DEF ReceivedIsCarried
<1> QED
  BY <1>1, <1>4, <1>5, <1>6, <1>7, <1>8, <1>9, <1>10, <1>11 DEF SettlementInv

----------------------------------------------------------------------------
\* The steps that write no row.
LEMMA CountPaymentsInv ==
    ASSUME SettlementInv, contested \subseteq contested',
           NEW r \in Creates, CountPayments(r)
    PROVE  SettlementInv'
<1>1. r \in Requests /\ r \notin Retries /\ r \notin RefundRequests /\ r \notin Deliveries
  BY Sorts
<1>2. CASE NoPayment
  <2>1. Goto(r, "checked", NoWork) /\ UNCHANGED rows
    BY <1>2 DEF CountPayments
  <2>2. "checked" \in Places
    BY DEF Places
  <2>3. /\ pc'[r] = "checked" /\ TypeOK'
        /\ \A q \in Requests \ {r} : /\ pc'[q] = pc[q] /\ work'[q] = work[q]
                                     /\ answer'[q] = answer[q]
    BY <1>1, <2>1, <2>2, NoWorkType, GotoFacts
  <2> QED
    BY <1>1, <2>1, <2>3, LocalInv DEF CountPayments
<1>3. CASE ~NoPayment
  <2>1. "4xx" \in Answers
    BY DEF Answers
  <2> QED
    BY <1>1, <1>3, <2>1, FailInv DEF CountPayments
<1> QED
  BY <1>2, <1>3

LEMMA FindFailedPaymentInv ==
    ASSUME SettlementInv, contested \subseteq contested',
           NEW r \in Retries, FindFailedPayment(r)
    PROVE  SettlementInv'
<1>1. r \in Requests /\ r \notin RefundRequests /\ r \notin Deliveries
  BY Sorts
<1>2. PICK p \in Inserted(payments) :
          \/ Goto(r, "checked", [NoWork EXCEPT !.payment = p]) /\ UNCHANGED rows
          \/ Fail(r, "4xx")
  BY DEF FindFailedPayment
<1>3. CASE Goto(r, "checked", [NoWork EXCEPT !.payment = p]) /\ UNCHANGED rows
  <2>1. p \in Creates
    BY RowTypes DEF SettlementInv
  <2>2. PICK w : w = [NoWork EXCEPT !.payment = p]
    OBVIOUS
  <2>3. "checked" \in Places /\ w \in Work /\ w.payment = p
    BY <2>1, <2>2, NoWorkType DEF Places, Work
  <2>4. /\ pc'[r] = "checked" /\ work'[r] = w /\ TypeOK'
        /\ \A q \in Requests \ {r} : /\ pc'[q] = pc[q] /\ work'[q] = work[q]
                                     /\ answer'[q] = answer[q]
    BY <1>1, <1>3, <2>2, <2>3, GotoFacts
  <2> QED
    BY <1>1, <1>3, <2>3, <2>4, LocalInv DEF FindFailedPayment
<1>4. CASE Fail(r, "4xx")
  <2>1. "4xx" \in Answers
    BY DEF Answers
  <2> QED
    BY <1>1, <1>4, <2>1, FailInv DEF FindFailedPayment
<1> QED
  BY <1>2, <1>3, <1>4

\* The number of the next attempt.
LEMMA NextIs ==
    ASSUME TypeOK, AttemptsNumbered, RowsSound, NEW p \in Inserted(payments)
    PROVE  NextNumber(p) = attempts[LastAttempt(p)].number + 1
<1>1. PICK last : last = LastAttempt(p)
  OBVIOUS
<1>2. PICK m : m = attempts[last].number
  OBVIOUS
<1>3. /\ last \in AttemptsOf(p) /\ m \in Nat
      /\ \A b \in AttemptsOf(p) : m >= attempts[b].number
  BY <1>1, <1>2, LastFacts
<1>4. \A a \in AttemptsOf(p) : attempts[a].number \in Nat
  BY RowTypes DEF AttemptsOf, AttemptRow
<1>5. \A n \in {attempts[a].number : a \in AttemptsOf(p)} :
          (\A a \in AttemptsOf(p) : n >= attempts[a].number) <=> n = m
  BY <1>2, <1>3, <1>4
<1>6. m \in {attempts[a].number : a \in AttemptsOf(p)}
  BY <1>2, <1>3
<1>7. (CHOOSE n \in {attempts[a].number : a \in AttemptsOf(p)} :
          \A a \in AttemptsOf(p) : n >= attempts[a].number) = m
  BY <1>5, <1>6
<1>8. NextNumber(p) = 1 + m
  BY <1>7 DEF NextNumber
<1> QED
  BY <1>1, <1>2, <1>3, <1>8

LEMMA RecheckPaymentInv ==
    ASSUME SettlementInv, contested \subseteq contested',
           NEW r \in Retries, RecheckPayment(r)
    PROVE  SettlementInv'
<1>1. r \in Requests /\ r \notin RefundRequests /\ r \notin Deliveries
  BY Sorts
<1>2. PICK p : p = work[r].payment
  OBVIOUS
<1>3. p \in Inserted(payments)
  BY <1>2 DEF RecheckPayment, SettlementInv, RequestsSound
<1>4. CASE payments[p].status = "FAILED"
  <2>1. PICK n : n = NextNumber(p)
    OBVIOUS
  <2>2. PICK last : last = LastAttempt(p)
    OBVIOUS
  <2>3. /\ last \in AttemptsOf(p) /\ Numbers(p) = 1..attempts[last].number
        /\ attempts[last].number \in Nat \ {0}
        /\ n = attempts[last].number + 1
    BY <1>3, <2>1, <2>2, LastFacts, NextIs DEF SettlementInv
  <2>4. PICK w : w = [work[r] EXCEPT !.number = n]
    OBVIOUS
  <2>5. work[r] \in Work
    BY <1>1 DEF SettlementInv, TypeOK
  <2>6. w \in Work /\ w.payment = p /\ w.number = n
    BY <1>2, <2>3, <2>4, <2>5 DEF Work
  <2>7. Goto(r, "numbered", w) /\ UNCHANGED rows
    BY <1>2, <1>4, <2>1, <2>4 DEF RecheckPayment
  <2>8. "numbered" \in Places
    BY DEF Places
  <2>9. /\ pc'[r] = "numbered" /\ work'[r] = w /\ TypeOK'
        /\ \A q \in Requests \ {r} : /\ pc'[q] = pc[q] /\ work'[q] = work[q]
                                     /\ answer'[q] = answer[q]
    BY <1>1, <2>6, <2>7, <2>8, GotoFacts
  <2>10. n - 1 \in Numbers(p)
    BY <2>3
  <2>11. Uncontested(p) => \A a \in AttemptsOf(p) : attempts[a].status = "FAILED"
    <3> SUFFICES ASSUME Uncontested(p)
                 PROVE  \A a \in AttemptsOf(p) : attempts[a].status = "FAILED"
      OBVIOUS
    <3>1. /\ \A a \in AttemptsOf(p) \ {last} : attempts[a].status = "FAILED"
          /\ attempts[last].status = "FAILED" <=> payments[p].status = "FAILED"
      BY <1>3, <2>2 DEF SettlementInv, StatusesFollow, Follows
    <3> QED
      BY <1>4, <3>1
  <2> QED
    BY <1>1, <1>3, <2>6, <2>7, <2>9, <2>10, <2>11, LocalInv DEF RecheckPayment
<1>5. CASE payments[p].status # "FAILED"
  <2>1. "4xx" \in Answers
    BY DEF Answers
  <2> QED
    BY <1>1, <1>2, <1>5, <2>1, FailInv DEF RecheckPayment
<1> QED
  BY <1>4, <1>5

LEMMA CheckRefundInv ==
    ASSUME SettlementInv, contested \subseteq contested',
           NEW r \in RefundRequests, CheckRefund(r)
    PROVE  SettlementInv'
<1>1. r \in Requests /\ r \notin Retries /\ r \notin Deliveries
  BY Sorts
<1>2. PICK p \in Inserted(payments), amount \in 0..Total :
          \/ /\ Refundable(p, amount)
             /\ Goto(r, "checked", [NoWork EXCEPT !.payment = p, !.amount = amount])
             /\ UNCHANGED rows
          \/ Fail(r, "4xx")
  BY DEF CheckRefund
<1>3. CASE /\ Refundable(p, amount)
           /\ Goto(r, "checked", [NoWork EXCEPT !.payment = p, !.amount = amount])
           /\ UNCHANGED rows
  <2>1. PICK w : w = [NoWork EXCEPT !.payment = p, !.amount = amount]
    OBVIOUS
  <2>2. p \in Creates /\ payments[p] \in PaymentRow
    BY RowTypes DEF SettlementInv
  <2>3. "checked" \in Places /\ w \in Work
    BY <2>1, <2>2, NoWorkType DEF Places, Work
  <2>4. w.payment = p /\ w.amount = amount
    BY <2>1 DEF NoWork
  <2>5. payments[p].paid > 0 /\ amount > 0
    <3>1. payments[p].paid \in 0..Total /\ payments[p].refunded \in Nat
      BY <2>2 DEF PaymentRow
    <3> QED
      BY <1>3, <3>1, TotalAssumption DEF Refundable
  <2>6. /\ pc'[r] = "checked" /\ work'[r] = w /\ TypeOK'
        /\ \A q \in Requests \ {r} : /\ pc'[q] = pc[q] /\ work'[q] = work[q]
                                     /\ answer'[q] = answer[q]
    BY <1>1, <1>3, <2>1, <2>3, GotoFacts
  <2> QED
    BY <1>1, <1>3, <2>4, <2>5, <2>6, LocalInv DEF CheckRefund
<1>4. CASE Fail(r, "4xx")
  <2>1. "4xx" \in Answers
    BY DEF Answers
  <2> QED
    BY <1>1, <1>4, <2>1, FailInv DEF CheckRefund
<1> QED
  BY <1>2, <1>3, <1>4

LEMMA InterruptInv ==
    ASSUME SettlementInv, contested \subseteq contested',
           NEW r \in Requests, Interrupt(r)
    PROVE  SettlementInv'
<1>1. "5xx" \in Answers
  BY DEF Answers
<1> QED
  BY <1>1, FailInv DEF Interrupt

----------------------------------------------------------------------------
\* A request that ends.
LEMMA FinishFacts ==
    ASSUME SettlementInv, NEW r \in Requests, NEW a \in Answers, Finish(r, a)
    PROVE  /\ pc'[r] = "done" /\ answer'[r] = a /\ work' = work
           /\ \A q \in Requests \ {r} : pc'[q] = pc[q] /\ answer'[q] = answer[q]
           /\ pc' \in [Requests -> Places] /\ answer' \in [Requests -> Answers]
           /\ work' \in [Requests -> Work]
BY DEF Finish, SettlementInv, TypeOK, Places

\* The highest number after a step.
LEMMA LastIsThen ==
    ASSUME TypeOK', AttemptsNumbered', NEW p, NEW a, a \in AttemptsOf(p)',
           \A b \in AttemptsOf(p)' : attempts'[a].number >= attempts'[b].number
    PROVE  LastAttempt(p)' = a
<1> DEFINE Highest(x) ==
        \A b \in AttemptsOf(p)' : attempts'[x].number >= attempts'[b].number
<1>1. \A b \in AttemptsOf(p)' : /\ b \in Inserted(attempts)'
                                /\ attempts'[b].payment = p
                                /\ attempts'[b].number \in Nat
  BY DEF AttemptsOf, AttemptRow, TypeOK, Inserted
<1>2. ASSUME NEW b \in AttemptsOf(p)', Highest(b) PROVE b = a
  <2>1. attempts'[b].number >= attempts'[a].number /\ attempts'[a].number >= attempts'[b].number
    BY <1>2
  <2>2. attempts'[b].number = attempts'[a].number
    BY <1>1, <2>1
  <2> QED
    BY <1>1, <2>2 DEF AttemptsNumbered
<1>3. a \in AttemptsOf(p)' /\ Highest(a)
  OBVIOUS
<1> QED
  BY <1>2, <1>3 DEF LastAttempt

\* The last attempt stays the last while the numbers stay.
LEMMA LastKept ==
    ASSUME TypeOK, AttemptsNumbered, RowsSound, TypeOK', AttemptsNumbered',
           NEW p \in Inserted(payments), AttemptsOf(p)' = AttemptsOf(p),
           \A a \in AttemptsOf(p) : attempts'[a].number = attempts[a].number
    PROVE  LastAttempt(p)' = LastAttempt(p)
<1>1. PICK last : last = LastAttempt(p)
  OBVIOUS
<1>2. /\ last \in AttemptsOf(p)
      /\ \A b \in AttemptsOf(p) : attempts[last].number >= attempts[b].number
  BY <1>1, LastFacts
<1>3. last \in AttemptsOf(p)'
  BY <1>2
<1>4. \A b \in AttemptsOf(p)' : attempts'[last].number >= attempts'[b].number
  BY <1>2
<1>5. LastAttempt(p)' = last
  BY <1>3, <1>4, LastIsThen
<1> QED
  BY <1>1, <1>5

\* A payment that is not written, and whose attempts are not, follows them still.
LEMMA FollowsKept ==
    ASSUME TypeOK, AttemptsNumbered, RowsSound, TypeOK', AttemptsNumbered',
           NEW p \in Inserted(payments), AttemptsOf(p)' = AttemptsOf(p),
           \A a \in AttemptsOf(p) : attempts'[a] = attempts[a],
           payments'[p] = payments[p], Follows(p, LastAttempt(p))
    PROVE  Follows(p, LastAttempt(p))'
<1>1. PICK last : last = LastAttempt(p)
  OBVIOUS
<1>2. LastAttempt(p)' = last
  BY <1>1, LastKept
<1>3. last \in AttemptsOf(p)
  BY <1>1, LastFacts
<1>4. Follows(p, last)'
  BY <1>1, <1>3 DEF Follows
<1> QED
  BY <1>2, <1>4 DEF Follows

\* No event is about a row that is not there.
LEMMA NotReported ==
    ASSUME TypeOK, RowsSound, NEW x \in Requests,
           x \notin Inserted(attempts), x \notin Inserted(refunds)
    PROVE  ProcessedFor(x) = {}
BY Sorts DEF RowsSound, ProcessedFor

\* The deliveries while none of them moves and no event is written.
LEMMA DeliveriesKept ==
    ASSUME SettlementInv, UNCHANGED events,
           \A d \in Deliveries : /\ pc'[d] = pc[d] /\ work'[d] = work[d]
                                 /\ answer'[d] = answer[d]
    PROVE  DeliveriesSound' /\ ReceivedIsCarried'
<1> USE DEF SettlementInv
<1>1. Inserted(events)' = Inserted(events)
  BY DEF Inserted
<1>2. DeliveriesSound'
  BY <1>1 DEF DeliveriesSound
<1>3. ReceivedIsCarried'
  BY <1>1 DEF ReceivedIsCarried
<1> QED
  BY <1>2, <1>3

LEMMA InsertRefundInv ==
    ASSUME SettlementInv, contested \subseteq contested',
           NEW r \in RefundRequests, InsertRefund(r)
    PROVE  SettlementInv'
<1> USE DEF SettlementInv
<1>1. r \in Requests /\ r \notin Retries /\ r \notin Deliveries /\ r \notin Attempts
  BY Sorts
<1>2. PICK row : row = [payment |-> work[r].payment, amount |-> work[r].amount,
                        status |-> "PENDING"]
  OBVIOUS
<1>3. /\ refunds' = [refunds EXCEPT ![r] = row] /\ Finish(r, "2xx")
      /\ UNCHANGED <<payments, attempts, events, paymentStatus>> /\ pc[r] = "checked"
  BY <1>2 DEF InsertRefund
<1>4. /\ work[r].payment \in Inserted(payments) /\ work[r].amount > 0
      /\ payments[work[r].payment].paid > 0 /\ work[r] \in Work
  BY <1>1, <1>3 DEF RequestsSound, TypeOK
<1>5. row \in RefundRow /\ row # None
  <2>1. work[r].payment \in Creates
    BY <1>4, RowTypes
  <2>2. work[r].amount \in 1..Total
    BY <1>4, TotalAssumption DEF Work
  <2>3. row \in RefundRow
    BY <1>2, <2>1, <2>2 DEF RefundRow
  <2> QED
    BY <2>3, NoneAssumption
<1>6. "2xx" \in Answers
  BY DEF Answers
<1>7. /\ pc'[r] = "done" /\ answer'[r] = "2xx" /\ work' = work
      /\ \A q \in Requests \ {r} : pc'[q] = pc[q] /\ answer'[q] = answer[q]
      /\ pc' \in [Requests -> Places] /\ answer' \in [Requests -> Answers]
      /\ work' \in [Requests -> Work]
  BY <1>1, <1>3, <1>6, FinishFacts
<1>8. TypeOK'
  BY <1>3, <1>5, <1>7 DEF TypeOK
<1>9. refunds[r] = None
  BY <1>3 DEF RequestsSound
<1>10. /\ Inserted(refunds)' = Inserted(refunds) \cup {r} /\ r \notin Inserted(refunds)
       /\ refunds'[r] = row
       /\ \A q \in Inserted(refunds) : refunds'[q] = refunds[q]
  BY <1>3, <1>5, <1>9 DEF Inserted, TypeOK
<1>11. Inserted(events)' = Inserted(events)
  BY <1>3 DEF Inserted
<1>12. /\ AttemptsNumbered' /\ StatusesFollow'
       /\ Inserted(payments)' = Inserted(payments)
       /\ Inserted(attempts)' = Inserted(attempts)
       /\ \A p : AttemptsOf(p)' = AttemptsOf(p) /\ Numbers(p)' = Numbers(p)
  BY <1>3, <1>11, AttemptsKept
<1>13. DeliveriesSound' /\ ReceivedIsCarried'
  BY <1>1, <1>3, <1>7, Sorts, DeliveriesKept
<1>14. RowsSound'
  <2>1. row.payment = work[r].payment
    BY <1>2
  <2>2. \A q \in Inserted(refunds)' : /\ refunds'[q].payment \in Inserted(payments)
                                      /\ payments[refunds'[q].payment].paid > 0
    BY <1>4, <1>10, <2>1 DEF RowsSound
  <2>3. \A p \in Inserted(payments) : \E k \in Numbers(p)' : Numbers(p)' = 1..k
    BY <1>12 DEF RowsSound
  <2>4. \A e \in Inserted(events) : events[e].ref # None =>
            events[e].ref \in Inserted(attempts) \cup Inserted(refunds)'
    BY <1>10 DEF RowsSound
  <2> QED
    BY <1>3, <1>11, <1>12, <2>2, <2>3, <2>4 DEF RowsSound
<1>15. \A x : ProcessedFor(x)' = ProcessedFor(x)
  BY <1>3, <1>11 DEF ProcessedFor
<1>16. SettledOnce'
  <2>1. ProcessedFor(r) = {}
    BY <1>1, <1>10, NotReported DEF TypeOK, Inserted
  <2>2. RefundSettledOnce'
    BY <1>2, <1>3, <1>10, <1>11, <1>15, <2>1
       DEF SettledOnce, RefundSettledOnce, SettledByOneEvent
  <2>3. AttemptSettledOnce => AttemptSettledOnce'
    BY <1>3, <1>11, <1>12, <1>15 DEF AttemptSettledOnce, SettledByOneEvent
  <2> QED
    BY <1>11, <2>2, <2>3 DEF SettledOnce
<1>17. RequestsSound'
  <2>1. \A q \in RefundRequests : refunds'[q] # None => pc'[q] = "done"
    BY <1>3, <1>7, Sorts DEF RequestsSound, TypeOK
  <2>2. \A q : Numbers(work[q].payment)' = Numbers(work[q].payment)
    BY <1>3, <1>7 DEF Numbers, AttemptsOf, Inserted
  <2> QED
    BY <1>1, <1>3, <1>7, <1>12, <2>1, <2>2, Sorts DEF RequestsSound
<1>18. RetriesSound'
  <2>1. \A q : AttemptsOf(work[q].payment)' = AttemptsOf(work[q].payment)
    BY <1>3, <1>7 DEF AttemptsOf, Inserted
  <2>2. \A q : Uncontested(work[q].payment)' => Uncontested(work[q].payment)
    BY <2>1 DEF Uncontested
  <2> QED
    BY <1>1, <1>3, <1>7, <2>1, <2>2, Sorts DEF RetriesSound
<1> QED
  BY <1>8, <1>12, <1>13, <1>14, <1>16, <1>17, <1>18

----------------------------------------------------------------------------
\* What an attempt of payment p with number n adds.
LEMMA AttemptInserted ==
    ASSUME SettlementInv, contested \subseteq contested', NEW r \in Attempts, attempts[r] = None, NEW p \in Creates,
           NEW n \in Nat \ {0}, UNCHANGED <<events, refunds>>,
           attempts' = [attempts EXCEPT ![r] =
               [payment |-> p, number |-> n, status |-> "INITIATED"]]
    PROVE  /\ attempts' \in [Attempts -> AttemptRow \cup {None}]
           /\ r \notin Inserted(attempts)
           /\ Inserted(attempts)' = Inserted(attempts) \cup {r}
           /\ \A a \in Inserted(attempts) : attempts'[a] = attempts[a]
           /\ attempts'[r].payment = p /\ attempts'[r].number = n
           /\ attempts'[r].status = "INITIATED"
           /\ AttemptsOf(p)' = AttemptsOf(p) \cup {r}
           /\ Numbers(p)' = Numbers(p) \cup {n}
           /\ \A q : q # p => AttemptsOf(q)' = AttemptsOf(q) /\ Numbers(q)' = Numbers(q)
           /\ \A q : Uncontested(q)' => Uncontested(q)
           /\ SettledOnce'
<1> USE DEF SettlementInv
<1>1. PICK row : row = [payment |-> p, number |-> n, status |-> "INITIATED"]
  OBVIOUS
<1>2. /\ row \in AttemptRow /\ row.payment = p /\ row.number = n
      /\ row.status = "INITIATED" /\ row # None
  <2>1. row \in AttemptRow
    BY <1>1 DEF AttemptRow
  <2> QED
    BY <1>1, <2>1, NoneAssumption
<1>3. attempts' = [attempts EXCEPT ![r] = row]
  BY <1>1
<1>4. attempts' \in [Attempts -> AttemptRow \cup {None}] /\ attempts'[r] = row
  BY <1>2, <1>3 DEF TypeOK
<1>5. /\ r \notin Inserted(attempts)
      /\ Inserted(attempts)' = Inserted(attempts) \cup {r}
      /\ \A a \in Inserted(attempts) : attempts'[a] = attempts[a]
  BY <1>2, <1>3 DEF Inserted, TypeOK
<1>6. \A q : AttemptsOf(q)' = {a \in Inserted(attempts) \cup {r} : attempts'[a].payment = q}
  BY <1>5 DEF AttemptsOf
<1>7. AttemptsOf(p)' = AttemptsOf(p) \cup {r}
  BY <1>2, <1>4, <1>5, <1>6 DEF AttemptsOf
<1>8. \A q : q # p => AttemptsOf(q)' = AttemptsOf(q)
  <2> SUFFICES ASSUME NEW q, q # p
               PROVE  {a \in Inserted(attempts) \cup {r} : attempts'[a].payment = q}
                         = {a \in Inserted(attempts) : attempts[a].payment = q}
    BY <1>6 DEF AttemptsOf
  <2>1. attempts'[r].payment # q
    BY <1>2, <1>4
  <2>2. \A a \in Inserted(attempts) : attempts'[a].payment = attempts[a].payment
    BY <1>5
  <2> HIDE DEF SettlementInv
  <2> QED
    BY <2>1, <2>2
<1>9. \A q : \A a \in AttemptsOf(q) : attempts'[a] = attempts[a]
  BY <1>5 DEF AttemptsOf
<1>10. Numbers(p)' = Numbers(p) \cup {n}
  BY <1>2, <1>4, <1>7, <1>9 DEF Numbers
<1>11. \A q : q # p => Numbers(q)' = Numbers(q)
  BY <1>8, <1>9 DEF Numbers
<1>12. /\ Inserted(events)' = Inserted(events) /\ Inserted(refunds)' = Inserted(refunds)
       /\ \A x : ProcessedFor(x)' = ProcessedFor(x)
  BY DEF Inserted, ProcessedFor
<1>13. RefundSettledOnce'
  BY <1>12 DEF SettledOnce, RefundSettledOnce, SettledByOneEvent
<1>14. ProcessedFor(r) = {}
  <2>1. r \notin Inserted(refunds) /\ r \in Requests
    BY Sorts, RowTypes
  <2> QED
    BY <1>5, <2>1, NotReported
<1>15. AttemptSettledOnce => AttemptSettledOnce'
  BY <1>2, <1>4, <1>5, <1>12, <1>14 DEF AttemptSettledOnce, SettledByOneEvent
<1>16. SettledOnce'
  BY <1>13, <1>15 DEF SettledOnce
<1>17. \A q : Uncontested(q)' => Uncontested(q)
  <2>1. \A q : AttemptsOf(q) \subseteq AttemptsOf(q)'
    BY <1>7, <1>8
  <2> QED
    BY <2>1 DEF Uncontested
<1> QED
  BY <1>2, <1>4, <1>5, <1>7, <1>8, <1>10, <1>11, <1>16, <1>17

LEMMA InsertPaymentInv ==
    ASSUME SettlementInv, contested \subseteq contested',
           NEW r \in Creates, InsertPayment(r)
    PROVE  SettlementInv'
<1> USE DEF SettlementInv
<1>1. r \in Requests /\ r \in Attempts /\ r \notin Retries /\ r \notin RefundRequests
      /\ r \notin Deliveries
  BY Sorts
<1>2. PICK row : row = [status |-> "PENDING", paid |-> 0, refunded |-> 0]
  OBVIOUS
<1>3. /\ payments' = [payments EXCEPT ![r] = row]
      /\ attempts' = [attempts EXCEPT ![r] =
                         [payment |-> r, number |-> 1, status |-> "INITIATED"]]
      /\ Finish(r, "2xx") /\ pc[r] = "checked"
      /\ UNCHANGED <<refunds, events, paymentStatus>>
  BY <1>2 DEF InsertPayment
<1>4. payments[r] = None /\ attempts[r] = None
  BY <1>1, <1>3 DEF RequestsSound
<1>5. "2xx" \in Answers
  BY DEF Answers
<1>6. /\ pc'[r] = "done" /\ answer'[r] = "2xx" /\ work' = work
      /\ \A q \in Requests \ {r} : pc'[q] = pc[q] /\ answer'[q] = answer[q]
      /\ pc' \in [Requests -> Places] /\ answer' \in [Requests -> Answers]
      /\ work' \in [Requests -> Work]
  BY <1>1, <1>3, <1>5, FinishFacts
<1>7. /\ attempts' \in [Attempts -> AttemptRow \cup {None}]
      /\ r \notin Inserted(attempts)
      /\ Inserted(attempts)' = Inserted(attempts) \cup {r}
      /\ \A a \in Inserted(attempts) : attempts'[a] = attempts[a]
      /\ attempts'[r].payment = r /\ attempts'[r].number = 1
      /\ attempts'[r].status = "INITIATED"
      /\ AttemptsOf(r)' = AttemptsOf(r) \cup {r}
      /\ Numbers(r)' = Numbers(r) \cup {1}
      /\ \A q : q # r => AttemptsOf(q)' = AttemptsOf(q) /\ Numbers(q)' = Numbers(q)
      /\ \A q : Uncontested(q)' => Uncontested(q)
      /\ SettledOnce'
  <2> HIDE DEF SettlementInv
  <2>1. 1 \in Nat \ {0} /\ UNCHANGED <<events, refunds>>
    BY <1>3
  <2> QED
    BY <1>1, <1>3, <1>4, <2>1, AttemptInserted
<1>8. row \in PaymentRow /\ row # None /\ row.status = "PENDING" /\ row.paid = 0
  <2>1. row \in PaymentRow
    BY <1>2, TotalAssumption DEF PaymentRow, PaymentStatuses
  <2> QED
    BY <1>2, <2>1, NoneAssumption
<1>9. /\ payments' \in [Creates -> PaymentRow \cup {None}] /\ payments'[r] = row
      /\ Inserted(payments)' = Inserted(payments) \cup {r} /\ r \notin Inserted(payments)
      /\ \A p \in Inserted(payments) : payments'[p] = payments[p]
  BY <1>3, <1>4, <1>8 DEF TypeOK, Inserted
<1>10. TypeOK'
  BY <1>3, <1>6, <1>7, <1>9 DEF TypeOK
<1>11. AttemptsOf(r) = {} /\ Numbers(r) = {}
  <2>1. AttemptsOf(r) = {}
    BY <1>9 DEF AttemptsOf, RowsSound
  <2> QED
    BY <2>1 DEF Numbers
<1>12. AttemptsNumbered'
  <2>1. \A p \in Inserted(payments)' : \A n \in Numbers(p)' : n = 1 \/ n - 1 \in Numbers(p)'
    BY <1>7, <1>9, <1>11 DEF AttemptsNumbered
  <2>2. \A a \in Inserted(attempts) : attempts[a].payment # r
    BY <1>11 DEF AttemptsOf
  <2>3. \A a, b \in Inserted(attempts)' :
          /\ attempts'[a].payment = attempts'[b].payment
          /\ attempts'[a].number = attempts'[b].number
          => a = b
    BY <1>7, <2>2 DEF AttemptsNumbered
  <2> QED
    BY <2>1, <2>3 DEF AttemptsNumbered
<1>13. DeliveriesSound' /\ ReceivedIsCarried'
  BY <1>1, <1>3, <1>6, Sorts, DeliveriesKept
<1>14. Inserted(events)' = Inserted(events) /\ Inserted(refunds)' = Inserted(refunds)
  BY <1>3 DEF Inserted
<1>15. RowsSound'
  <2>1. \A a \in Inserted(attempts)' : attempts'[a].payment \in Inserted(payments)'
    BY <1>7, <1>9 DEF RowsSound
  <2>2. \A q \in Inserted(refunds) : /\ refunds[q].payment \in Inserted(payments)'
                                     /\ payments'[refunds[q].payment].paid > 0
    BY <1>9 DEF RowsSound
  <2>3. \A e \in Inserted(events) : events[e].ref # None =>
            events[e].ref \in Inserted(attempts)' \cup Inserted(refunds)
    BY <1>7 DEF RowsSound
  <2>4. \A p \in Inserted(payments)' : \E k \in Numbers(p)' : Numbers(p)' = 1..k
    <3>1. {1} = 1..1
      OBVIOUS
    <3>2. \E k \in Numbers(r)' : Numbers(r)' = 1..k
      BY <1>7, <1>11, <3>1
    <3>3. \A p \in Inserted(payments) : p # r
      BY <1>9
    <3> QED
      BY <1>7, <1>9, <3>2, <3>3 DEF RowsSound
  <2> QED
    BY <1>3, <1>9, <1>14, <2>1, <2>2, <2>3, <2>4 DEF RowsSound
<1>16. RequestsSound'
  <2>1. /\ \A c \in Creates : payments'[c] # None => pc'[c] = "done"
        /\ \A a \in Attempts : attempts'[a] # None => pc'[a] = "done"
    BY <1>3, <1>6, Sorts DEF RequestsSound, TypeOK
  <2>2. \A q : work'[q] = work[q]
    BY <1>6
  <2>3. ASSUME NEW q \in Retries
        PROVE  /\ pc'[q] \in {"checked", "numbered"} =>
                      work'[q].payment \in Inserted(payments)'
               /\ pc'[q] = "numbered" =>
                      work'[q].number - 1 \in Numbers(work[q].payment)'
    <3>1. pc'[q] = pc[q]
      BY <1>1, <1>6, Sorts
    <3>2. PICK p : p = work[q].payment
      OBVIOUS
    <3>3. Numbers(work[q].payment)' = Numbers(p)'
      BY <2>2, <3>2 DEF Numbers, AttemptsOf
    <3>4. pc[q] = "numbered" => Numbers(p)' = Numbers(p)
      BY <1>7, <1>9, <3>2 DEF RequestsSound
    <3> QED
      BY <1>9, <2>2, <3>1, <3>2, <3>3, <3>4 DEF RequestsSound
  <2>5. \A q \in RefundRequests : pc'[q] = "checked" =>
          /\ work'[q].payment \in Inserted(payments)' /\ work'[q].amount > 0
          /\ payments'[work'[q].payment].paid > 0
    <3>1. \A q \in RefundRequests : pc'[q] = pc[q]
      BY <1>1, <1>6, Sorts
    <3> QED
      BY <1>9, <2>2, <3>1 DEF RequestsSound
  <2> QED
    BY <1>1, <1>3, <1>6, <2>1, <2>2, <2>3, <2>5, Sorts DEF RequestsSound
<1>17. RetriesSound'
  <2> SUFFICES ASSUME NEW q \in Retries, pc'[q] = "numbered",
                      Uncontested(work[q].payment)',
                      NEW a \in AttemptsOf(work[q].payment)',
                      attempts'[a].number < work'[q].number
               PROVE  attempts'[a].status = "FAILED"
    BY DEF RetriesSound
  <2>1. pc[q] = "numbered" /\ work'[q] = work[q]
    BY <1>1, <1>6, Sorts
  <2>3. Uncontested(work[q].payment)
    <3>1. PICK p : p = work[q].payment
      OBVIOUS
    <3>2. Uncontested(p)'
      BY <1>6, <3>1 DEF Uncontested, AttemptsOf
    <3> QED
      BY <1>7, <3>1, <3>2
  <2>2. work[q].payment \in Inserted(payments)
    BY <2>1 DEF RequestsSound
  <2>4. a \in AttemptsOf(work[q].payment) /\ attempts'[a] = attempts[a]
    <3>1. PICK p : p = work[q].payment
      OBVIOUS
    <3>2. p # r
      BY <1>9, <2>2, <3>1
    <3>3. AttemptsOf(p)' = AttemptsOf(work[q].payment)'
      BY <1>6, <3>1 DEF AttemptsOf
    <3> QED
      BY <1>7, <3>1, <3>2, <3>3 DEF AttemptsOf
  <2> QED
    BY <2>1, <2>3, <2>4 DEF RetriesSound
<1>18. StatusesFollow'
  <2>1. ASSUME NEW p \in Inserted(payments), Uncontested(p)'
        PROVE  Follows(p, LastAttempt(p))'
    <3>1. Follows(p, LastAttempt(p)) /\ p # r
      BY <1>7, <1>9, <2>1 DEF StatusesFollow
    <3>2. \A a \in AttemptsOf(p) : attempts'[a] = attempts[a]
      BY <1>7 DEF AttemptsOf
    <3> QED
      BY <1>7, <1>9, <1>10, <1>12, <3>1, <3>2, FollowsKept
  <2>2. Follows(r, LastAttempt(r))'
    <3>1. AttemptsOf(r)' = {r}
      BY <1>7, <1>11
    <3>2. attempts'[r].number >= attempts'[r].number
      BY <1>7
    <3>3. LastAttempt(r)' = r
      BY <1>10, <1>12, <3>1, <3>2, LastIsThen
    <3>4. Follows(r, r)'
      BY <1>7, <1>8, <1>9, <3>1 DEF Follows
    <3> QED
      BY <3>3, <3>4 DEF Follows
  <2>3. ASSUME NEW p \in Inserted(payments)' PROVE OrderFollows(p)'
    <3>1. ASSUME Inserted(payments)' = {p}
          PROVE  paymentStatus' = payments'[p].status
      <4>1. p = r /\ Inserted(payments) = {}
        BY <1>9, <3>1
      <4> QED
        BY <1>3, <1>8, <1>9, <4>1 DEF RowsSound
    <3> QED
      BY <3>1 DEF OrderFollows
  <2> QED
    BY <1>9, <2>1, <2>2, <2>3 DEF StatusesFollow
<1> QED
  BY <1>7, <1>10, <1>12, <1>13, <1>15, <1>16, <1>17, <1>18

LEMMA InsertAttemptInv ==
    ASSUME SettlementInv, contested \subseteq contested',
           NEW r \in Retries, InsertAttempt(r)
    PROVE  SettlementInv'
<1>1. r \in Requests /\ r \in Attempts /\ r \notin Creates /\ r \notin RefundRequests
      /\ r \notin Deliveries
  BY Sorts
<1>2. PICK p : p = work[r].payment
  OBVIOUS
<1>3. PICK n : n = work[r].number
  OBVIOUS
<1>4. CASE NumberTaken(p, n)
  <2>1. "4xx" \in Answers
    BY DEF Answers
  <2> QED
    BY <1>1, <1>2, <1>3, <1>4, <2>1, FailInv DEF InsertAttempt
<1>5. CASE ~NumberTaken(p, n)
  <2>1. /\ attempts' = [attempts EXCEPT ![r] =
                           [payment |-> p, number |-> n, status |-> "INITIATED"]]
        /\ payments' = [payments EXCEPT ![p].status = "PENDING"]
        /\ Finish(r, "2xx") /\ pc[r] = "numbered"
        /\ UNCHANGED <<refunds, events, paymentStatus>>
    BY <1>2, <1>3, <1>5 DEF InsertAttempt
  <2>2. "2xx" \in Answers
    BY DEF Answers
  <2>3. /\ pc'[r] = "done" /\ answer'[r] = "2xx" /\ work' = work
        /\ \A q \in Requests \ {r} : pc'[q] = pc[q] /\ answer'[q] = answer[q]
        /\ pc' \in [Requests -> Places] /\ answer' \in [Requests -> Answers]
        /\ work' \in [Requests -> Work]
    BY <1>1, <2>1, <2>2, FinishFacts
  <2>4. /\ p \in Inserted(payments) /\ n - 1 \in Numbers(p) /\ attempts[r] = None
        /\ work[r] \in Work
    BY <1>1, <1>2, <1>3, <2>1 DEF SettlementInv, RequestsSound, TypeOK
  <2>5. p \in Creates /\ payments[p] \in PaymentRow
    BY <2>4, RowTypes DEF SettlementInv
  <2>6. PICK last : last = LastAttempt(p)
    OBVIOUS
  <2>7. /\ last \in AttemptsOf(p) /\ attempts[last].number = n - 1 /\ n \in Nat \ {0}
        /\ Numbers(p) = 1..(n - 1)
        /\ \A b \in AttemptsOf(p) : attempts[b].number \in 1..(n - 1)
    <3>1. PICK k : k = attempts[last].number
      OBVIOUS
    <3>2. last \in AttemptsOf(p) /\ Numbers(p) = 1..k /\ k \in Nat \ {0}
      BY <2>4, <2>6, <3>1, LastFacts DEF SettlementInv
    <3>3. n \notin Numbers(p)
      BY <1>5 DEF NumberTaken, Numbers
    <3>4. n \in Nat
      BY <1>3, <2>4 DEF Work
    <3>5. k = n - 1 /\ n \in Nat \ {0}
      BY <2>4, <3>2, <3>3, <3>4
    <3>6. \A b \in AttemptsOf(p) : attempts[b].number \in Numbers(p)
      BY DEF Numbers
    <3> QED
      BY <3>1, <3>2, <3>5, <3>6
  <2>8. /\ attempts' \in [Attempts -> AttemptRow \cup {None}]
        /\ r \notin Inserted(attempts)
        /\ Inserted(attempts)' = Inserted(attempts) \cup {r}
        /\ \A a \in Inserted(attempts) : attempts'[a] = attempts[a]
        /\ attempts'[r].payment = p /\ attempts'[r].number = n
        /\ attempts'[r].status = "INITIATED"
        /\ AttemptsOf(p)' = AttemptsOf(p) \cup {r}
        /\ Numbers(p)' = Numbers(p) \cup {n}
        /\ \A q : q # p => AttemptsOf(q)' = AttemptsOf(q) /\ Numbers(q)' = Numbers(q)
        /\ \A q : Uncontested(q)' => Uncontested(q)
        /\ SettledOnce'
    <3>1. UNCHANGED <<events, refunds>>
      BY <2>1
    <3> QED
      BY <1>1, <2>1, <2>4, <2>5, <2>7, <3>1, AttemptInserted
  <2> USE DEF SettlementInv
  <2>9. PICK row : row = [payments[p] EXCEPT !.status = "PENDING"]
    OBVIOUS
  <2>10. /\ row \in PaymentRow /\ row # None /\ row.status = "PENDING"
         /\ row.paid = payments[p].paid
    <3>1. row \in PaymentRow /\ row.status = "PENDING" /\ row.paid = payments[p].paid
      BY <2>5, <2>9 DEF PaymentRow, PaymentStatuses
    <3> QED
      BY <3>1, NoneAssumption
  <2>11. payments' = [payments EXCEPT ![p] = row]
    BY <2>1, <2>9
  <2>12. /\ payments' \in [Creates -> PaymentRow \cup {None}] /\ payments'[p] = row
         /\ Inserted(payments)' = Inserted(payments)
         /\ \A q \in Inserted(payments) \ {p} : payments'[q] = payments[q]
         /\ \A q \in Inserted(payments) : payments'[q].paid = payments[q].paid
    BY <2>4, <2>5, <2>10, <2>11 DEF TypeOK, Inserted
  <2>13. TypeOK'
    BY <2>1, <2>3, <2>8, <2>12 DEF TypeOK
  <2>14. AttemptsNumbered'
    <3>1. \A q \in Inserted(payments)' : \A m \in Numbers(q)' : m = 1 \/ m - 1 \in Numbers(q)'
      BY <2>4, <2>8, <2>12 DEF AttemptsNumbered
    <3>2. \A a \in Inserted(attempts) : attempts[a].payment = p => attempts[a].number # n
      BY <1>5 DEF AttemptsOf, NumberTaken
    <3>3. \A a, b \in Inserted(attempts)' :
            /\ attempts'[a].payment = attempts'[b].payment
            /\ attempts'[a].number = attempts'[b].number
            => a = b
      BY <2>8, <3>2 DEF AttemptsNumbered
    <3> QED
      BY <3>1, <3>3 DEF AttemptsNumbered
  <2>15. DeliveriesSound' /\ ReceivedIsCarried'
    BY <1>1, <2>1, <2>3, Sorts, DeliveriesKept
  <2>16. Inserted(events)' = Inserted(events) /\ Inserted(refunds)' = Inserted(refunds)
    BY <2>1 DEF Inserted
  <2>17. RowsSound'
    <3>1. \A a \in Inserted(attempts)' : attempts'[a].payment \in Inserted(payments)'
      BY <2>4, <2>8, <2>12 DEF RowsSound
    <3>2. \A q \in Inserted(refunds) : /\ refunds[q].payment \in Inserted(payments)'
                                       /\ payments'[refunds[q].payment].paid > 0
      BY <2>12 DEF RowsSound
    <3>3. \A e \in Inserted(events) : events[e].ref # None =>
              events[e].ref \in Inserted(attempts)' \cup Inserted(refunds)
      BY <2>8 DEF RowsSound
    <3>4. \E k \in Numbers(p)' : Numbers(p)' = 1..k
      <4>1. 1..(n - 1) \cup {n} = 1..n
        BY <2>7
      <4> QED
        BY <2>7, <2>8, <4>1
    <3>5. \A q \in Inserted(payments)' : \E k \in Numbers(q)' : Numbers(q)' = 1..k
      BY <2>8, <2>12, <3>4 DEF RowsSound
    <3> QED
      BY <2>1, <2>12, <2>16, <3>1, <3>2, <3>3, <3>5 DEF RowsSound
  <2>18. RequestsSound'
    <3>1. /\ \A c \in Creates : payments'[c] # None => pc'[c] = "done"
          /\ \A a \in Attempts : attempts'[a] # None => pc'[a] = "done"
      BY <1>1, <2>1, <2>3, <2>4, <2>12, Sorts DEF RequestsSound, TypeOK, Inserted
    <3>2. \A q : work'[q] = work[q]
      BY <2>3
    <3>3. ASSUME NEW q \in Retries
          PROVE  /\ pc'[q] \in {"checked", "numbered"} =>
                        work'[q].payment \in Inserted(payments)'
                 /\ pc'[q] = "numbered" =>
                        work'[q].number - 1 \in Numbers(work[q].payment)'
      <4>1. pc'[q] \in {"checked", "numbered"} => pc'[q] = pc[q]
        BY <1>1, <2>3, Sorts
      <4>2. PICK o : o = work[q].payment
        OBVIOUS
      <4>3. Numbers(work[q].payment)' = Numbers(o)'
        BY <3>2, <4>2 DEF Numbers, AttemptsOf
      <4>4. Numbers(o) \subseteq Numbers(o)'
        BY <2>8
      <4> QED
        BY <2>12, <3>2, <4>1, <4>2, <4>3, <4>4 DEF RequestsSound
    <3>4. \A q \in RefundRequests : pc'[q] = "checked" =>
            /\ work'[q].payment \in Inserted(payments)' /\ work'[q].amount > 0
            /\ payments'[work'[q].payment].paid > 0
      <4>1. \A q \in RefundRequests : pc'[q] = pc[q]
        BY <1>1, <2>3, Sorts
      <4> QED
        BY <2>12, <3>2, <4>1 DEF RequestsSound
    <3> QED
      BY <1>1, <2>1, <2>3, <3>1, <3>2, <3>3, <3>4, Sorts DEF RequestsSound
  <2>19. RetriesSound'
    <3> SUFFICES ASSUME NEW q \in Retries, pc'[q] = "numbered",
                        Uncontested(work[q].payment)',
                        NEW a \in AttemptsOf(work[q].payment)',
                        attempts'[a].number < work'[q].number
                 PROVE  attempts'[a].status = "FAILED"
      BY DEF RetriesSound
    <3>1. pc[q] = "numbered" /\ work'[q] = work[q]
      BY <1>1, <2>3, Sorts
    <3>2. PICK o : o = work[q].payment
      OBVIOUS
    <3>3. a \in AttemptsOf(o)'
      BY <2>3, <3>2 DEF AttemptsOf
    <3>4. CASE a = r
      <4>1. o = p
        BY <2>8, <3>3, <3>4 DEF AttemptsOf
      <4>2. work[q].number - 1 \in 1..(n - 1) /\ work[q].number \in Nat
        BY <1>1, <2>7, <3>1, <3>2, <4>1, Sorts DEF RequestsSound, TypeOK, Work
      <4> QED
        BY <2>7, <2>8, <3>1, <3>4, <4>2
    <3>5. CASE a # r
      <4>1. a \in AttemptsOf(o) /\ attempts'[a] = attempts[a]
        BY <2>8, <3>3, <3>5 DEF AttemptsOf
      <4>2. Uncontested(o)'
        BY <2>3, <3>2 DEF Uncontested, AttemptsOf
      <4>3. Uncontested(o)
        BY <2>8, <4>2
      <4> QED
        BY <3>1, <3>2, <4>1, <4>3 DEF RetriesSound
    <3> QED
      BY <3>4, <3>5
  <2>20. StatusesFollow'
    <3>1. Uncontested(p) => \A a \in AttemptsOf(p) : attempts[a].status = "FAILED"
      <4>1. \A a \in AttemptsOf(p) : attempts[a].number < n
        BY <2>7
      <4> QED
        BY <1>2, <1>3, <2>1, <4>1 DEF RetriesSound
    <3>2. Uncontested(p) => payments[p].status = "FAILED" /\ payments[p].paid = 0
      BY <2>4, <2>6, <2>7, <3>1 DEF StatusesFollow, Follows
    <3>3. ASSUME NEW q \in Inserted(payments), q # p, Uncontested(q)'
          PROVE  Follows(q, LastAttempt(q))'
      <4>1. Follows(q, LastAttempt(q))
        BY <2>8, <3>3 DEF StatusesFollow
      <4>2. \A a \in AttemptsOf(q) : attempts'[a] = attempts[a]
        BY <2>8 DEF AttemptsOf
      <4> QED
        BY <2>8, <2>12, <2>13, <2>14, <3>3, <4>1, <4>2, FollowsKept
    <3>4. ASSUME Uncontested(p)' PROVE Follows(p, LastAttempt(p))'
      <4>6. Uncontested(p)
        BY <2>8, <3>4
      <4>1. r \in AttemptsOf(p)'
        BY <2>8
      <4>2. \A b \in AttemptsOf(p)' : attempts'[r].number >= attempts'[b].number
        <5>1. \A b \in AttemptsOf(p) : attempts'[b] = attempts[b]
          BY <2>8 DEF AttemptsOf
        <5> QED
          BY <2>7, <2>8, <5>1
      <4>3. LastAttempt(p)' = r
        BY <2>13, <2>14, <4>1, <4>2, LastIsThen
      <4>4. \A a \in AttemptsOf(p)' \ {r} : attempts'[a].status = "FAILED"
        BY <2>8, <3>1, <4>6 DEF AttemptsOf
      <4>5. Follows(p, r)'
        BY <2>8, <2>10, <2>12, <3>2, <4>4, <4>6 DEF Follows
      <4> QED
        BY <4>3, <4>5 DEF Follows
    <3>5. ASSUME NEW q \in Inserted(payments)', Uncontested(q)'
          PROVE  OrderFollows(q)'
      <4>1. ASSUME Inserted(payments)' = {q}
            PROVE  payments'[q].status = "PENDING" /\ paymentStatus' = "FAILED"
        <5>1. q = p /\ Inserted(payments) = {p} /\ Uncontested(p)
          BY <2>4, <2>8, <2>12, <3>5, <4>1
        <5>2. paymentStatus = "FAILED"
          BY <2>4, <3>2, <5>1 DEF StatusesFollow, OrderFollows
        <5> QED
          BY <2>1, <2>10, <2>12, <5>1, <5>2
      <4> QED
        BY <4>1 DEF OrderFollows
    <3> QED
      BY <2>12, <3>3, <3>4, <3>5 DEF StatusesFollow
  <2> QED
    BY <2>8, <2>13, <2>14, <2>15, <2>17, <2>18, <2>19, <2>20
<1> QED
  BY <1>4, <1>5

----------------------------------------------------------------------------
\* What a delivery leaves true: it inserts no payment, attempt or refund.
LEMMA DeliveryKeeps ==
    ASSUME SettlementInv, TypeOK', NEW d \in Deliveries, pc'[d] # "new",
           \A q \in Requests \ {d} : pc'[q] = pc[q] /\ work'[q] = work[q],
           Inserted(payments)' = Inserted(payments),
           Inserted(attempts)' = Inserted(attempts),
           Inserted(refunds)' = Inserted(refunds),
           \A a \in Inserted(attempts) : /\ attempts'[a].payment = attempts[a].payment
                                         /\ attempts'[a].number = attempts[a].number,
           \A r \in Inserted(refunds) : refunds'[r].payment = refunds[r].payment,
           \A p \in Inserted(payments) : payments[p].paid > 0 => payments'[p].paid > 0,
           \A e \in Inserted(events)' : events'[e].ref # None =>
               events'[e].ref \in Inserted(attempts) \cup Inserted(refunds),
           Inserted(payments) = {} => UNCHANGED paymentStatus,
           contested \subseteq contested',
           \A a \in Inserted(attempts) \ contested :
               attempts[a].status = "FAILED" => attempts'[a].status = "FAILED"
    PROVE  /\ RequestsSound' /\ RetriesSound' /\ RowsSound' /\ AttemptsNumbered'
           /\ \A p : AttemptsOf(p)' = AttemptsOf(p) /\ Numbers(p)' = Numbers(p)
<1> USE DEF SettlementInv
<1>1. \A p : AttemptsOf(p)' = AttemptsOf(p)
  BY DEF AttemptsOf
<1>2. \A p : \A a \in AttemptsOf(p) : attempts'[a].number = attempts[a].number
  BY DEF AttemptsOf
<1>3. \A p : Numbers(p)' = Numbers(p)
  BY <1>1, <1>2 DEF Numbers
<1>4. AttemptsNumbered'
  BY <1>3 DEF AttemptsNumbered
<1>5. \A q \in Attempts \cup RefundRequests : pc'[q] = pc[q] /\ work'[q] = work[q]
  BY Sorts
<1>6. RequestsSound'
  <2>1. \A r \in Requests : pc'[r] = "new" => work'[r] = NoWork
    BY DEF RequestsSound
  <2>2. /\ \A c \in Creates : payments'[c] # None => pc'[c] = "done"
        /\ \A a \in Attempts : attempts'[a] # None => pc'[a] = "done"
        /\ \A r \in RefundRequests : refunds'[r] # None => pc'[r] = "done"
    <3>1. /\ \A c \in Creates : payments'[c] # None => payments[c] # None
          /\ \A a \in Attempts : attempts'[a] # None => attempts[a] # None
          /\ \A r \in RefundRequests : refunds'[r] # None => refunds[r] # None
      BY DEF TypeOK, Inserted
    <3> QED
      BY <1>5, <3>1, Sorts DEF RequestsSound
  <2>3. ASSUME NEW q \in Retries
        PROVE  /\ pc'[q] \in {"checked", "numbered"} =>
                      work'[q].payment \in Inserted(payments)
               /\ pc'[q] = "numbered" =>
                      work'[q].number - 1 \in Numbers(work[q].payment)'
    <3>1. PICK o : o = work[q].payment
      OBVIOUS
    <3>2. pc'[q] = pc[q] /\ work'[q] = work[q]
      BY <1>5, Sorts
    <3>3. Numbers(work[q].payment)' = Numbers(o)'
      BY <3>1, <3>2 DEF Numbers, AttemptsOf
    <3> QED
      BY <1>3, <3>1, <3>2, <3>3 DEF RequestsSound
  <2>4. \A r \in RefundRequests : pc'[r] = "checked" =>
          /\ work'[r].payment \in Inserted(payments) /\ work'[r].amount > 0
          /\ payments'[work'[r].payment].paid > 0
    BY <1>5 DEF RequestsSound
  <2> QED
    BY <2>1, <2>2, <2>3, <2>4 DEF RequestsSound
<1>7. RetriesSound'
  <2> SUFFICES ASSUME NEW q \in Retries, pc'[q] = "numbered",
                      Uncontested(work[q].payment)',
                      NEW a \in AttemptsOf(work[q].payment)',
                      attempts'[a].number < work'[q].number
               PROVE  attempts'[a].status = "FAILED"
    BY DEF RetriesSound
  <2>1. pc[q] = "numbered" /\ work'[q] = work[q]
    BY <1>5, Sorts
  <2>2. PICK o : o = work[q].payment
    OBVIOUS
  <2>3. a \in AttemptsOf(o)'
    BY <2>1, <2>2 DEF AttemptsOf
  <2>4. a \in AttemptsOf(o) /\ a \in Inserted(attempts)
    BY <1>1, <2>3 DEF AttemptsOf
  <2>5. Uncontested(o)'
    BY <2>1, <2>2 DEF Uncontested, AttemptsOf
  <2>6. Uncontested(o) /\ a \notin contested
    BY <1>1, <2>4, <2>5 DEF Uncontested
  <2> QED
    BY <2>1, <2>2, <2>4, <2>6 DEF RetriesSound
<1>8. RowsSound'
  <2>1. \A a \in Inserted(attempts) : attempts'[a].payment \in Inserted(payments)
    BY DEF RowsSound
  <2>2. \A r \in Inserted(refunds) : /\ refunds'[r].payment \in Inserted(payments)
                                     /\ payments'[refunds'[r].payment].paid > 0
    BY DEF RowsSound
  <2>3. \A p \in Inserted(payments) : \E k \in Numbers(p)' : Numbers(p)' = 1..k
    BY <1>3 DEF RowsSound
  <2>4. Inserted(payments) = {} => paymentStatus' = "PENDING"
    BY DEF RowsSound
  <2> QED
    BY <2>1, <2>2, <2>3, <2>4 DEF RowsSound
<1> QED
  BY <1>1, <1>3, <1>4, <1>6, <1>7, <1>8

\* What happens to the events when a delivery marks its own and ends.
LEMMA MarkFacts ==
    ASSUME SettlementInv, NEW d \in Deliveries, NEW a \in Answers, NEW e,
           pc[d] \in {"received", "open", "duplicate"}, e = work[d].event,
           NEW s \in {"PROCESSED", "IGNORED", "FAILED"}, Mark(e, s), Finish(d, a)
    PROVE  /\ e \in Inserted(events) /\ events[e].status = "RECEIVED"
           /\ events' \in [Events -> EventRow \cup {None}]
           /\ Inserted(events)' = Inserted(events)
           /\ \A f \in Inserted(events) : /\ events'[f].ref = events[f].ref
                                          /\ events'[f].type = events[f].type
           /\ DeliveriesSound' /\ ReceivedIsCarried'
           /\ \A x : s # "PROCESSED" \/ x # events[e].ref =>
                 ProcessedFor(x)' = ProcessedFor(x)
           /\ s = "PROCESSED" => ProcessedFor(events[e].ref)' =
                                     ProcessedFor(events[e].ref) \cup {e}
<1>1. /\ pc'[d] = "done" /\ answer'[d] = a /\ work' = work
      /\ \A q \in Requests \ {d} : pc'[q] = pc[q] /\ answer'[q] = answer[q]
  BY Sorts, FinishFacts
<1> USE DEF SettlementInv
<1>2. e \in Inserted(events) /\ events[e].status = "RECEIVED" /\ e # None
  BY DEF DeliveriesSound
<1>3. e \in Events /\ events[e] \in EventRow
  BY <1>2, RowTypes
<1>4. PICK row : row = [events[e] EXCEPT !.status = s]
  OBVIOUS
<1>5. /\ row \in EventRow /\ row.status = s /\ row.ref = events[e].ref
      /\ row.type = events[e].type /\ row # None
  <2>1. /\ row \in EventRow /\ row.status = s /\ row.ref = events[e].ref
        /\ row.type = events[e].type
    BY <1>3, <1>4 DEF EventRow
  <2> QED
    BY <2>1, EventNoneAssumption
<1>6. events' = [events EXCEPT ![e] = row]
  BY <1>4 DEF Mark
<1>7. /\ events' \in [Events -> EventRow \cup {None}]
      /\ Inserted(events)' = Inserted(events) /\ events'[e] = row
      /\ \A f \in Inserted(events) \ {e} : events'[f] = events[f]
  BY <1>2, <1>3, <1>5, <1>6 DEF TypeOK, Inserted
<1>8. \A f \in Inserted(events) : /\ events'[f].ref = events[f].ref
                                  /\ events'[f].type = events[f].type
  BY <1>5, <1>7
<1>10. \A x : s # "PROCESSED" \/ x # events[e].ref => ProcessedFor(x)' = ProcessedFor(x)
  BY <1>2, <1>5, <1>7, <1>8 DEF ProcessedFor
<1>11. s = "PROCESSED" => ProcessedFor(events[e].ref)' = ProcessedFor(events[e].ref) \cup {e}
  BY <1>2, <1>5, <1>7, <1>8 DEF ProcessedFor
<1>12. DeliveriesSound'
  <2>1. ASSUME NEW c \in Deliveries
        PROVE  /\ work[c].event # None => work[c].event \in Inserted(events)
               /\ pc'[c] \in {"received", "open", "duplicate"} =>
                     /\ work[c].event # None
                     /\ events'[work[c].event].status = "RECEIVED"
               /\ pc'[c] = "open" => events'[work[c].event].ref # None
    <3>1. CASE c = d
      BY <1>1, <3>1 DEF DeliveriesSound
    <3>2. CASE c # d
      <4>1. pc'[c] = pc[c]
        BY <1>1, <3>2, Sorts
      <4>2. work[c].event # None => work[c].event # e
        BY <3>2 DEF DeliveriesSound
      <4> QED
        BY <1>7, <4>1, <4>2 DEF DeliveriesSound
    <3> QED
      BY <3>1, <3>2
  <2> QED
    BY <1>1, <1>7, <2>1 DEF DeliveriesSound
<1>13. ReceivedIsCarried'
  <2> SUFFICES ASSUME NEW f \in Inserted(events), events'[f].status = "RECEIVED"
               PROVE  \E c \in Deliveries :
                         /\ work[c].event = f
                         /\ pc'[c] # "done" \/ answer'[c] = "5xx"
                         /\ \A b \in Deliveries \ {c} : work[b].event # f
    BY <1>1, <1>7 DEF ReceivedIsCarried
  <2>1. f # e /\ events[f].status = "RECEIVED"
    BY <1>5, <1>7
  <2>2. PICK c \in Deliveries :
            /\ work[c].event = f
            /\ pc[c] # "done" \/ answer[c] = "5xx"
            /\ \A b \in Deliveries \ {c} : work[b].event # f
    BY <2>1 DEF ReceivedIsCarried
  <2>3. pc'[c] = pc[c] /\ answer'[c] = answer[c]
    BY <1>1, <2>1, <2>2, Sorts
  <2> QED
    BY <2>2, <2>3
<1> QED
  BY <1>2, <1>7, <1>8, <1>10, <1>11, <1>12, <1>13

\* An event that is not processed.
LEMMA SetAside ==
    ASSUME SettlementInv, contested \subseteq contested',
           NEW d \in Deliveries, NEW a \in Answers,
           pc[d] \in {"received", "open", "duplicate"},
           NEW s \in {"IGNORED", "FAILED"}, Mark(work[d].event, s), Finish(d, a),
           UNCHANGED <<payments, attempts, refunds, paymentStatus>>
    PROVE  SettlementInv'
<1>1. /\ pc'[d] = "done" /\ work' = work
      /\ \A q \in Requests \ {d} : pc'[q] = pc[q] /\ work'[q] = work[q]
      /\ pc' \in [Requests -> Places] /\ answer' \in [Requests -> Answers]
      /\ work' \in [Requests -> Work]
  BY Sorts, FinishFacts
<1>2. PICK e : e = work[d].event
  OBVIOUS
<1>3. /\ events' \in [Events -> EventRow \cup {None}]
      /\ Inserted(events)' = Inserted(events)
      /\ \A f \in Inserted(events) : /\ events'[f].ref = events[f].ref
                                     /\ events'[f].type = events[f].type
      /\ DeliveriesSound' /\ ReceivedIsCarried'
      /\ \A x : ProcessedFor(x)' = ProcessedFor(x)
  BY <1>2, MarkFacts
<1>4. TypeOK'
  BY <1>1, <1>3 DEF TypeOK, SettlementInv
<1>5. /\ Inserted(payments)' = Inserted(payments)
      /\ Inserted(attempts)' = Inserted(attempts)
      /\ Inserted(refunds)' = Inserted(refunds)
  BY DEF Inserted
<1>6. \A f \in Inserted(events)' : events'[f].ref # None =>
          events'[f].ref \in Inserted(attempts) \cup Inserted(refunds)
  BY <1>3 DEF SettlementInv, RowsSound
<1>7. RequestsSound' /\ RetriesSound' /\ RowsSound'
  BY <1>1, <1>3, <1>4, <1>5, <1>6, DeliveryKeeps
<1>8. AttemptsNumbered' /\ StatusesFollow'
  BY AttemptsKept
<1>9. SettledOnce'
  <2>1. RefundSettledOnce'
    BY <1>3, <1>5 DEF SettlementInv, SettledOnce, RefundSettledOnce, SettledByOneEvent
  <2>2. AttemptSettledOnce => AttemptSettledOnce'
    BY <1>3, <1>5 DEF AttemptSettledOnce, SettledByOneEvent
  <2> QED
    BY <1>3, <2>1, <2>2 DEF SettlementInv, SettledOnce
<1> QED
  BY <1>3, <1>4, <1>7, <1>8, <1>9 DEF SettlementInv

LEMMA FindReferenceInv ==
    ASSUME SettlementInv, contested \subseteq contested',
           NEW d \in Deliveries, FindReference(d)
    PROVE  SettlementInv'
<1>1. PICK e : e = work[d].event
  OBVIOUS
<1>2. pc[d] = "received" /\ d \in Requests /\ d \notin Retries /\ d \notin RefundRequests
  BY Sorts DEF FindReference
<1>3. CASE Goto(d, "open", work[d]) /\ UNCHANGED rows /\ events[e].ref # None
  <2>1. "open" \in Places /\ work[d] \in Work
    BY <1>2 DEF Places, SettlementInv, TypeOK
  <2>2. /\ pc'[d] = "open" /\ work'[d] = work[d] /\ TypeOK'
        /\ \A q \in Requests \ {d} : /\ pc'[q] = pc[q] /\ work'[q] = work[q]
                                     /\ answer'[q] = answer[q]
    BY <1>2, <1>3, <2>1, GotoFacts
  <2> QED
    BY <1>1, <1>2, <1>3, <2>2, LocalInv
<1>4. ASSUME NEW s \in {"IGNORED", "FAILED"}, NEW a \in Answers,
             Mark(e, s), Finish(d, a),
             UNCHANGED <<payments, attempts, refunds, paymentStatus>>
      PROVE  SettlementInv'
  BY <1>1, <1>2, <1>4, SetAside
<1>5. {"duplicate", "ignored", "unmatched"} \subseteq Answers
  BY DEF Answers
<1> QED
  BY <1>1, <1>3, <1>4, <1>5 DEF FindReference

LEMMA MarkDuplicateRefundInv ==
    ASSUME SettlementInv, contested \subseteq contested',
           NEW d \in Deliveries, MarkDuplicateRefund(d)
    PROVE  SettlementInv'
<1>1. "duplicate" \in Answers
  BY DEF Answers
<1> QED
  BY <1>1, SetAside DEF MarkDuplicateRefund

LEMMA ReceiveEventInv ==
    ASSUME SettlementInv, contested \subseteq contested',
           NEW d \in Deliveries, ReceiveEvent(d)
    PROVE  SettlementInv'
<1>1. pc[d] = "new" /\ d \in Requests /\ work[d].event = None
  BY Sorts DEF ReceiveEvent, SettlementInv, RequestsSound, NoWork
<1>2. CASE Fail(d, "duplicate")
  <2>1. "duplicate" \in Answers
    BY DEF Answers
  <2> QED
    BY <1>1, <1>2, <2>1, FailInv
<1>3. ASSUME NEW e \in Events, ~AlreadyReceived(e), NEW t \in Types,
             NEW ref \in References(t),
             events' = [events EXCEPT ![e] =
                 [type |-> t, ref |-> ref, status |-> "RECEIVED"]],
             Goto(d, "received", [NoWork EXCEPT !.event = e]),
             UNCHANGED <<payments, attempts, refunds, paymentStatus>>
      PROVE  SettlementInv'
  <2>1. PICK w : w = [NoWork EXCEPT !.event = e]
    OBVIOUS
  <2>2. "received" \in Places /\ w \in Work /\ w.event = e
    BY <2>1, NoWorkType DEF Places, Work
  <2>3. /\ pc'[d] = "received" /\ work'[d] = w
        /\ \A q \in Requests \ {d} : /\ pc'[q] = pc[q] /\ work'[q] = work[q]
                                     /\ answer'[q] = answer[q]
    BY <1>1, <1>3, <2>1, <2>2, GotoFacts
  <2> USE DEF SettlementInv
  <2>4. PICK row : row = [type |-> t, ref |-> ref, status |-> "RECEIVED"]
    OBVIOUS
  <2>5. ref = None \/ ref \in Inserted(attempts) \cup Inserted(refunds)
    BY <1>3 DEF References
  <2>6. row \in EventRow /\ row # None /\ row.status = "RECEIVED" /\ row.ref = ref
    <3>1. ref \in Attempts \cup RefundRequests \cup {None}
      BY <2>5, RowTypes
    <3>2. row \in EventRow
      BY <2>4, <3>1 DEF EventRow
    <3> QED
      BY <2>4, <3>2, EventNoneAssumption
  <2>7. events' = [events EXCEPT ![e] = row] /\ events[e] = None
    BY <1>3, <2>4 DEF AlreadyReceived
  <2>8. /\ events' \in [Events -> EventRow \cup {None}] /\ events'[e] = row
        /\ Inserted(events)' = Inserted(events) \cup {e} /\ e \notin Inserted(events)
        /\ \A f \in Inserted(events) : events'[f] = events[f]
    BY <2>6, <2>7 DEF TypeOK, Inserted
  <2>9. TypeOK'
    <3>1. /\ pc' \in [Requests -> Places] /\ answer' \in [Requests -> Answers]
          /\ work' \in [Requests -> Work]
      BY <1>3, <2>1, <2>2 DEF TypeOK, Goto
    <3> QED
      BY <1>3, <2>8, <3>1 DEF TypeOK
  <2>10. /\ Inserted(payments)' = Inserted(payments)
         /\ Inserted(attempts)' = Inserted(attempts)
         /\ Inserted(refunds)' = Inserted(refunds)
    BY <1>3 DEF Inserted
  <2>12. \A x : ProcessedFor(x)' = ProcessedFor(x)
    BY <2>6, <2>8 DEF ProcessedFor
  <2>13. \A f \in Inserted(events)' : events'[f].ref # None =>
             events'[f].ref \in Inserted(attempts) \cup Inserted(refunds)
    BY <2>5, <2>6, <2>8 DEF RowsSound
  <2>14. RequestsSound' /\ RetriesSound' /\ RowsSound'
    BY <1>1, <1>3, <2>3, <2>9, <2>10, <2>13, DeliveryKeeps
  <2>15. AttemptsNumbered' /\ StatusesFollow'
    BY <1>3, AttemptsKept
  <2>16. SettledOnce'
    <3> HIDE DEF SettlementInv
    <3>1. \A x, y, u : SettledByOneEvent(x, y, u) => SettledByOneEvent(x, y, u)'
      BY <2>8, <2>12 DEF SettledByOneEvent
    <3>2. RefundSettledOnce => RefundSettledOnce'
      <4> SUFFICES ASSUME RefundSettledOnce, NEW r \in Inserted(refunds)
                   PROVE  SettledByOneEvent(r, refunds[r], "PENDING")'
        BY <2>10 DEF RefundSettledOnce
      <4>1. PICK y : y = refunds[r]
        OBVIOUS
      <4>2. SettledByOneEvent(r, y, "PENDING")'
        BY <3>1, <4>1 DEF RefundSettledOnce
      <4> QED
        BY <1>3, <4>1, <4>2 DEF SettledByOneEvent
    <3>3. AttemptSettledOnce => AttemptSettledOnce'
      <4> SUFFICES ASSUME AttemptSettledOnce, NEW a \in Inserted(attempts) \ contested
                   PROVE  SettledByOneEvent(a, attempts[a], "INITIATED")'
        BY <2>10 DEF AttemptSettledOnce
      <4>1. PICK y : y = attempts[a]
        OBVIOUS
      <4>2. SettledByOneEvent(a, y, "INITIATED")'
        BY <3>1, <4>1 DEF AttemptSettledOnce
      <4> QED
        BY <1>3, <4>1, <4>2 DEF SettledByOneEvent
    <3> QED
      BY <3>2, <3>3 DEF SettledOnce, SettlementInv
  <2>17. e # None
    BY Sorts
  <2>18. \A c \in Deliveries \ {d} :
            work'[c] = work[c] /\ pc'[c] = pc[c] /\ work[c].event # e
    BY <2>3, <2>8, <2>17, Sorts DEF DeliveriesSound
  <2>19. DeliveriesSound'
    <3>1. \A c \in Deliveries :
            /\ work'[c].event # None => work'[c].event \in Inserted(events)'
            /\ pc'[c] \in {"received", "open", "duplicate"} =>
                  /\ work'[c].event # None
                  /\ events'[work'[c].event].status = "RECEIVED"
            /\ pc'[c] = "open" => events'[work'[c].event].ref # None
      BY <2>2, <2>3, <2>6, <2>8, <2>17, <2>18 DEF DeliveriesSound
    <3>2. \A b, c \in Deliveries :
            work'[b].event # None /\ work'[b].event = work'[c].event => b = c
      BY <2>2, <2>3, <2>18 DEF DeliveriesSound
    <3> QED
      BY <3>1, <3>2 DEF DeliveriesSound
  <2>20. ReceivedIsCarried'
    <3>1. ASSUME NEW f \in Inserted(events), events[f].status = "RECEIVED"
          PROVE  \E c \in Deliveries :
                    /\ work'[c].event = f
                    /\ pc'[c] # "done" \/ answer'[c] = "5xx"
                    /\ \A b \in Deliveries \ {c} : work'[b].event # f
      <4>1. PICK c \in Deliveries :
                /\ work[c].event = f
                /\ pc[c] # "done" \/ answer[c] = "5xx"
                /\ \A b \in Deliveries \ {c} : work[b].event # f
        BY <3>1 DEF ReceivedIsCarried
      <4>2. f # None /\ f # e
        BY <2>8, RowTypes, Sorts
      <4>3. c # d
        BY <1>1, <4>1, <4>2
      <4> QED
        BY <2>2, <2>3, <2>18, <4>1, <4>2, <4>3, Sorts
    <3>2. /\ work'[d].event = e /\ pc'[d] # "done"
          /\ \A b \in Deliveries \ {d} : work'[b].event # e
      BY <2>2, <2>3, <2>18
    <3> QED
      BY <2>8, <3>1, <3>2 DEF ReceivedIsCarried
  <2> QED
    BY <2>9, <2>14, <2>15, <2>16, <2>19, <2>20
<1> QED
  BY <1>2, <1>3 DEF ReceiveEvent

LEMMA SettleAttemptInv ==
    ASSUME SettlementInv, ReportsSound, contested \subseteq contested',
           NEW d \in Deliveries, SettleAttempt(d)
    PROVE  SettlementInv'
<1>1. PICK e : e = work[d].event
  OBVIOUS
<1>2. PICK a : a = events[e].ref
  OBVIOUS
<1>3. PICK p : p = attempts[a].payment
  OBVIOUS
<1>4. PICK outcome : outcome = Outcome(events[e].type)
  OBVIOUS
<1>5. /\ pc[d] = "open" /\ a \in Attempts /\ UNCHANGED refunds
      /\ attempts' = [attempts EXCEPT ![a].status = outcome]
      /\ payments' = [payments EXCEPT ![p] = Settled(@, outcome)]
      /\ paymentStatus' = Summary(Settled(payments[p], outcome))
      /\ Mark(e, "PROCESSED") /\ Finish(d, "processed")
  BY <1>1, <1>2, <1>3, <1>4 DEF SettleAttempt
<1>6. "processed" \in Answers
  BY DEF Answers
<1>7. /\ pc'[d] = "done" /\ work' = work
      /\ \A q \in Requests \ {d} : pc'[q] = pc[q] /\ work'[q] = work[q]
      /\ pc' \in [Requests -> Places] /\ answer' \in [Requests -> Answers]
      /\ work' \in [Requests -> Work]
  BY <1>5, <1>6, Sorts, FinishFacts
<1>8. /\ e \in Inserted(events) /\ events[e].status = "RECEIVED"
      /\ events' \in [Events -> EventRow \cup {None}]
      /\ Inserted(events)' = Inserted(events)
      /\ \A f \in Inserted(events) : /\ events'[f].ref = events[f].ref
                                     /\ events'[f].type = events[f].type
      /\ DeliveriesSound' /\ ReceivedIsCarried'
      /\ \A x : x # a => ProcessedFor(x)' = ProcessedFor(x)
      /\ ProcessedFor(a)' = ProcessedFor(a) \cup {e}
  <2>1. pc[d] \in {"received", "open", "duplicate"}
    BY <1>5
  <2>2. "PROCESSED" \in {"PROCESSED", "IGNORED", "FAILED"}
    OBVIOUS
  <2>3. Mark(e, "PROCESSED") /\ Finish(d, "processed")
    BY <1>5
  <2> QED
    BY <1>1, <1>2, <1>6, <2>1, <2>2, <2>3, MarkFacts
<1> USE DEF SettlementInv
<1>9. a \in Inserted(attempts) /\ a \notin Inserted(refunds) /\ attempts[a] \in AttemptRow
  <2>1. a # None
    BY <1>5, Sorts
  <2>2. a \in Inserted(attempts) \cup Inserted(refunds) /\ a \notin Inserted(refunds)
    BY <1>2, <1>5, <1>8, <2>1, RowTypes, Sorts DEF RowsSound
  <2> QED
    BY <2>2, RowTypes
<1>10. p \in Inserted(payments) /\ p \in Creates /\ payments[p] \in PaymentRow
  BY <1>3, <1>9, RowTypes DEF RowsSound
<1>11. outcome \in {"SUCCEEDED", "FAILED"}
  BY <1>4 DEF Outcome
<1>12. PICK row : row = [attempts[a] EXCEPT !.status = outcome]
  OBVIOUS
<1>13. /\ row \in AttemptRow /\ row # None /\ row.status = outcome
       /\ row.payment = attempts[a].payment /\ row.number = attempts[a].number
  <2>1. /\ row \in AttemptRow /\ row.status = outcome
        /\ row.payment = attempts[a].payment /\ row.number = attempts[a].number
    BY <1>9, <1>11, <1>12 DEF AttemptRow
  <2> QED
    BY <2>1, NoneAssumption
<1>14. attempts' = [attempts EXCEPT ![a] = row]
  BY <1>5, <1>12
<1>15. /\ attempts' \in [Attempts -> AttemptRow \cup {None}] /\ attempts'[a] = row
       /\ Inserted(attempts)' = Inserted(attempts)
       /\ \A b \in Inserted(attempts) \ {a} : attempts'[b] = attempts[b]
       /\ \A b \in Inserted(attempts) : /\ attempts'[b].payment = attempts[b].payment
                                        /\ attempts'[b].number = attempts[b].number
  BY <1>9, <1>13, <1>14 DEF TypeOK, Inserted
<1>16. PICK paid : paid = Settled(payments[p], outcome)
  OBVIOUS
<1>17. /\ paid \in PaymentRow /\ paid # None
       /\ paid.status = (IF outcome = "SUCCEEDED" THEN "PAID" ELSE "FAILED")
       /\ paid.paid = (IF outcome = "SUCCEEDED" THEN Total ELSE payments[p].paid)
  <2>1. /\ paid \in PaymentRow
        /\ paid.status = (IF outcome = "SUCCEEDED" THEN "PAID" ELSE "FAILED")
        /\ paid.paid = (IF outcome = "SUCCEEDED" THEN Total ELSE payments[p].paid)
    <3> HIDE DEF SettlementInv
    <3>1. Total \in 0..Total
      BY TotalAssumption
    <3>2. CASE outcome = "SUCCEEDED"
      <4>1. paid = [payments[p] EXCEPT !.status = "PAID", !.paid = Total]
        BY <1>16, <3>2 DEF Settled
      <4> QED
        BY <1>10, <3>1, <3>2, <4>1 DEF PaymentRow, PaymentStatuses
    <3>3. CASE outcome = "FAILED"
      <4>1. paid = [payments[p] EXCEPT !.status = "FAILED"]
        BY <1>16, <3>3 DEF Settled
      <4> QED
        BY <1>10, <3>3, <4>1 DEF PaymentRow, PaymentStatuses
    <3> QED
      BY <1>11, <3>2, <3>3
  <2> QED
    BY <2>1, NoneAssumption
<1>18. payments' = [payments EXCEPT ![p] = paid] /\ paymentStatus' = paid.status
  BY <1>5, <1>16 DEF Summary
<1>19. /\ payments' \in [Creates -> PaymentRow \cup {None}] /\ payments'[p] = paid
       /\ Inserted(payments)' = Inserted(payments)
       /\ \A q \in Inserted(payments) \ {p} : payments'[q] = payments[q]
  BY <1>10, <1>17, <1>18 DEF TypeOK, Inserted
<1>20. TypeOK'
  <2>1. paymentStatus' \in PaymentStatuses
    BY <1>17, <1>18 DEF PaymentRow
  <2> QED
    BY <1>5, <1>7, <1>8, <1>15, <1>19, <2>1 DEF TypeOK
<1>21. Inserted(refunds)' = Inserted(refunds)
  BY <1>5 DEF Inserted
<1>22. a \notin contested => attempts[a].status = "INITIATED"
  BY <1>1, <1>2, <1>5 DEF ReportsSound, Reporting
<1>23. /\ RequestsSound' /\ RetriesSound' /\ RowsSound' /\ AttemptsNumbered'
       /\ \A q : AttemptsOf(q)' = AttemptsOf(q)
  <2>1. \A q \in Inserted(payments) : payments[q].paid > 0 => payments'[q].paid > 0
    BY <1>17, <1>19, TotalAssumption
  <2>2. \A b \in Inserted(attempts) \ contested :
            attempts[b].status = "FAILED" => attempts'[b].status = "FAILED"
    BY <1>15, <1>22
  <2>3. \A f \in Inserted(events)' : events'[f].ref # None =>
            events'[f].ref \in Inserted(attempts) \cup Inserted(refunds)
    BY <1>8 DEF RowsSound
  <2>4. \A r \in Inserted(refunds) : refunds'[r].payment = refunds[r].payment
    BY <1>5
  <2> HIDE DEF SettlementInv
  <2> QED
    BY <1>7, <1>8, <1>10, <1>15, <1>19, <1>20, <1>21, <2>1, <2>2, <2>3, <2>4, DeliveryKeeps
<1>24. SettledOnce'
  <2>1. RefundSettledOnce'
    <3>1. \A r \in Inserted(refunds) : ProcessedFor(r)' = ProcessedFor(r)
      BY <1>8, <1>9
    <3> QED
      BY <1>5, <1>8, <1>21, <3>1 DEF SettledOnce, RefundSettledOnce, SettledByOneEvent
  <2>2. AttemptSettledOnce'
    <3> SUFFICES ASSUME NEW b \in Inserted(attempts) \ contested
                 PROVE  SettledByOneEvent(b, attempts[b], "INITIATED")'
      BY <1>15 DEF AttemptSettledOnce
    <3>1. CASE b = a
      <4>1. ProcessedFor(a) = {}
        BY <1>9, <1>22, <3>1 DEF SettledOnce, AttemptSettledOnce, SettledByOneEvent
      <4>2. ProcessedFor(a)' = {e} /\ attempts'[a].status = Outcome(events'[e].type)
        BY <1>4, <1>8, <1>13, <1>15, <4>1
      <4>3. attempts'[a].status # "INITIATED"
        BY <1>11, <1>13, <1>15
      <4> QED
        BY <1>8, <3>1, <4>2, <4>3 DEF SettledByOneEvent
    <3>2. CASE b # a
      <4>1. ProcessedFor(b)' = ProcessedFor(b) /\ attempts'[b] = attempts[b]
        BY <1>8, <1>15, <3>2
      <4> QED
        BY <1>8, <4>1 DEF SettledOnce, AttemptSettledOnce, SettledByOneEvent
    <3> QED
      BY <3>1, <3>2
  <2> QED
    BY <1>8, <2>1, <2>2 DEF SettledOnce
<1>25. StatusesFollow'
  <2>4. \A q : Uncontested(q)' => Uncontested(q)
    BY <1>23 DEF Uncontested
  <2>1. ASSUME NEW q \in Inserted(payments), q # p, Uncontested(q)'
        PROVE  Follows(q, LastAttempt(q))'
    <3>1. Follows(q, LastAttempt(q))
      BY <2>1, <2>4 DEF StatusesFollow
    <3>2. \A b \in AttemptsOf(q) : attempts'[b] = attempts[b]
      BY <1>3, <1>15, <2>1 DEF AttemptsOf
    <3> QED
      BY <1>19, <1>20, <1>23, <2>1, <3>1, <3>2, FollowsKept
  <2>2. ASSUME Uncontested(p)' PROVE Follows(p, LastAttempt(p))'
    <3>1. PICK last : last = LastAttempt(p)
      OBVIOUS
    <3>2. Follows(p, last)
      BY <1>10, <2>2, <2>4, <3>1 DEF StatusesFollow
    <3>3. a \in AttemptsOf(p)
      BY <1>3, <1>9 DEF AttemptsOf
    <3>10. attempts[a].status = "INITIATED"
      BY <1>22, <2>2, <2>4, <3>3 DEF Uncontested
    <3>4. last = a
      BY <3>2, <3>3, <3>10 DEF Follows
    <3>5. \A b \in AttemptsOf(p) : attempts'[b].number = attempts[b].number
      BY <1>15 DEF AttemptsOf
    <3>6. LastAttempt(p)' = a
      BY <1>10, <1>20, <1>23, <3>1, <3>4, <3>5, LastKept
    <3>7. \A b \in AttemptsOf(p) \ {a} : attempts'[b].status = "FAILED"
      BY <1>15, <3>2, <3>4 DEF Follows, AttemptsOf
    <3>8. payments[p].paid = 0
      BY <3>2, <3>4, <3>10 DEF Follows
    <3>9. Follows(p, a)'
      BY <1>11, <1>13, <1>15, <1>17, <1>19, <1>23, <3>7, <3>8 DEF Follows
    <3> QED
      BY <3>6, <3>9 DEF Follows
  <2>3. \A q \in Inserted(payments) : OrderFollows(q)'
    BY <1>10, <1>18, <1>19 DEF OrderFollows
  <2> QED
    BY <1>19, <2>1, <2>2, <2>3 DEF StatusesFollow
<1> QED
  BY <1>8, <1>20, <1>23, <1>24, <1>25

LEMMA SettleRefundInv ==
    ASSUME SettlementInv, contested \subseteq contested',
           NEW d \in Deliveries, SettleRefund(d)
    PROVE  SettlementInv'
<1>1. PICK e : e = work[d].event
  OBVIOUS
<1>2. PICK r : r = events[e].ref
  OBVIOUS
<1>3. PICK p : p = refunds[r].payment
  OBVIOUS
<1>4. PICK outcome : outcome = Outcome(events[e].type)
  OBVIOUS
<1>5. pc[d] = "open" /\ r \in RefundRequests /\ d \in Requests
      /\ d \notin Retries /\ d \notin RefundRequests
  BY <1>1, <1>2, Sorts DEF SettleRefund
<1>6. CASE ~StillPending(r)
  <2>1. Goto(d, "duplicate", work[d]) /\ UNCHANGED rows
    BY <1>1, <1>2, <1>6 DEF SettleRefund
  <2>2. "duplicate" \in Places /\ work[d] \in Work
    BY <1>5 DEF Places, SettlementInv, TypeOK
  <2>3. /\ pc'[d] = "duplicate" /\ work'[d] = work[d] /\ TypeOK'
        /\ \A q \in Requests \ {d} : /\ pc'[q] = pc[q] /\ work'[q] = work[q]
                                     /\ answer'[q] = answer[q]
    BY <1>5, <2>1, <2>2, GotoFacts
  <2> QED
    BY <1>5, <2>1, <2>3, LocalInv
<1>7. CASE StillPending(r)
  <2>1. /\ refunds' = [refunds EXCEPT ![r].status = outcome]
        /\ IF outcome = "SUCCEEDED"
           THEN /\ payments' = [payments EXCEPT ![p] =
                                   Refunded(payments[p], refunds[r].amount)]
                /\ paymentStatus' = Summary(Refunded(payments[p], refunds[r].amount))
           ELSE UNCHANGED <<payments, paymentStatus>>
        /\ Mark(e, "PROCESSED") /\ Finish(d, "processed") /\ UNCHANGED attempts
    BY <1>1, <1>2, <1>3, <1>4, <1>7 DEF SettleRefund
  <2>2. "processed" \in Answers /\ pc[d] \in {"received", "open", "duplicate"}
    BY <1>5 DEF Answers
  <2>3. /\ pc'[d] = "done" /\ work' = work
        /\ \A q \in Requests \ {d} : pc'[q] = pc[q] /\ work'[q] = work[q]
        /\ pc' \in [Requests -> Places] /\ answer' \in [Requests -> Answers]
        /\ work' \in [Requests -> Work]
    BY <1>5, <2>1, <2>2, FinishFacts
  <2>4. /\ e \in Inserted(events) /\ events[e].status = "RECEIVED"
        /\ events' \in [Events -> EventRow \cup {None}]
        /\ Inserted(events)' = Inserted(events)
        /\ \A f \in Inserted(events) : /\ events'[f].ref = events[f].ref
                                       /\ events'[f].type = events[f].type
          /\ DeliveriesSound' /\ ReceivedIsCarried'
        /\ \A x : x # r => ProcessedFor(x)' = ProcessedFor(x)
        /\ ProcessedFor(r)' = ProcessedFor(r) \cup {e}
    <3>1. "PROCESSED" \in {"PROCESSED", "IGNORED", "FAILED"}
      OBVIOUS
    <3>2. Mark(e, "PROCESSED") /\ Finish(d, "processed")
      BY <2>1
    <3> QED
      BY <1>1, <1>2, <2>2, <3>1, <3>2, MarkFacts
  <2> USE DEF SettlementInv
  <2>5. /\ r \in Inserted(refunds) /\ r \notin Inserted(attempts)
        /\ refunds[r] \in RefundRow /\ refunds[r].status = "PENDING"
    <3>1. r # None /\ r \notin Attempts
      BY <1>5, Sorts
    <3>2. r \in Inserted(refunds) /\ r \notin Inserted(attempts)
      BY <1>2, <2>4, <3>1, RowTypes DEF RowsSound
    <3> QED
      BY <1>7, <3>2, RowTypes DEF StillPending
  <2>6. /\ p \in Inserted(payments) /\ p \in Creates /\ payments[p] \in PaymentRow
        /\ payments[p].paid > 0
    BY <1>3, <2>5, RowTypes DEF RowsSound
  <2>7. outcome \in {"SUCCEEDED", "FAILED"}
    BY <1>4 DEF Outcome
  <2>8. PICK row : row = [refunds[r] EXCEPT !.status = outcome]
    OBVIOUS
  <2>9. /\ row \in RefundRow /\ row # None /\ row.status = outcome
        /\ row.payment = refunds[r].payment
    <3>1. /\ row \in RefundRow /\ row.status = outcome
          /\ row.payment = refunds[r].payment
      BY <2>5, <2>7, <2>8 DEF RefundRow
    <3> QED
      BY <3>1, NoneAssumption
  <2>10. refunds' = [refunds EXCEPT ![r] = row]
    BY <2>1, <2>8
  <2>11. /\ refunds' \in [RefundRequests -> RefundRow \cup {None}] /\ refunds'[r] = row
         /\ Inserted(refunds)' = Inserted(refunds)
         /\ \A q \in Inserted(refunds) \ {r} : refunds'[q] = refunds[q]
    BY <2>5, <2>9, <2>10 DEF TypeOK, Inserted
  <2>12. PICK paid : paid = Refunded(payments[p], refunds[r].amount)
    OBVIOUS
  <2>13. /\ paid \in PaymentRow /\ paid # None /\ paid.paid = payments[p].paid
         /\ paid.status \in {"REFUNDED", "PARTIALLY_REFUNDED"}
    <3> HIDE DEF SettlementInv
    <3>1. refunds[r].amount \in Nat /\ payments[p].refunded \in Nat
      BY <2>5, <2>6, TotalAssumption DEF RefundRow, PaymentRow
    <3>2. PICK s \in {"REFUNDED", "PARTIALLY_REFUNDED"} :
              paid = [payments[p] EXCEPT
                         !.refunded = payments[p].refunded + refunds[r].amount,
                         !.status = s]
      BY <2>12 DEF Refunded
    <3>3. payments[p].refunded + refunds[r].amount \in Nat
      BY <3>1
    <3>4. /\ paid \in PaymentRow /\ paid.paid = payments[p].paid
          /\ paid.status \in {"REFUNDED", "PARTIALLY_REFUNDED"}
      BY <2>6, <3>2, <3>3 DEF PaymentRow, PaymentStatuses
    <3> QED
      BY <3>4, NoneAssumption
  <2>14. \/ /\ payments' = [payments EXCEPT ![p] = paid] /\ paymentStatus' = paid.status
         \/ UNCHANGED <<payments, paymentStatus>>
    BY <2>1, <2>12 DEF Summary
  <2>15. /\ payments' \in [Creates -> PaymentRow \cup {None}]
         /\ Inserted(payments)' = Inserted(payments)
         /\ \A q \in Inserted(payments) \ {p} : payments'[q] = payments[q]
         /\ \/ payments'[p] = paid /\ paymentStatus' = paid.status
            \/ UNCHANGED <<payments, paymentStatus>>
    BY <2>6, <2>13, <2>14 DEF TypeOK, Inserted
  <2>16. TypeOK'
    <3>1. paymentStatus' \in PaymentStatuses
      BY <2>13, <2>15 DEF TypeOK, PaymentRow
    <3> QED
      BY <2>1, <2>3, <2>4, <2>11, <2>15, <3>1 DEF TypeOK
  <2>17. Inserted(attempts)' = Inserted(attempts)
    BY <2>1 DEF Inserted
  <2>18. /\ RequestsSound' /\ RetriesSound' /\ RowsSound' /\ AttemptsNumbered'
         /\ \A q : AttemptsOf(q)' = AttemptsOf(q)
    <3>1. \A q \in Inserted(payments) : payments[q].paid > 0 => payments'[q].paid > 0
      BY <2>13, <2>15
    <3>2. \A f \in Inserted(events)' : events'[f].ref # None =>
              events'[f].ref \in Inserted(attempts) \cup Inserted(refunds)
      BY <2>4 DEF RowsSound
    <3>3. \A q \in Inserted(refunds) : refunds'[q].payment = refunds[q].payment
      BY <2>9, <2>11
    <3>4. \A a \in Inserted(attempts) : attempts'[a] = attempts[a]
      BY <2>1
    <3> HIDE DEF SettlementInv
    <3> QED
      BY <2>3, <2>4, <2>6, <2>11, <2>15, <2>16, <2>17, <3>1, <3>2, <3>3, <3>4,
         DeliveryKeeps
  <2>19. SettledOnce'
    <3>1. RefundSettledOnce'
      <4> SUFFICES ASSUME NEW q \in Inserted(refunds)
                   PROVE  SettledByOneEvent(q, refunds[q], "PENDING")'
        BY <2>11 DEF RefundSettledOnce
      <4>1. CASE q = r
        <5>1. ProcessedFor(r) = {}
          BY <2>5 DEF SettledOnce, RefundSettledOnce, SettledByOneEvent
        <5>2. ProcessedFor(r)' = {e} /\ refunds'[r].status = Outcome(events'[e].type)
          BY <1>4, <2>4, <2>9, <2>11, <5>1
        <5>3. refunds'[r].status # "PENDING"
          BY <2>7, <2>9, <2>11
        <5> QED
          BY <2>4, <4>1, <5>2, <5>3 DEF SettledByOneEvent
      <4>2. CASE q # r
        <5>1. ProcessedFor(q)' = ProcessedFor(q) /\ refunds'[q] = refunds[q]
          BY <2>4, <2>11, <4>2
        <5> QED
          BY <2>4, <5>1 DEF SettledOnce, RefundSettledOnce, SettledByOneEvent
      <4> QED
        BY <4>1, <4>2
    <3>2. AttemptSettledOnce => AttemptSettledOnce'
      <4> SUFFICES ASSUME AttemptSettledOnce, NEW a \in Inserted(attempts) \ contested
                   PROVE  SettledByOneEvent(a, attempts[a], "INITIATED")'
        BY <2>17 DEF AttemptSettledOnce
      <4>1. ProcessedFor(a)' = ProcessedFor(a) /\ attempts'[a] = attempts[a]
        BY <2>1, <2>4, <2>5
      <4> QED
        BY <2>4, <4>1 DEF AttemptSettledOnce, SettledByOneEvent
    <3> QED
      BY <2>4, <3>1, <3>2 DEF SettledOnce
  <2>20. StatusesFollow'
    <3>4. \A q : Uncontested(q)' => Uncontested(q)
      BY <2>18 DEF Uncontested
    <3>1. ASSUME NEW q \in Inserted(payments), Uncontested(q)',
                 q # p \/ payments'[p] = payments[p]
          PROVE  Follows(q, LastAttempt(q))'
      <4>1. Follows(q, LastAttempt(q)) /\ payments'[q] = payments[q]
        BY <2>15, <3>1, <3>4 DEF StatusesFollow
      <4>2. \A b \in AttemptsOf(q) : attempts'[b] = attempts[b]
        BY <2>1
      <4> QED
        BY <2>16, <2>18, <4>1, <4>2, FollowsKept
    <3>2. ASSUME payments'[p] = paid, Uncontested(p)' PROVE Follows(p, LastAttempt(p))'
      <4>1. PICK last : last = LastAttempt(p)
        OBVIOUS
      <4>2. Follows(p, last)
        BY <2>6, <3>2, <3>4, <4>1 DEF StatusesFollow
      <4>3. LastAttempt(p)' = last
        BY <2>1, <2>6, <2>16, <2>18, <4>1, LastKept
      <4>4. attempts[last].status = "SUCCEEDED"
        BY <2>6, <4>2, TotalAssumption DEF Follows
      <4>5. Follows(p, last)'
        BY <2>1, <2>13, <2>18, <3>2, <4>2, <4>4 DEF Follows
      <4> QED
        BY <4>3, <4>5 DEF Follows
    <3>3. \A q \in Inserted(payments) : Uncontested(q)' => OrderFollows(q)'
      BY <2>6, <2>15, <3>4 DEF OrderFollows, StatusesFollow
    <3> QED
      BY <2>15, <3>1, <3>2, <3>3 DEF StatusesFollow
  <2> QED
    BY <2>4, <2>16, <2>18, <2>19, <2>20
<1> QED
  BY <1>6, <1>7

----------------------------------------------------------------------------
\* Who reports about an attempt, and what it finds.

\* Marking an event leaves its reference.
LEMMA MarkKeepsRefs ==
    ASSUME TypeOK, NEW e, NEW s, Mark(e, s)
    PROVE  \A f \in Inserted(events) : events'[f].ref = events[f].ref
<1> SUFFICES ASSUME NEW f \in Inserted(events) PROVE events'[f].ref = events[f].ref
  OBVIOUS
<1>1. PICK row : row = events[f]
  OBVIOUS
<1>2. f \in Events /\ row \in EventRow
  BY <1>1, RowTypes
<1>3. events'[f] = IF f = e THEN [row EXCEPT !.status = s] ELSE row
  BY <1>1, <1>2 DEF Mark, TypeOK
<1>4. [row EXCEPT !.status = s].ref = row.ref
  BY <1>2 DEF EventRow
<1> QED
  BY <1>1, <1>3, <1>4

\* What a step of request r has to show for ReportsSound: r reports only on an
\* attempt it has found INITIATED, and others find theirs as it was.
LEMMA ReportsKept ==
    ASSUME SettlementInv, ReportsSound, Observe, NEW r \in Requests,
           \/ \E a : Finish(r, a)
           \/ \E place, w : Goto(r, place, w),
           \A f \in Inserted(events) : events'[f].ref = events[f].ref,
           \A a \in Attempts : r \in Reporting(a)' => attempts'[a].status = "INITIATED",
           \A a \in Attempts : \/ attempts'[a] = attempts[a]
                               \/ attempts'[a].status = "INITIATED"
                               \/ r \in Reporting(a) /\ r \notin Reporting(a)'
    PROVE  ReportsSound'
<1> SUFFICES ASSUME NEW a \in Attempts \ contested', NEW d \in Reporting(a)'
             PROVE  /\ attempts'[a].status = "INITIATED"
                    /\ \A c \in Reporting(a)' : c = d
  BY DEF ReportsSound
<1>1. a \notin contested /\ \A c \in Reporting(a)' : c = d
  BY DEF Observe
<1>2. CASE d = r
  BY <1>1, <1>2
<1>3. CASE d # r
  <2>1. d \in Deliveries /\ d \in Requests
    BY Sorts DEF Reporting
  <2>2. pc'[d] = pc[d] /\ work'[d] = work[d]
    BY <1>3, <2>1 DEF Finish, Goto, SettlementInv, TypeOK
  <2>3. pc[d] = "open" /\ events'[work[d].event].ref = a
    BY <2>2 DEF Reporting
  <2>4. work[d].event \in Inserted(events)
    BY <2>1, <2>3 DEF SettlementInv, DeliveriesSound
  <2>5. d \in Reporting(a)
    BY <2>1, <2>3, <2>4 DEF Reporting
  <2>6. attempts[a].status = "INITIATED" /\ r \notin Reporting(a)
    BY <1>1, <1>3, <2>5 DEF ReportsSound
  <2> QED
    BY <1>1, <2>6
<1> QED
  BY <1>2, <1>3

\* A step that writes no attempt and after which r does not report.
LEMMA QuietReports ==
    ASSUME SettlementInv, ReportsSound, Observe, NEW r \in Requests,
           \/ \E a : Finish(r, a)
           \/ \E place \in Places \ {"open"} : \E w : Goto(r, place, w),
           \A f \in Inserted(events) : events'[f].ref = events[f].ref,
           UNCHANGED attempts
    PROVE  ReportsSound'
<1>1. pc'[r] # "open"
  BY DEF Finish, Goto, SettlementInv, TypeOK
<1>2. \A a : r \notin Reporting(a)'
  BY <1>1 DEF Reporting
<1> QED
  BY <1>2, ReportsKept

\* A step that inserts an attempt.
LEMMA InsertReports ==
    ASSUME SettlementInv, ReportsSound, Observe, NEW r \in Attempts, NEW row,
           row.status = "INITIATED", attempts' = [attempts EXCEPT ![r] = row],
           UNCHANGED events, \E a : Finish(r, a)
    PROVE  ReportsSound'
<1>1. r \in Requests /\ r \notin Deliveries
  BY Sorts
<1>2. \A a \in Attempts : attempts'[a] = attempts[a] \/ attempts'[a].status = "INITIATED"
  BY DEF SettlementInv, TypeOK
<1>3. \A a : r \notin Reporting(a)'
  BY <1>1 DEF Reporting
<1> QED
  BY <1>1, <1>2, <1>3, ReportsKept

LEMMA FindReferenceReports ==
    ASSUME SettlementInv, ReportsSound, Observe, NEW d \in Deliveries, FindReference(d)
    PROVE  ReportsSound'
<1>1. PICK e : e = work[d].event
  OBVIOUS
<1>2. d \in Requests /\ TypeOK
  BY Sorts DEF SettlementInv
<1>3. CASE Goto(d, "open", work[d]) /\ UNCHANGED rows /\ Open(events[e].ref)
  <2>1. UNCHANGED <<attempts, events>>
    BY <1>3 DEF rows
  <2>2. work' = work
    BY <1>2, <1>3 DEF Goto, TypeOK
  <2>3. \A a \in Attempts : d \in Reporting(a)' => attempts'[a].status = "INITIATED"
    <3> SUFFICES ASSUME NEW a \in Attempts, d \in Reporting(a)'
                 PROVE  attempts'[a].status = "INITIATED"
      OBVIOUS
    <3>1. events[e].ref = a
      BY <1>1, <2>1, <2>2 DEF Reporting
    <3> QED
      BY <1>3, <2>1, <3>1 DEF Open
  <2> QED
    BY <1>2, <1>3, <2>1, <2>3, ReportsKept
<1>4. ASSUME NEW s, NEW a, Mark(e, s), Finish(d, a), UNCHANGED attempts
      PROVE  ReportsSound'
  <2>1. \A f \in Inserted(events) : events'[f].ref = events[f].ref
    BY <1>2, <1>4, MarkKeepsRefs
  <2> QED
    BY <1>2, <1>4, <2>1, QuietReports
<1> QED
  BY <1>1, <1>3, <1>4 DEF FindReference

LEMMA SettleAttemptReports ==
    ASSUME SettlementInv, ReportsSound, Observe, NEW d \in Deliveries, SettleAttempt(d)
    PROVE  ReportsSound'
<1>1. PICK e : e = work[d].event
  OBVIOUS
<1>2. PICK b : b = events[e].ref
  OBVIOUS
<1>3. d \in Requests /\ TypeOK
  BY Sorts DEF SettlementInv
<1>4. /\ pc[d] = "open" /\ Mark(e, "PROCESSED") /\ Finish(d, "processed")
      /\ attempts' = [attempts EXCEPT ![b].status = Outcome(events[e].type)]
  BY <1>1, <1>2 DEF SettleAttempt
<1>5. \A f \in Inserted(events) : events'[f].ref = events[f].ref
  BY <1>3, <1>4, MarkKeepsRefs
<1>6. d \in Reporting(b)
  BY <1>1, <1>2, <1>4 DEF Reporting
<1>7. \A a : d \notin Reporting(a)'
  BY <1>3, <1>4 DEF Finish, TypeOK, Reporting
<1>8. \A a \in Attempts : attempts'[a] = attempts[a] \/ a = b
  BY <1>3, <1>4 DEF TypeOK
<1> QED
  BY <1>3, <1>4, <1>5, <1>6, <1>7, <1>8, ReportsKept

\* Every step keeps it that the deliveries which are about to settle an attempt
\* have found it INITIATED, one delivery alone unless the attempt is contested.
LEMMA ReportsStaySound ==
    ASSUME SettlementInv, ReportsSound, [Next]_vars
    PROVE  ReportsSound'
<1>1. TypeOK
  BY DEF SettlementInv
<1>2. {"checked", "numbered", "received", "duplicate"} \subseteq Places \ {"open"}
  BY DEF Places
<1>3. ASSUME Observe, NEW r \in Requests, Interrupt(r) PROVE ReportsSound'
  BY <1>3, QuietReports DEF Interrupt, Fail, rows
<1>4. ASSUME Observe, NEW r \in Creates, CreatePayment(r) PROVE ReportsSound'
  <2>1. r \in Requests /\ r \in Attempts
    BY Sorts
  <2>2. CASE CountPayments(r)
    BY <1>2, <1>4, <2>1, <2>2, QuietReports DEF CountPayments, Fail, rows
  <2>3. CASE InsertPayment(r)
    <3>1. PICK row : row = [payment |-> r, number |-> 1, status |-> "INITIATED"]
      OBVIOUS
    <3>2. row.status = "INITIATED" /\ attempts' = [attempts EXCEPT ![r] = row]
      BY <2>3, <3>1 DEF InsertPayment
    <3> QED
      BY <1>4, <2>1, <2>3, <3>2, InsertReports DEF InsertPayment
  <2> QED
    BY <1>4, <2>2, <2>3 DEF CreatePayment
<1>5. ASSUME Observe, NEW r \in Retries, RetryPayment(r) PROVE ReportsSound'
  <2>1. r \in Requests /\ r \in Attempts
    BY Sorts
  <2>2. CASE FindFailedPayment(r)
    BY <1>2, <1>5, <2>1, <2>2, QuietReports DEF FindFailedPayment, Fail, rows
  <2>3. CASE RecheckPayment(r)
    BY <1>2, <1>5, <2>1, <2>3, QuietReports DEF RecheckPayment, Fail, rows
  <2>4. CASE InsertAttempt(r)
    <3>1. PICK row : row = [payment |-> work[r].payment, number |-> work[r].number,
                            status |-> "INITIATED"]
      OBVIOUS
    <3>2. row.status = "INITIATED"
      BY <3>1
    <3>3. \/ Fail(r, "4xx")
          \/ /\ attempts' = [attempts EXCEPT ![r] = row] /\ UNCHANGED events
             /\ Finish(r, "2xx")
      BY <2>4, <3>1 DEF InsertAttempt
    <3>4. CASE Fail(r, "4xx")
      BY <1>5, <2>1, <3>4, QuietReports DEF Fail, rows
    <3> QED
      BY <1>5, <2>1, <3>2, <3>3, <3>4, InsertReports
  <2> QED
    BY <1>5, <2>2, <2>3, <2>4 DEF RetryPayment
<1>6. ASSUME Observe, NEW r \in RefundRequests, CreateRefund(r) PROVE ReportsSound'
  <2>1. r \in Requests
    BY Sorts
  <2>2. CASE CheckRefund(r)
    BY <1>2, <1>6, <2>1, <2>2, QuietReports DEF CheckRefund, Fail, rows
  <2>3. CASE InsertRefund(r)
    BY <1>6, <2>1, <2>3, QuietReports DEF InsertRefund
  <2> QED
    BY <1>6, <2>2, <2>3 DEF CreateRefund
<1>7. ASSUME Observe, NEW r \in Deliveries, ProcessEvent(r) PROVE ReportsSound'
  <2>1. r \in Requests
    BY Sorts
  <2>2. CASE ReceiveEvent(r)
    <3>1. \A f \in Inserted(events) : events'[f].ref = events[f].ref
      BY <1>1, <2>2, RowTypes DEF ReceiveEvent, AlreadyReceived, Fail, rows, TypeOK
    <3> QED
      BY <1>2, <1>7, <2>1, <2>2, <3>1, QuietReports DEF ReceiveEvent, Fail, rows
  <2>3. CASE MarkDuplicateRefund(r)
    BY <1>1, <1>7, <2>1, <2>3, MarkKeepsRefs, QuietReports DEF MarkDuplicateRefund
  <2>4. CASE SettleRefund(r)
    <3>1. CASE Goto(r, "duplicate", work[r]) /\ UNCHANGED rows
      BY <1>2, <1>7, <2>1, <3>1, QuietReports DEF rows
    <3>2. CASE /\ Mark(work[r].event, "PROCESSED") /\ Finish(r, "processed")
               /\ UNCHANGED attempts
      BY <1>1, <1>7, <2>1, <3>2, MarkKeepsRefs, QuietReports
    <3> QED
      BY <2>4, <3>1, <3>2 DEF SettleRefund
  <2> QED
    BY <1>7, <2>2, <2>3, <2>4, FindReferenceReports, SettleAttemptReports DEF ProcessEvent
<1>8. CASE UNCHANGED vars
  BY <1>8 DEF vars, rows, ReportsSound, Reporting
<1> QED
  BY <1>3, <1>4, <1>5, <1>6, <1>7, <1>8 DEF Next, Step

----------------------------------------------------------------------------
LEMMA NextInv == SettlementInv /\ ReportsSound /\ [Next]_vars => SettlementInv'
<1> SUFFICES ASSUME SettlementInv, ReportsSound, [Next]_vars PROVE SettlementInv'
  OBVIOUS
<1>3. contested \subseteq contested'
  BY DEF Next, Observe, vars
<1>1. ASSUME NEW r \in Requests, Step(r) PROVE SettlementInv'
  <2>1. CASE r \in Creates /\ CreatePayment(r)
    BY <1>3, <2>1, CountPaymentsInv, InsertPaymentInv DEF CreatePayment
  <2>2. CASE r \in Retries /\ RetryPayment(r)
    BY <1>3, <2>2, FindFailedPaymentInv, RecheckPaymentInv, InsertAttemptInv DEF RetryPayment
  <2>3. CASE r \in RefundRequests /\ CreateRefund(r)
    BY <1>3, <2>3, CheckRefundInv, InsertRefundInv DEF CreateRefund
  <2>4. CASE r \in Deliveries /\ ProcessEvent(r)
    BY <1>3, <2>4, ReceiveEventInv, FindReferenceInv, SettleAttemptInv, SettleRefundInv,
       MarkDuplicateRefundInv DEF ProcessEvent
  <2> QED
    BY <1>1, <2>1, <2>2, <2>3, <2>4 DEF Step
<1>2. CASE UNCHANGED vars
  <2>1. UNCHANGED <<payments, attempts, refunds, events, paymentStatus, pc, answer, work>>
    BY <1>2 DEF vars, rows
  <2>2. SettledOnce'
    BY <1>3, <2>1, SettledKept
  <2>3. AttemptsNumbered' /\ StatusesFollow'
    BY <1>3, <2>1, AttemptsKept
  <2>4. DeliveriesSound' /\ ReceivedIsCarried'
    BY <2>1, DeliveriesKept
  <2>5. TypeOK'
    BY <2>1 DEF SettlementInv, TypeOK
  <2>6. RequestsSound'
    BY <2>1 DEF SettlementInv, RequestsSound, Inserted, Numbers, AttemptsOf
  <2>7. RowsSound'
    BY <2>1 DEF SettlementInv, RowsSound, Inserted, Numbers, AttemptsOf
  <2>8. RetriesSound'
    BY <1>3, <2>1 DEF SettlementInv, RetriesSound, Uncontested, Inserted, AttemptsOf
  <2> QED
    BY <2>2, <2>3, <2>4, <2>5, <2>6, <2>7, <2>8 DEF SettlementInv
<1> QED
  BY <1>1, <1>2, <1>3, InterruptInv DEF Next

\* The strengthened invariant holds of every reachable state.
THEOREM SettlementInvariant == Spec => []SettlementInv
<1>1. Init => SettlementInv /\ ReportsSound
  BY InitInv, Sorts DEF Init, ReportsSound, Reporting
<1>2. SettlementInv /\ ReportsSound /\ [Next]_vars => (SettlementInv /\ ReportsSound)'
  BY NextInv, ReportsStaySound
<1> QED
  BY <1>1, <1>2, PTL DEF Spec

\* Whatever the gateway reports, how often and in which order, no refund is
\* settled by two events, nor is an attempt that no two deliveries have found
\* INITIATED at once.
THEOREM SettlesOnce == Spec => []SettledOnce
<1>1. SettlementInv => SettledOnce
  BY DEF SettlementInv
<1> QED
  BY <1>1, SettlementInvariant, PTL

\* Concurrent retries never leave a gap in the numbers of attempts, nor share one.
THEOREM NumbersHold == Spec => []AttemptsNumbered
<1>1. SettlementInv => AttemptsNumbered
  BY DEF SettlementInv
<1> QED
  BY <1>1, SettlementInvariant, PTL

\* Unless an attempt of it is contested, a payment is where its last attempt is,
\* and the order where its payment is.
THEOREM StatusesHold == Spec => []StatusesFollow
<1>1. SettlementInv => StatusesFollow
  BY DEF SettlementInv
<1> QED
  BY <1>1, SettlementInvariant, PTL

\* A received event is left unhandled only by a delivery that died.
THEOREM EventsAreCarried == Spec => []ReceivedIsCarried
<1>1. SettlementInv => ReceivedIsCarried
  BY DEF SettlementInv
<1> QED
  BY <1>1, SettlementInvariant, PTL

----------------------------------------------------------------------------
\* The refinement of RefundBook.

\* What is given back stays while payments keep their refunded amounts.
LEMMA GivenBackKept ==
    ASSUME \A c \in Creates :
               \/ payments'[c] = payments[c]
               \/ /\ payments[c] # None /\ payments'[c] # None
                  /\ payments'[c].refunded = payments[c].refunded
               \/ /\ payments[c] = None /\ payments'[c] # None
                  /\ payments'[c].refunded = 0
    PROVE  UNCHANGED GivenBack
BY DEF GivenBack

\* Inserting a payment gives nothing back.
LEMMA InsertPaymentStutters ==
    ASSUME SettlementInv, NEW r \in Creates, InsertPayment(r)
    PROVE  UNCHANGED <<refunds, GivenBack>>
<1>1. PICK row : row = [status |-> "PENDING", paid |-> 0, refunded |-> 0]
  OBVIOUS
<1>2. row \in PaymentRow /\ row.refunded = 0
  BY <1>1, TotalAssumption DEF PaymentRow, PaymentStatuses
<1>3. row # None
  BY <1>2, NoneAssumption
<1>4. payments' = [payments EXCEPT ![r] = row] /\ UNCHANGED refunds /\ pc[r] = "checked"
  BY <1>1 DEF InsertPayment
<1>5. payments[r] = None /\ payments \in [Creates -> PaymentRow \cup {None}]
  BY <1>4, Sorts DEF SettlementInv, RequestsSound, TypeOK
<1>6. UNCHANGED GivenBack
  BY <1>2, <1>3, <1>4, <1>5, GivenBackKept
<1> QED
  BY <1>4, <1>6

\* A write to one payment's row that keeps its refunded amount.
LEMMA KeepsRefunded ==
    ASSUME SettlementInv, NEW p \in Inserted(payments), NEW row \in PaymentRow,
           row.refunded = payments[p].refunded, payments' = [payments EXCEPT ![p] = row]
    PROVE  UNCHANGED GivenBack
<1>1. p \in Creates /\ payments[p] # None /\ row # None
  BY RowTypes, NoneAssumption DEF SettlementInv
<1>2. payments \in [Creates -> PaymentRow \cup {None}]
  BY DEF SettlementInv, TypeOK
<1> QED
  BY <1>1, <1>2, GivenBackKept

LEMMA InsertAttemptStutters ==
    ASSUME SettlementInv, NEW r \in Retries, InsertAttempt(r)
    PROVE  UNCHANGED <<refunds, GivenBack>>
<1>1. PICK p : p = work[r].payment
  OBVIOUS
<1>2. p \in Inserted(payments) /\ payments[p] \in PaymentRow
  BY <1>1, RowTypes DEF InsertAttempt, SettlementInv, RequestsSound
<1>3. PICK row : row = [payments[p] EXCEPT !.status = "PENDING"]
  OBVIOUS
<1>4. row \in PaymentRow /\ row.refunded = payments[p].refunded
  BY <1>2, <1>3 DEF PaymentRow, PaymentStatuses
<1>5. \/ UNCHANGED <<payments, refunds>>
      \/ payments' = [payments EXCEPT ![p] = row] /\ UNCHANGED refunds
  BY <1>1, <1>3 DEF InsertAttempt, Fail, rows
<1> QED
  BY <1>2, <1>4, <1>5, KeepsRefunded DEF GivenBack

LEMMA SettleAttemptStutters ==
    ASSUME SettlementInv, NEW d \in Deliveries, SettleAttempt(d)
    PROVE  UNCHANGED <<refunds, GivenBack>>
<1>1. PICK a : a = events[work[d].event].ref
  OBVIOUS
<1>2. PICK p : p = attempts[a].payment
  OBVIOUS
<1>3. PICK outcome : outcome = Outcome(events[work[d].event].type)
  OBVIOUS
<1>4. /\ a \in Attempts /\ pc[d] = "open" /\ UNCHANGED refunds
      /\ payments' = [payments EXCEPT ![p] = Settled(@, outcome)]
  BY <1>1, <1>2, <1>3 DEF SettleAttempt
<1>5. p \in Inserted(payments) /\ payments[p] \in PaymentRow
  <2>1. /\ work[d].event \in Inserted(events) /\ a # None
    BY <1>1, <1>4 DEF SettlementInv, DeliveriesSound
  <2>2. a \in Inserted(attempts)
    BY <1>1, <1>4, <2>1, RowTypes, Sorts DEF SettlementInv, RowsSound
  <2> QED
    BY <1>2, <2>2, RowTypes DEF SettlementInv, RowsSound
<1>6. PICK row : row = Settled(payments[p], outcome)
  OBVIOUS
<1>7. row \in PaymentRow /\ row.refunded = payments[p].refunded
  <2>1. \/ row = [payments[p] EXCEPT !.status = "PAID", !.paid = Total]
        \/ row = [payments[p] EXCEPT !.status = "FAILED"]
    BY <1>6 DEF Settled
  <2>2. Total \in 0..Total
    BY TotalAssumption
  <2> QED
    BY <1>5, <2>1, <2>2 DEF PaymentRow, PaymentStatuses
<1>8. payments' = [payments EXCEPT ![p] = row]
  BY <1>4, <1>6
<1> QED
  BY <1>4, <1>5, <1>7, <1>8, KeepsRefunded

\* Inserting a refund grants it.
LEMMA InsertRefundGrants ==
    ASSUME SettlementInv, NEW r \in RefundRequests, InsertRefund(r)
    PROVE  Book!Grant(r)
<1>1. /\ pc[r] = "checked" /\ UNCHANGED payments /\ r \in Requests
      /\ refunds' = [refunds EXCEPT ![r] =
             [payment |-> work[r].payment, amount |-> work[r].amount,
              status |-> "PENDING"]]
  BY Sorts DEF InsertRefund
<1>2. refunds[r] = None
  BY <1>1 DEF SettlementInv, RequestsSound
<1>3. work[r].payment \in Inserted(payments) /\ work[r].amount > 0 /\ work[r] \in Work
  BY <1>1 DEF SettlementInv, RequestsSound, TypeOK
<1>4. work[r].payment \in Creates /\ work[r].amount \in 1..Total
  BY <1>3, RowTypes, TotalAssumption DEF SettlementInv, Work
<1>5. UNCHANGED GivenBack
  BY <1>1 DEF GivenBack
<1> QED
  BY <1>1, <1>2, <1>4, <1>5 DEF Book!Grant

\* Settling a refund pays or denies it.
LEMMA SettleRefundSettles ==
    ASSUME SettlementInv, NEW d \in Deliveries, SettleRefund(d)
    PROVE  \/ UNCHANGED <<refunds, GivenBack>>
           \/ \E r \in RefundRequests : Book!Pay(r) \/ Book!Deny(r)
<1>1. PICK e : e = work[d].event
  OBVIOUS
<1>2. PICK r : r = events[e].ref
  OBVIOUS
<1>3. PICK p : p = refunds[r].payment
  OBVIOUS
<1>4. PICK outcome : outcome = Outcome(events[e].type)
  OBVIOUS
<1>5. pc[d] = "open" /\ r \in RefundRequests
  BY <1>1, <1>2 DEF SettleRefund
<1>6. CASE ~StillPending(r)
  BY <1>1, <1>2, <1>6 DEF SettleRefund, rows, GivenBack
<1>7. CASE StillPending(r)
  <2>1. /\ refunds' = [refunds EXCEPT ![r].status = outcome]
        /\ IF outcome = "SUCCEEDED"
           THEN payments' = [payments EXCEPT ![p] =
                                Refunded(payments[p], refunds[r].amount)]
           ELSE UNCHANGED payments
    BY <1>1, <1>2, <1>3, <1>4, <1>7 DEF SettleRefund
  <2>2. r \in Inserted(refunds) /\ refunds[r] # None /\ refunds[r].status = "PENDING"
    <3>1. e \in Inserted(events) /\ r # None /\ r \notin Attempts
      BY <1>1, <1>2, <1>5, Sorts DEF SettlementInv, DeliveriesSound
    <3>2. r \in Inserted(refunds)
      BY <1>2, <3>1, RowTypes DEF SettlementInv, RowsSound
    <3> QED
      BY <1>7, <3>2, RowTypes DEF StillPending, SettlementInv
  <2>3. /\ p \in Creates /\ payments[p] \in PaymentRow /\ payments[p] # None
        /\ refunds[r] \in RefundRow
    BY <1>3, <2>2, RowTypes DEF SettlementInv, RowsSound
  <2>4. CASE outcome = "SUCCEEDED"
    <3>1. PICK row : row = Refunded(payments[p], refunds[r].amount)
      OBVIOUS
    <3>2. /\ row \in PaymentRow
          /\ row.refunded = payments[p].refunded + refunds[r].amount
      <4>1. PICK s \in {"REFUNDED", "PARTIALLY_REFUNDED"} :
                row = [payments[p] EXCEPT
                          !.refunded = payments[p].refunded + refunds[r].amount,
                          !.status = s]
        BY <3>1 DEF Refunded
      <4>2. payments[p].refunded + refunds[r].amount \in Nat
        BY <2>3, TotalAssumption DEF PaymentRow, RefundRow
      <4> QED
        BY <2>3, <4>1, <4>2 DEF PaymentRow, PaymentStatuses
    <3>3. row # None
      BY <3>2, NoneAssumption
    <3>4. payments' = [payments EXCEPT ![p] = row]
      BY <2>1, <2>4, <3>1
    <3>5. payments \in [Creates -> PaymentRow \cup {None}]
      BY DEF SettlementInv, TypeOK
    <3>6. GivenBack' = [GivenBack EXCEPT ![p] = GivenBack[p] + refunds[r].amount]
      <4>1. GivenBack[p] = payments[p].refunded
        BY <2>3 DEF GivenBack
      <4>2. payments'[p] = row /\ \A c \in Creates \ {p} : payments'[c] = payments[c]
        BY <2>3, <3>4, <3>5
      <4> QED
        BY <2>3, <3>2, <3>3, <4>1, <4>2 DEF GivenBack
    <3>7. Book!Pay(r)
      BY <1>3, <2>1, <2>2, <2>4, <3>6 DEF Book!Pay
    <3> QED
      BY <1>5, <3>7
  <2>5. CASE outcome # "SUCCEEDED"
    <3>1. outcome = "FAILED"
      BY <1>4, <2>5 DEF Outcome
    <3>2. UNCHANGED GivenBack
      BY <2>1, <2>5 DEF GivenBack
    <3>3. Book!Deny(r)
      BY <2>1, <2>2, <3>1, <3>2 DEF Book!Deny
    <3> QED
      BY <1>5, <3>3
  <2> QED
    BY <2>4, <2>5
<1> QED
  BY <1>6, <1>7

\* Every step of payments and webhooks is a step of RefundBook or none.
LEMMA BookStep == SettlementInv /\ [Next]_vars => [Book!BookNext]_Book!bookVars
<1> SUFFICES ASSUME SettlementInv, [Next]_vars
             PROVE  \/ \E g \in RefundRequests :
                          Book!Grant(g) \/ Book!Pay(g) \/ Book!Deny(g)
                    \/ UNCHANGED <<refunds, GivenBack>>
  BY DEF Book!BookNext, Book!bookVars
<1>1. ASSUME UNCHANGED <<payments, refunds>> PROVE UNCHANGED <<refunds, GivenBack>>
  BY <1>1 DEF GivenBack
<1>2. ASSUME NEW r \in Creates, CreatePayment(r) PROVE UNCHANGED <<refunds, GivenBack>>
  <2>1. CASE CountPayments(r)
    BY <1>1, <2>1 DEF CountPayments, Fail, rows
  <2>2. CASE InsertPayment(r)
    BY <2>2, InsertPaymentStutters
  <2> QED
    BY <1>2, <2>1, <2>2 DEF CreatePayment
<1>3. ASSUME NEW r \in Retries, RetryPayment(r) PROVE UNCHANGED <<refunds, GivenBack>>
  <2>1. CASE FindFailedPayment(r)
    BY <1>1, <2>1 DEF FindFailedPayment, Fail, rows
  <2>2. CASE RecheckPayment(r)
    BY <1>1, <2>2 DEF RecheckPayment, Fail, rows
  <2>3. CASE InsertAttempt(r)
    BY <2>3, InsertAttemptStutters
  <2> QED
    BY <1>3, <2>1, <2>2, <2>3 DEF RetryPayment
<1>4. ASSUME NEW r \in RefundRequests, CreateRefund(r)
      PROVE  Book!Grant(r) \/ UNCHANGED <<refunds, GivenBack>>
  <2>1. CASE CheckRefund(r)
    BY <1>1, <2>1 DEF CheckRefund, Fail, rows
  <2>2. CASE InsertRefund(r)
    BY <2>2, InsertRefundGrants
  <2> QED
    BY <1>4, <2>1, <2>2 DEF CreateRefund
<1>5. ASSUME NEW r \in Deliveries, ProcessEvent(r)
      PROVE  \/ UNCHANGED <<refunds, GivenBack>>
             \/ \E g \in RefundRequests : Book!Pay(g) \/ Book!Deny(g)
  <2>1. CASE ReceiveEvent(r) \/ FindReference(r) \/ MarkDuplicateRefund(r)
    BY <1>1, <2>1 DEF ReceiveEvent, FindReference, MarkDuplicateRefund, Fail, rows
  <2>2. CASE SettleAttempt(r)
    BY <2>2, SettleAttemptStutters
  <2>3. CASE SettleRefund(r)
    BY <2>3, SettleRefundSettles
  <2> QED
    BY <1>5, <2>1, <2>2, <2>3 DEF ProcessEvent
<1>6. ASSUME NEW r \in Requests, Interrupt(r) PROVE UNCHANGED <<refunds, GivenBack>>
  BY <1>1, <1>6 DEF Interrupt, Fail, rows
<1>7. CASE UNCHANGED vars
  BY <1>1, <1>7 DEF vars, rows
<1> QED
  BY <1>2, <1>3, <1>4, <1>5, <1>6, <1>7 DEF Next, Step

\* Payments and webhooks do to refunds what RefundBook allows: each is granted
\* once, then paid or denied once, and paying it adds its amount once.
THEOREM KeepsTheRefundBook == Spec => ImplementsRefundBook
<1>1. Init => Book!BookInit
  BY DEF Init, Book!BookInit, GivenBack
<1> QED
  BY <1>1, BookStep, SettlementInvariant, PTL
     DEF Spec, ImplementsRefundBook, Book!BookSpec

----------------------------------------------------------------------------
\* What refunds add up to, by the steps of RefundBook.

Amounts == [r \in RefundRequests |-> refunds[r].amount]

\* The refunds of p that have been paid.
PaidBack(p) ==
    {r \in RefundRequests : /\ refunds[r] # None /\ refunds[r].payment = p
                            /\ refunds[r].status = "SUCCEEDED"}

\* Only finitely many refunds have been made, and what payments have given
\* back is the sum of those that were paid.
RefundsAddUp ==
    /\ IsFiniteSet({r \in RefundRequests : refunds[r] # None})
    /\ \A p \in Creates : GivenBack[p] = SumOver(Amounts, PaidBack(p))

\* The sum in RefundedIsSum is the one of Sums.
LEMMA AmountsSum ==
    ASSUME TypeOK, NEW S \in SUBSET RefundRequests, IsFiniteSet(S)
    PROVE  MapThenSumSet(LAMBDA r : refunds[r].amount, S) = SumOver(Amounts, S)
<1>1. PICK h : AddsUp(h, Amounts, S)
  BY SumExists
<1>2. \A s \in SUBSET S : s # {} => Amounts[AnyOf(s)] = refunds[AnyOf(s)].amount
  BY AnyOfIn DEF Amounts
<1>3. h = [s \in SUBSET S |->
             IF s = {} THEN 0 ELSE refunds[AnyOf(s)].amount + h[s \ {AnyOf(s)}]]
  <2>1. h = [s \in SUBSET S |-> h[s]]
    BY <1>1 DEF AddsUp
  <2>2. \A s \in SUBSET S :
           h[s] = IF s = {} THEN 0 ELSE refunds[AnyOf(s)].amount + h[s \ {AnyOf(s)}]
    BY <1>1, <1>2, AddsUpAt
  <2> QED
    BY <2>1, <2>2
<1>4. PICK k :
        /\ k = [s \in SUBSET S |->
                  IF s = {} THEN 0 ELSE refunds[AnyOf(s)].amount + k[s \ {AnyOf(s)}]]
        /\ MapThenSumSet(LAMBDA r : refunds[r].amount, S) = k[S]
  BY <1>3 DEF MapThenSumSet, MapThenFoldSet, AnyOf
<1>5. AddsUp(k, Amounts, S)
  <2>1. k = [s \in SUBSET S |-> k[s]]
    BY <1>4
  <2>2. \A s \in SUBSET S :
           k[s] = IF s = {} THEN 0 ELSE refunds[AnyOf(s)].amount + k[s \ {AnyOf(s)}]
    <3> HIDE DEF AnyOf
    <3> QED
      BY <1>4
  <2>3. \A s \in SUBSET S :
           k[s] = IF s = {} THEN 0 ELSE Amounts[AnyOf(s)] + k[s \ {AnyOf(s)}]
    BY <1>2, <2>2
  <2> QED
    BY <2>1, <2>3 DEF AddsUp
<1> QED
  BY <1>4, <1>5, SumOfAddsUp

LEMMA AddingUpIsSum ==
    ASSUME TypeOK, RefundsAddUp
    PROVE  RefundedIsSum
<1> SUFFICES ASSUME NEW p \in Inserted(payments)
             PROVE  payments[p].refunded =
                       MapThenSumSet(LAMBDA r : refunds[r].amount, Succeeded(p))
  BY DEF RefundedIsSum
<1>1. Succeeded(p) = PaidBack(p) /\ PaidBack(p) \in SUBSET RefundRequests
  BY InsertedFacts DEF Succeeded, PaidBack
<1>2. IsFiniteSet(PaidBack(p))
  <2>1. PaidBack(p) \in SUBSET {r \in RefundRequests : refunds[r] # None}
    BY DEF PaidBack
  <2> QED
    BY <2>1, FS_Subset DEF RefundsAddUp
<1>3. payments[p].refunded = SumOver(Amounts, PaidBack(p))
  BY RowTypes DEF RefundsAddUp, GivenBack
<1> QED
  BY <1>1, <1>2, <1>3, AmountsSum

LEMMA NoRefundsAddUp == Init => RefundsAddUp
<1> SUFFICES ASSUME Init PROVE RefundsAddUp
  OBVIOUS
<1>1. {r \in RefundRequests : refunds[r] # None} = {}
  BY DEF Init
<1>2. \A p : PaidBack(p) = {}
  BY <1>1 DEF PaidBack
<1>3. \A p \in Creates : GivenBack[p] = 0
  BY DEF Init, GivenBack
<1> QED
  BY <1>1, <1>2, <1>3, FS_EmptySet, SumEmpty DEF RefundsAddUp

\* The sums of the refunds that are paid when nothing about them changes.
LEMMA SumsKept ==
    ASSUME RefundsAddUp, NEW p \in Creates, TypeOK, PaidBack(p)' = PaidBack(p),
           \A r \in PaidBack(p) : refunds'[r].amount = refunds[r].amount
    PROVE  SumOver(Amounts', PaidBack(p)') = GivenBack[p]
<1>1. PaidBack(p) \in SUBSET {r \in RefundRequests : refunds[r] # None}
  BY DEF PaidBack
<1>2. IsFiniteSet(PaidBack(p))
  BY <1>1, FS_Subset DEF RefundsAddUp
<1>3. \A r \in PaidBack(p) : Amounts'[r] = Amounts[r]
  BY <1>1 DEF Amounts
<1>4. SumOver(Amounts', PaidBack(p)) = SumOver(Amounts, PaidBack(p))
  BY <1>2, <1>3, SumSame
<1> QED
  BY <1>4 DEF RefundsAddUp

LEMMA GrantAddsUp ==
    ASSUME TypeOK, RefundsAddUp, NEW g \in RefundRequests, Book!Grant(g)
    PROVE  RefundsAddUp'
<1>1. PICK row :
        /\ row.status = "PENDING" /\ refunds' = [refunds EXCEPT ![g] = row]
        /\ refunds[g] = None /\ UNCHANGED GivenBack
  BY DEF Book!Grant
<1>2. /\ refunds'[g] = row
      /\ \A r \in RefundRequests \ {g} : refunds'[r] = refunds[r]
  BY <1>1 DEF TypeOK
<1>3. IsFiniteSet({r \in RefundRequests : refunds[r] # None})'
  <2>1. {r \in RefundRequests : refunds'[r] # None}
            \in SUBSET ({r \in RefundRequests : refunds[r] # None} \cup {g})
    BY <1>2
  <2>2. IsFiniteSet({r \in RefundRequests : refunds[r] # None} \cup {g})
    BY FS_AddElement DEF RefundsAddUp
  <2>3. IsFiniteSet({r \in RefundRequests : refunds'[r] # None})
    BY <2>1, <2>2, FS_Subset
  <2> QED
    BY <2>3
<1>4. ASSUME NEW p \in Creates PROVE GivenBack'[p] = SumOver(Amounts', PaidBack(p)')
  <2>1. PaidBack(p)' = PaidBack(p) /\ g \notin PaidBack(p)
    BY <1>1, <1>2 DEF PaidBack
  <2>2. \A r \in PaidBack(p) : refunds'[r].amount = refunds[r].amount
    BY <1>2, <2>1 DEF PaidBack
  <2> QED
    BY <1>1, <2>1, <2>2, SumsKept
<1> QED
  BY <1>3, <1>4 DEF RefundsAddUp

LEMMA DenyAddsUp ==
    ASSUME TypeOK, RefundsAddUp, NEW g \in RefundRequests, Book!Deny(g)
    PROVE  RefundsAddUp'
<1>1. /\ refunds' = [refunds EXCEPT ![g].status = "FAILED"] /\ UNCHANGED GivenBack
      /\ refunds[g] # None /\ refunds[g].status = "PENDING"
  BY DEF Book!Deny
<1>2. /\ refunds'[g].status = "FAILED"
      /\ \A r \in RefundRequests \ {g} : refunds'[r] = refunds[r]
  BY <1>1 DEF TypeOK, RefundRow
<1>3. IsFiniteSet({r \in RefundRequests : refunds[r] # None})'
  <2>1. {r \in RefundRequests : refunds'[r] # None}
            \in SUBSET {r \in RefundRequests : refunds[r] # None}
    BY <1>1, <1>2
  <2>2. IsFiniteSet({r \in RefundRequests : refunds'[r] # None})
    BY <2>1, FS_Subset DEF RefundsAddUp
  <2> QED
    BY <2>2
<1>4. ASSUME NEW p \in Creates PROVE GivenBack'[p] = SumOver(Amounts', PaidBack(p)')
  <2>1. PaidBack(p)' = PaidBack(p) /\ g \notin PaidBack(p)
    BY <1>1, <1>2 DEF PaidBack
  <2>2. \A r \in PaidBack(p) : refunds'[r].amount = refunds[r].amount
    BY <1>2, <2>1 DEF PaidBack
  <2> QED
    BY <1>1, <2>1, <2>2, SumsKept
<1> QED
  BY <1>3, <1>4 DEF RefundsAddUp

LEMMA PayAddsUp ==
    ASSUME TypeOK, RefundsAddUp, NEW g \in RefundRequests, Book!Pay(g)
    PROVE  RefundsAddUp'
<1>0. PICK q : q = refunds[g].payment
  OBVIOUS
<1>1. /\ refunds' = [refunds EXCEPT ![g].status = "SUCCEEDED"]
      /\ refunds[g] # None /\ refunds[g].status = "PENDING"
      /\ GivenBack' = [GivenBack EXCEPT ![q] = GivenBack[q] + refunds[g].amount]
  BY <1>0 DEF Book!Pay
<1>2. refunds[g] \in RefundRow
  BY <1>1 DEF TypeOK
<1>3. /\ refunds'[g] = [refunds[g] EXCEPT !.status = "SUCCEEDED"]
      /\ \A r \in RefundRequests \ {g} : refunds'[r] = refunds[r]
  BY <1>1 DEF TypeOK
<1>4. /\ refunds'[g].status = "SUCCEEDED" /\ refunds'[g].payment = q
      /\ refunds'[g].amount = refunds[g].amount /\ refunds'[g] # None
  <2>1. refunds'[g] \in RefundRow
    BY <1>2, <1>3 DEF RefundRow
  <2> QED
    BY <1>0, <1>2, <1>3, <2>1, NoneAssumption DEF RefundRow
<1>5. IsFiniteSet({r \in RefundRequests : refunds[r] # None})'
  <2>1. {r \in RefundRequests : refunds'[r] # None}
            \in SUBSET {r \in RefundRequests : refunds[r] # None}
    BY <1>1, <1>3
  <2>2. IsFiniteSet({r \in RefundRequests : refunds'[r] # None})
    BY <2>1, FS_Subset DEF RefundsAddUp
  <2> QED
    BY <2>2
<1>6. ASSUME NEW p \in Creates, p # q
      PROVE  GivenBack'[p] = SumOver(Amounts', PaidBack(p)')
  <2>1. PaidBack(p)' = PaidBack(p)
    BY <1>1, <1>0, <1>3, <1>4, <1>6 DEF PaidBack
  <2>2. \A r \in PaidBack(p) : refunds'[r].amount = refunds[r].amount
    BY <1>3, <1>4 DEF PaidBack
  <2>3. GivenBack'[p] = GivenBack[p]
    BY <1>1, <1>6 DEF GivenBack
  <2> QED
    BY <2>1, <2>2, <2>3, SumsKept
<1>7. ASSUME q \in Creates PROVE GivenBack'[q] = SumOver(Amounts', PaidBack(q)')
  <2>1. PICK S : S = PaidBack(q)
    OBVIOUS
  <2>2. PaidBack(q)' = S \cup {g} /\ g \notin S
    BY <1>0, <1>1, <1>3, <1>4, <2>1 DEF PaidBack
  <2>3. S \in SUBSET {r \in RefundRequests : refunds[r] # None}
    BY <2>1 DEF PaidBack
  <2>4. IsFiniteSet(S)
    BY <2>3, FS_Subset DEF RefundsAddUp
  <2>5. \A r \in S \cup {g} : Amounts'[r] = refunds[r].amount /\ refunds[r].amount \in Int
    <3>1. \A r \in S \cup {g} : r \in RefundRequests /\ refunds[r] \in RefundRow
      BY <1>2, <2>3 DEF TypeOK
    <3> QED
      BY <1>3, <1>4, <3>1, TotalAssumption DEF Amounts, RefundRow
  <2>6. SumOver(Amounts', S \cup {g}) = SumOver(Amounts', S) + refunds[g].amount
    BY <2>2, <2>4, <2>5, SumAdd
  <2>7. \A r \in S : Amounts'[r] = Amounts[r]
    BY <2>3, <2>5 DEF Amounts
  <2>8. SumOver(Amounts', S) = SumOver(Amounts, S)
    BY <2>4, <2>7, SumSame
  <2>9. SumOver(Amounts, S) = GivenBack[q]
    BY <1>7, <2>1 DEF RefundsAddUp
  <2>10. GivenBack'[q] = GivenBack[q] + refunds[g].amount
    BY <1>1, <1>7 DEF GivenBack
  <2> QED
    BY <2>2, <2>6, <2>8, <2>9, <2>10
<1> QED
  BY <1>5, <1>6, <1>7 DEF RefundsAddUp

\* What every payment says it has given back is the sum of its refunds that
\* succeeded, whatever events arrive, in whatever order and however often.
THEOREM RefundsAreSummed == Spec => []RefundedIsSum
<1>1. SettlementInv => TypeOK
  BY DEF SettlementInv
<1>2. TypeOK /\ RefundsAddUp /\ [Book!BookNext]_Book!bookVars => RefundsAddUp'
  <2> SUFFICES ASSUME TypeOK, RefundsAddUp, [Book!BookNext]_Book!bookVars
               PROVE  RefundsAddUp'
    OBVIOUS
  <2>1. CASE UNCHANGED Book!bookVars
    BY <2>1 DEF Book!bookVars, RefundsAddUp, Amounts, PaidBack
  <2>2. CASE Book!BookNext
    BY <2>2, GrantAddsUp, DenyAddsUp, PayAddsUp DEF Book!BookNext
  <2> QED
    BY <2>1, <2>2
<1>3. TypeOK /\ RefundsAddUp => RefundedIsSum
  BY AddingUpIsSum
<1>4. Init => RefundsAddUp
  BY NoRefundsAddUp
<1> QED
  BY <1>1, <1>2, <1>3, <1>4, BookStep, SettlementInvariant, PTL DEF Spec

----------------------------------------------------------------------------
\* What refunds leave of a payment.

LEMMA FitTypes ==
    ASSUME TypeOK, NEW p \in Creates
    PROVE  /\ GivenBack[p] \in Nat /\ PaidIn(p) \in 0..Total
           /\ payments[p] # None => /\ GivenBack[p] = payments[p].refunded
                                    /\ PaidIn(p) = payments[p].paid
BY TotalAssumption DEF TypeOK, GivenBack, PaidIn, PaymentRow

\* A step that opens no refund and gives nothing back, whatever it is paid.
LEMMA StaysFit ==
    ASSUME TypeOK, TypeOK', NEW p \in Creates, Fits(p),
           UNCHANGED <<refunds, GivenBack>>, PaidIn(p)' >= PaidIn(p),
           \A r \in RefundRequests :
               pc'[r] = "checked" => pc[r] = "checked" /\ work'[r] = work[r]
    PROVE  Fits(p)'
<1>1. /\ GivenBack'[p] = GivenBack[p] /\ GivenBack[p] \in Nat
      /\ PaidIn(p) \in Nat /\ PaidIn(p)' \in Nat
  <2>1. GivenBack[p] \in Nat /\ PaidIn(p) \in Nat
    BY FitTypes, TotalAssumption
  <2>2. payments' \in [Creates -> PaymentRow \cup {None}]
    BY DEF TypeOK
  <2>3. PaidIn(p)' \in Nat
    BY <2>2, TotalAssumption DEF PaidIn, PaymentRow
  <2> QED
    BY <2>1, <2>3
<1>2. ASSUME NEW r \in OpenRefunds(p)'
      PROVE  r \in OpenRefunds(p) /\ AmountOf(r)' = AmountOf(r)
  BY <1>2 DEF OpenRefunds, AmountOf
<1>3. \A r \in OpenRefunds(p) : AmountOf(r) \in Nat
  BY Sorts, TotalAssumption DEF OpenRefunds, AmountOf, TypeOK, Work, RefundRow
<1>4. GivenBack'[p] <= PaidIn(p)'
  BY <1>1 DEF Fits
<1>5. ASSUME NEW r \in OpenRefunds(p)'
      PROVE  GivenBack'[p] + AmountOf(r)' <= PaidIn(p)'
  <2>1. GivenBack[p] + AmountOf(r) <= PaidIn(p) /\ AmountOf(r) \in Nat
    BY <1>2, <1>3, <1>5 DEF Fits
  <2> QED
    BY <1>1, <1>2, <1>5, <2>1
<1> QED
  BY <1>4, <1>5 DEF Fits

\* A step that writes neither payments nor refunds and checks no refund.
LEMMA QuietFits ==
    ASSUME TypeOK, TypeOK', NEW p \in Creates, Fits(p),
           UNCHANGED <<payments, refunds>>,
           \A r \in RefundRequests :
               pc'[r] = "checked" => pc[r] = "checked" /\ work'[r] = work[r]
    PROVE  Fits(p)'
<1>1. UNCHANGED GivenBack /\ PaidIn(p)' = PaidIn(p)
  BY DEF GivenBack, PaidIn
<1>2. PaidIn(p) \in Nat
  BY FitTypes, TotalAssumption
<1> QED
  BY <1>1, <1>2, StaysFit

\* A request that fails, and one that goes on and is not to refund.
LEMMA FailFits ==
    ASSUME TypeOK, TypeOK', NEW p \in Creates, Fits(p),
           NEW q \in Requests, NEW a, Fail(q, a)
    PROVE  Fits(p)'
<1>1. \A r \in RefundRequests :
          pc'[r] = "checked" => pc[r] = "checked" /\ work'[r] = work[r]
  BY Sorts DEF Fail, Finish, TypeOK
<1> QED
  BY <1>1, QuietFits DEF Fail, rows

LEMMA OthersFit ==
    ASSUME TypeOK, TypeOK', NEW p \in Creates, Fits(p),
           NEW q \in Requests \ RefundRequests,
           UNCHANGED <<payments, refunds>>,
           \/ \E a : Finish(q, a)
           \/ \E place, w : Goto(q, place, w)
    PROVE  Fits(p)'
<1>1. \A r \in RefundRequests : pc'[r] = pc[r] /\ work'[r] = work[r]
  BY Sorts DEF Finish, Goto, TypeOK
<1> QED
  BY <1>1, QuietFits

\* A payment whose row is written is paid no less than before.
LEMMA PaidGrows ==
    ASSUME TypeOK, NEW p \in Creates, NEW q \in Creates, NEW row \in PaymentRow,
           payments' = [payments EXCEPT ![q] = row],
           payments[q] # None => row.paid >= payments[q].paid
    PROVE  PaidIn(p)' >= PaidIn(p)
<1>1. row # None /\ row.paid \in Nat
  BY NoneAssumption, TotalAssumption DEF PaymentRow
<1>2. PaidIn(p) \in Nat
  BY FitTypes, TotalAssumption
<1>3. CASE p = q
  <2>1. payments'[p] = row
    BY <1>3 DEF TypeOK
  <2>2. PaidIn(p)' = row.paid
    BY <1>1, <2>1 DEF PaidIn
  <2> QED
    BY <1>1, <1>2, <1>3, <2>2 DEF PaidIn
<1>4. CASE p # q
  BY <1>2, <1>4 DEF PaidIn, TypeOK
<1> QED
  BY <1>3, <1>4

LEMMA InsertPaymentPays ==
    ASSUME SettlementInv, NEW r \in Creates, InsertPayment(r), NEW p \in Creates
    PROVE  PaidIn(p)' >= PaidIn(p)
<1>1. PICK row : row = [status |-> "PENDING", paid |-> 0, refunded |-> 0]
  OBVIOUS
<1>2. row \in PaymentRow
  BY <1>1, TotalAssumption DEF PaymentRow, PaymentStatuses
<1>3. payments' = [payments EXCEPT ![r] = row] /\ pc[r] = "checked"
  BY <1>1 DEF InsertPayment
<1>4. payments[r] = None
  BY <1>3 DEF SettlementInv, RequestsSound
<1> QED
  BY <1>2, <1>3, <1>4, PaidGrows DEF SettlementInv

LEMMA InsertAttemptPays ==
    ASSUME SettlementInv, NEW r \in Retries, InsertAttempt(r), NEW p \in Creates
    PROVE  PaidIn(p)' >= PaidIn(p)
<1>1. PICK q : q = work[r].payment
  OBVIOUS
<1>2. q \in Creates /\ payments[q] \in PaymentRow
  BY <1>1, RowTypes DEF InsertAttempt, SettlementInv, RequestsSound
<1>3. PICK row : row = [payments[q] EXCEPT !.status = "PENDING"]
  OBVIOUS
<1>4. row \in PaymentRow /\ row.paid = payments[q].paid /\ row.paid \in Nat
  BY <1>2, <1>3, TotalAssumption DEF PaymentRow, PaymentStatuses
<1>5. UNCHANGED payments \/ payments' = [payments EXCEPT ![q] = row]
  BY <1>1, <1>3 DEF InsertAttempt, Fail, rows
<1>6. CASE UNCHANGED payments
  <2>1. PaidIn(p)' = PaidIn(p) /\ PaidIn(p) \in Nat
    BY <1>6, FitTypes, TotalAssumption DEF PaidIn, SettlementInv
  <2> QED
    BY <2>1
<1>7. CASE payments' = [payments EXCEPT ![q] = row]
  <2>1. row.paid >= payments[q].paid
    BY <1>4
  <2> QED
    BY <1>2, <1>4, <1>7, <2>1, PaidGrows DEF SettlementInv
<1> QED
  BY <1>5, <1>6, <1>7

LEMMA SettleAttemptPays ==
    ASSUME SettlementInv, NEW d \in Deliveries, SettleAttempt(d), NEW p \in Creates
    PROVE  PaidIn(p)' >= PaidIn(p)
<1>1. PICK a : a = events[work[d].event].ref
  OBVIOUS
<1>2. PICK q : q = attempts[a].payment
  OBVIOUS
<1>3. PICK row : row = Settled(payments[q], Outcome(events[work[d].event].type))
  OBVIOUS
<1>4. /\ a \in Attempts /\ pc[d] = "open"
      /\ payments' = [payments EXCEPT ![q] = row]
  BY <1>1, <1>2, <1>3 DEF SettleAttempt
<1>5. q \in Creates /\ payments[q] \in PaymentRow
  <2>1. work[d].event \in Inserted(events) /\ a # None
    BY <1>1, <1>4 DEF SettlementInv, DeliveriesSound
  <2>2. a \in Inserted(attempts)
    BY <1>1, <1>4, <2>1, RowTypes, Sorts DEF SettlementInv, RowsSound
  <2> QED
    BY <1>2, <2>2, RowTypes DEF SettlementInv, RowsSound
<1>6. row \in PaymentRow /\ row.paid >= payments[q].paid
  <2>1. \/ row = [payments[q] EXCEPT !.status = "PAID", !.paid = Total]
        \/ row = [payments[q] EXCEPT !.status = "FAILED"]
    BY <1>3 DEF Settled
  <2>2. row \in PaymentRow
    <3>1. Total \in 0..Total
      BY TotalAssumption
    <3> QED
      BY <1>5, <2>1, <3>1 DEF PaymentRow, PaymentStatuses
  <2>3. row.paid = Total \/ row.paid = payments[q].paid
    BY <1>5, <2>1 DEF PaymentRow
  <2>4. payments[q].paid \in 0..Total
    BY <1>5 DEF PaymentRow
  <2> QED
    BY <2>2, <2>3, <2>4, TotalAssumption
<1> QED
  BY <1>4, <1>5, <1>6, PaidGrows DEF SettlementInv

\* A refund that is checked fits, by the check.
LEMMA CheckRefundFits ==
    ASSUME SettlementInv, TypeOK', NEW r \in RefundRequests, CheckRefund(r),
           NEW p \in Creates, Fits(p)
    PROVE  Fits(p)'
<1>1. r \in Requests /\ TypeOK
  BY Sorts DEF SettlementInv
<1>2. PICK q \in Inserted(payments), amount \in 0..Total :
          \/ /\ Refundable(q, amount)
             /\ Goto(r, "checked", [NoWork EXCEPT !.payment = q, !.amount = amount])
             /\ UNCHANGED rows
          \/ Fail(r, "4xx")
  BY DEF CheckRefund
<1>3. CASE Fail(r, "4xx")
  BY <1>1, <1>3, FailFits
<1>4. CASE /\ Refundable(q, amount)
           /\ Goto(r, "checked", [NoWork EXCEPT !.payment = q, !.amount = amount])
           /\ UNCHANGED rows
  <2>1. PICK w : w = [NoWork EXCEPT !.payment = q, !.amount = amount]
    OBVIOUS
  <2>2. w.payment = q /\ w.amount = amount
    BY <2>1 DEF NoWork
  <2>3. work'[r] = w /\ \A s \in RefundRequests \ {r} : pc'[s] = pc[s] /\ work'[s] = work[s]
    BY <1>1, <1>4, <2>1, Sorts DEF Goto, TypeOK
  <2>4. UNCHANGED <<payments, refunds>> /\ refunds[r] = None
    BY <1>4, <1>1 DEF rows, CheckRefund, SettlementInv, RequestsSound
  <2>5. GivenBack' = GivenBack /\ PaidIn(p)' = PaidIn(p)
    BY <2>4 DEF GivenBack, PaidIn
  <2>6. ASSUME NEW s \in OpenRefunds(p)', s # r
        PROVE  s \in OpenRefunds(p) /\ AmountOf(s)' = AmountOf(s)
    BY <2>3, <2>4, <2>6 DEF OpenRefunds, AmountOf
  <2>7. ASSUME r \in OpenRefunds(p)' PROVE p = q /\ AmountOf(r)' = amount
    BY <2>2, <2>3, <2>4, <2>7 DEF OpenRefunds, AmountOf
  <2>8. p = q => amount <= PaidIn(p) - GivenBack[p]
    BY <1>1, <1>4, FitTypes, RowTypes DEF Refundable
  <2>9. /\ GivenBack[p] \in Nat /\ PaidIn(p) \in Nat /\ amount \in Nat
    BY <1>1, FitTypes, TotalAssumption
  <2>10. ASSUME NEW s \in OpenRefunds(p)' PROVE GivenBack[p] + AmountOf(s)' <= PaidIn(p)
    <3>1. CASE s = r
      BY <2>7, <2>8, <2>9, <2>10, <3>1
    <3>2. CASE s # r
      BY <2>6, <2>10, <3>2 DEF Fits
    <3> QED
      BY <3>1, <3>2
  <2> QED
    BY <2>5, <2>10 DEF Fits
<1> QED
  BY <1>2, <1>3, <1>4

\* A refund that is inserted has the amount that was checked.
LEMMA InsertRefundFits ==
    ASSUME SettlementInv, TypeOK', NEW r \in RefundRequests, InsertRefund(r),
           NEW p \in Creates, Fits(p)
    PROVE  Fits(p)'
<1>1. PICK row : row = [payment |-> work[r].payment, amount |-> work[r].amount,
                        status |-> "PENDING"]
  OBVIOUS
<1>2. /\ refunds' = [refunds EXCEPT ![r] = row] /\ pc[r] = "checked"
      /\ UNCHANGED <<payments, work>> /\ pc' = [pc EXCEPT ![r] = "done"]
  BY <1>1 DEF InsertRefund, Finish
<1>3. /\ refunds \in [RefundRequests -> RefundRow \cup {None}]
      /\ pc \in [Requests -> Places] /\ r \in Requests
  BY Sorts DEF SettlementInv, TypeOK
<1>4. row.payment = work[r].payment /\ row.amount = work[r].amount
  BY <1>1
<1>5. refunds'[r] = row /\ \A s \in RefundRequests \ {r} : refunds'[s] = refunds[s]
  BY <1>2, <1>3
<1>6. pc'[r] = "done" /\ \A s \in RefundRequests \ {r} : pc'[s] = pc[s]
  BY <1>2, <1>3, Sorts
<1>7. row # None
  <2>1. work[r].payment \in Inserted(payments) /\ work[r].amount > 0 /\ work[r] \in Work
    BY <1>2, <1>3 DEF SettlementInv, RequestsSound, TypeOK
  <2>2. work[r].payment \in Creates /\ work[r].amount \in 1..Total
    BY <2>1, RowTypes, TotalAssumption DEF SettlementInv, Work
  <2>3. row \in RefundRow
    BY <1>1, <2>2 DEF RefundRow
  <2> QED
    BY <2>3, NoneAssumption
<1>8. refunds[r] = None
  BY <1>2 DEF SettlementInv, RequestsSound
<1>9. GivenBack' = GivenBack /\ PaidIn(p)' = PaidIn(p)
  BY <1>2 DEF GivenBack, PaidIn
<1>10. ASSUME NEW s \in OpenRefunds(p)' PROVE s \in OpenRefunds(p) /\ AmountOf(s)' = AmountOf(s)
  <2>1. CASE s = r
    BY <1>2, <1>4, <1>5, <1>6, <1>7, <1>8, <1>10, <2>1 DEF OpenRefunds, AmountOf
  <2>2. CASE s # r
    BY <1>2, <1>5, <1>6, <1>10, <2>2 DEF OpenRefunds, AmountOf
  <2> QED
    BY <2>1, <2>2
<1> QED
  BY <1>9, <1>10 DEF Fits

\* A refund's outcome does not change what its payment was paid.
LEMMA SettleRefundPays ==
    ASSUME SettlementInv, NEW d \in Deliveries, SettleRefund(d), NEW p \in Creates
    PROVE  PaidIn(p)' = PaidIn(p)
<1>1. PICK e : e = work[d].event
  OBVIOUS
<1>2. PICK r : r = events[e].ref
  OBVIOUS
<1>3. PICK q : q = refunds[r].payment
  OBVIOUS
<1>4. PICK row : row = Refunded(payments[q], refunds[r].amount)
  OBVIOUS
<1>5. pc[d] = "open" /\ r \in RefundRequests
  BY <1>1, <1>2 DEF SettleRefund
<1>6. UNCHANGED payments \/ payments' = [payments EXCEPT ![q] = row]
  BY <1>1, <1>2, <1>3, <1>4 DEF SettleRefund, rows
<1>7. q \in Creates /\ payments[q] \in PaymentRow /\ refunds[r] \in RefundRow
  <2>1. e \in Inserted(events) /\ r # None /\ r \notin Attempts
    BY <1>1, <1>2, <1>5, Sorts DEF SettlementInv, DeliveriesSound
  <2>2. r \in Inserted(refunds)
    BY <1>2, <2>1, RowTypes DEF SettlementInv, RowsSound
  <2> QED
    BY <1>3, <2>2, RowTypes DEF SettlementInv, RowsSound
<1>8. row \in PaymentRow /\ row.paid = payments[q].paid
  <2>1. PICK s \in {"REFUNDED", "PARTIALLY_REFUNDED"} :
            row = [payments[q] EXCEPT
                      !.refunded = payments[q].refunded + refunds[r].amount,
                      !.status = s]
    BY <1>4 DEF Refunded
  <2>2. payments[q].refunded + refunds[r].amount \in Nat
    BY <1>7, TotalAssumption DEF PaymentRow, RefundRow
  <2> QED
    BY <1>7, <2>1, <2>2 DEF PaymentRow, PaymentStatuses
<1>9. row # None /\ payments[q] # None
  BY <1>7, <1>8, NoneAssumption
<1>10. CASE payments' = [payments EXCEPT ![q] = row]
  <2>1. payments'[q] = row /\ \A c \in Creates \ {q} : payments'[c] = payments[c]
    BY <1>7, <1>10 DEF SettlementInv, TypeOK
  <2> QED
    BY <1>8, <1>9, <2>1 DEF PaidIn
<1>11. CASE UNCHANGED payments
  BY <1>11 DEF PaidIn
<1> QED
  BY <1>6, <1>10, <1>11

\* A refund that ends is open no more, and the others are as they were.
LEMMA SettledCloses ==
    ASSUME SettlementInv, NEW g \in RefundRequests, NEW s \in {"SUCCEEDED", "FAILED"},
           refunds' = [refunds EXCEPT ![g].status = s],
           refunds[g] # None, refunds[g].status = "PENDING",
           \A r \in RefundRequests : pc'[r] = pc[r] /\ work'[r] = work[r],
           NEW p \in Creates
    PROVE  \A r \in OpenRefunds(p)' : /\ r # g /\ r \in OpenRefunds(p)
                                      /\ AmountOf(r)' = AmountOf(r)
<1>1. refunds \in [RefundRequests -> RefundRow \cup {None}]
  BY DEF SettlementInv, TypeOK
<1>2. refunds[g] \in RefundRow /\ pc[g] = "done"
  BY <1>1 DEF SettlementInv, RequestsSound
<1>3. PICK row : row = [refunds[g] EXCEPT !.status = s]
  OBVIOUS
<1>4. row \in RefundRow /\ row.status = s
  BY <1>2, <1>3 DEF RefundRow
<1>5. row # None
  BY <1>4, NoneAssumption
<1>6. refunds'[g] = row /\ \A r \in RefundRequests \ {g} : refunds'[r] = refunds[r]
  BY <1>1, <1>3
<1>7. g \notin OpenRefunds(p)'
  BY <1>2, <1>4, <1>5, <1>6 DEF OpenRefunds
<1> QED
  BY <1>6, <1>7 DEF OpenRefunds, AmountOf

\* A refund that is settled was open; paying it takes its amount, once.
LEMMA SettleRefundFits ==
    ASSUME SettlementInv, TypeOK', NEW d \in Deliveries, SettleRefund(d),
           NEW p \in Creates, Alone(p), Fits(p)
    PROVE  Fits(p)'
<1>1. TypeOK /\ d \in Requests
  BY Sorts DEF SettlementInv
<1>2. \A s \in RefundRequests : pc'[s] = pc[s] /\ work'[s] = work[s]
  BY <1>1, Sorts DEF SettleRefund, Finish, Goto, TypeOK
<1>3. PaidIn(p)' = PaidIn(p) /\ PaidIn(p) \in Nat /\ GivenBack[p] \in Nat
  BY <1>1, SettleRefundPays, FitTypes, TotalAssumption
<1>4. CASE UNCHANGED <<refunds, GivenBack>>
  BY <1>1, <1>2, <1>3, <1>4, StaysFit
<1>5. ASSUME NEW g \in RefundRequests, Book!Deny(g) PROVE Fits(p)'
  <2>1. \A r \in OpenRefunds(p)' : r \in OpenRefunds(p) /\ AmountOf(r)' = AmountOf(r)
    BY <1>2, <1>5, SettledCloses DEF Book!Deny
  <2>2. GivenBack' = GivenBack
    BY <1>5 DEF Book!Deny
  <2> QED
    BY <1>3, <2>1, <2>2 DEF Fits
<1>6. ASSUME NEW g \in RefundRequests, Book!Pay(g) PROVE Fits(p)'
  <2>1. PICK q : q = refunds[g].payment
    OBVIOUS
  <2>2. PICK amount : amount = refunds[g].amount
    OBVIOUS
  <2>3. /\ refunds[g] # None /\ refunds[g].status = "PENDING"
        /\ refunds' = [refunds EXCEPT ![g].status = "SUCCEEDED"]
        /\ GivenBack' = [GivenBack EXCEPT ![q] = GivenBack[q] + amount]
    BY <1>6, <2>1, <2>2 DEF Book!Pay
  <2>4. \A r \in OpenRefunds(p)' : /\ r # g /\ r \in OpenRefunds(p)
                                   /\ AmountOf(r)' = AmountOf(r)
    BY <1>2, <2>3, SettledCloses
  <2>5. CASE p = q
    <3>1. g \in OpenRefunds(p) /\ AmountOf(g) = amount
      BY <2>1, <2>2, <2>3, <2>5 DEF OpenRefunds, AmountOf
    <3>2. OpenRefunds(p)' = {}
      BY <2>4, <3>1 DEF Alone
    <3>3. GivenBack'[p] = GivenBack[p] + amount
      BY <2>3, <2>5 DEF GivenBack
    <3> QED
      BY <1>3, <3>1, <3>2, <3>3 DEF Fits
  <2>6. CASE p # q
    <3>1. GivenBack'[p] = GivenBack[p]
      BY <2>3, <2>6 DEF GivenBack
    <3> QED
      BY <1>3, <2>4, <3>1 DEF Fits
  <2> QED
    BY <2>5, <2>6
<1> QED
  BY <1>4, <1>5, <1>6, SettleRefundSettles

\* Every step leaves what fits fitting, unless two refunds are open.
LEMMA StepFits ==
    ASSUME SettlementInv, SettlementInv', [Next]_vars,
           NEW p \in Creates, Alone(p), Fits(p)
    PROVE  Fits(p)'
<1>1. TypeOK /\ TypeOK'
  BY DEF SettlementInv
<1>2. ASSUME NEW r \in Creates, CreatePayment(r) PROVE Fits(p)'
  <2>1. r \in Requests \ RefundRequests
    BY Sorts
  <2>2. CASE CountPayments(r)
    BY <1>1, <2>1, <2>2, OthersFit DEF CountPayments, Fail, rows
  <2>3. CASE InsertPayment(r)
    <3>1. \A s \in RefundRequests : pc'[s] = pc[s] /\ work'[s] = work[s]
      BY <1>1, <2>1, <2>3 DEF InsertPayment, Finish, TypeOK
    <3> QED
      BY <1>1, <2>3, <3>1, InsertPaymentStutters, InsertPaymentPays, StaysFit
  <2> QED
    BY <1>2, <2>2, <2>3 DEF CreatePayment
<1>3. ASSUME NEW r \in Retries, RetryPayment(r) PROVE Fits(p)'
  <2>1. r \in Requests \ RefundRequests
    BY Sorts
  <2>2. CASE FindFailedPayment(r)
    BY <1>1, <2>1, <2>2, OthersFit DEF FindFailedPayment, Fail, rows
  <2>3. CASE RecheckPayment(r)
    BY <1>1, <2>1, <2>3, OthersFit DEF RecheckPayment, Fail, rows
  <2>4. CASE InsertAttempt(r)
    <3>1. \A s \in RefundRequests : pc'[s] = pc[s] /\ work'[s] = work[s]
      <4>1. \E a : Finish(r, a)
        BY <2>4 DEF InsertAttempt, Fail
      <4> QED
        BY <1>1, <2>1, <4>1 DEF Finish, TypeOK
    <3> QED
      BY <1>1, <2>4, <3>1, InsertAttemptStutters, InsertAttemptPays, StaysFit
  <2> QED
    BY <1>3, <2>2, <2>3, <2>4 DEF RetryPayment
<1>4. ASSUME NEW r \in RefundRequests, CreateRefund(r) PROVE Fits(p)'
  BY <1>1, <1>4, CheckRefundFits, InsertRefundFits DEF CreateRefund
<1>5. ASSUME NEW r \in Deliveries, ProcessEvent(r) PROVE Fits(p)'
  <2>1. r \in Requests \ RefundRequests
    BY Sorts
  <2>2. CASE ReceiveEvent(r)
    BY <1>1, <2>1, <2>2, OthersFit DEF ReceiveEvent, Fail, rows
  <2>3. CASE FindReference(r)
    BY <1>1, <2>1, <2>3, OthersFit DEF FindReference, rows
  <2>4. CASE MarkDuplicateRefund(r)
    BY <1>1, <2>1, <2>4, OthersFit DEF MarkDuplicateRefund
  <2>5. CASE SettleAttempt(r)
    <3>1. \A s \in RefundRequests : pc'[s] = pc[s] /\ work'[s] = work[s]
      <4>1. Finish(r, "processed")
        BY <2>5 DEF SettleAttempt
      <4> QED
        BY <1>1, <2>1, <4>1 DEF Finish, TypeOK
    <3> QED
      BY <1>1, <2>5, <3>1, SettleAttemptStutters, SettleAttemptPays, StaysFit
  <2>6. CASE SettleRefund(r)
    BY <1>1, <2>6, SettleRefundFits
  <2> QED
    BY <1>5, <2>2, <2>3, <2>4, <2>5, <2>6 DEF ProcessEvent
<1>6. ASSUME NEW r \in Requests, Interrupt(r) PROVE Fits(p)'
  BY <1>1, <1>6, FailFits DEF Interrupt
<1>7. CASE UNCHANGED vars
  BY <1>1, <1>7, QuietFits DEF vars, rows
<1> QED
  BY <1>2, <1>3, <1>4, <1>5, <1>6, <1>7 DEF Next, Step

\* A payment of which two refunds are open is noted.
LEMMA RefundsStayFit ==
    ASSUME SettlementInv, SettlementInv', RefundsFit, [Next]_vars
    PROVE  RefundsFit'
<1>1. ASSUME NEW p \in Creates \ overlapped' PROVE Alone(p)' /\ Fits(p)'
  <2>1. CASE Observe
    <3>1. p \notin overlapped
      BY <1>1, <2>1 DEF Observe
    <3>2. Fits(p)'
      BY <1>1, <3>1, StepFits DEF RefundsFit
    <3>3. Alone(p)'
      BY <1>1, <2>1 DEF Observe, Alone
    <3> QED
      BY <3>2, <3>3
  <2>2. CASE UNCHANGED vars
    <3>1. p \notin overlapped /\ UNCHANGED <<refunds, pc, work>>
      BY <1>1, <2>2 DEF vars, rows
    <3>2. Alone(p)'
      BY <1>1, <3>1 DEF RefundsFit, Alone, OpenRefunds
    <3>3. Fits(p)'
      BY <1>1, <3>1, StepFits DEF RefundsFit
    <3> QED
      BY <3>2, <3>3
  <2> QED
    BY <2>1, <2>2 DEF Next
<1> QED
  BY <1>1 DEF RefundsFit

\* A payment gives back more than was paid only if two of its refunds have been
\* open at once, whatever the gateway reports, how often and in which order.
THEOREM OverRefundsNeedARace == Spec => []OverRefundNeedsRace
<1>1. SettlementInv /\ RefundsFit => OverRefundNeedsRace
  <2> SUFFICES ASSUME SettlementInv, RefundsFit, NEW p \in Inserted(payments) \ overlapped
               PROVE  payments[p].refunded <= payments[p].paid
    BY DEF OverRefundNeedsRace
  <2>1. p \in Creates /\ payments[p] # None
    BY RowTypes DEF SettlementInv
  <2> QED
    BY <2>1, FitTypes DEF SettlementInv, RefundsFit, Fits
<1>2. Init => RefundsFit
  <2> SUFFICES ASSUME Init PROVE RefundsFit
    OBVIOUS
  <2>1. \A p : OpenRefunds(p) = {}
    BY Sorts DEF Init, OpenRefunds
  <2>2. \A p \in Creates : GivenBack[p] = 0 /\ PaidIn(p) = 0
    BY DEF Init, GivenBack, PaidIn
  <2> QED
    BY <2>1, <2>2 DEF RefundsFit, Alone, Fits
<1>3. RefundsFit /\ SettlementInv /\ SettlementInv' /\ [Next]_vars => RefundsFit'
  BY RefundsStayFit
<1> QED
  BY <1>1, <1>2, <1>3, SettlementInvariant, PTL DEF Spec
=============================================================================
