-------------------------- MODULE OnboardingProofs --------------------------
(***************************************************************************)
(* For any number of users, administrators and requests: one account per   *)
(* email address, one vendor per user, one shop per vendor and slug; and a *)
(* decision on a vendor, once confirmed, stands.                           *)
(***************************************************************************)
EXTENDS Onboarding, TLAPS

\* The users who have an account.
Registered == {u \in Users : IsRegistered(u)}

\* The sorts of requests are told apart.
LEMMA Sorts ==
    /\ Registrations \subseteq Requests /\ Applications \subseteq Requests
    /\ Reviews \subseteq Decisions /\ Activations \subseteq Decisions
    /\ Decisions \subseteq Requests /\ Openings \subseteq Requests
    /\ Updates \subseteq Requests
    /\ Reviews \cap (Registrations \cup Applications \cup Activations
                        \cup Openings \cup Updates) = {}
    /\ Registrations \cap (Applications \cup Decisions \cup Openings) = {}
    /\ Applications \cap (Decisions \cup Openings) = {}
    /\ Openings \cap Decisions = {}
BY RequestsAssumption DEF Requests, Decisions

\* VERIFIED and REJECTED are never left again.
LEMMA AllowedFacts ==
    \A t : /\ AllowedFrom(t) \subseteq Verifications
           /\ "VERIFIED" \notin AllowedFrom(t)
           /\ "REJECTED" \notin AllowedFrom(t)
BY DEF AllowedFrom, Verifications

\* A vendor's row has its type.
LEMMA VendorFacts ==
    ASSUME OnboardingInv, NEW v \in Vendors
    PROVE  /\ v \in Applications /\ vendors[v] \in VendorRow /\ vendors[v] # None
           /\ vendors[v].user \in Users /\ vendors[v].user # None
<1>1. v \in Applications /\ vendors[v] \in VendorRow /\ vendors[v] # None
  BY DEF OnboardingInv, TypeOK, Vendors
<1>2. vendors[v].user \in Users
  BY <1>1 DEF VendorRow
<1> QED
  BY <1>1, <1>2, NoneAssumption

\* A request that ends leaves every other request sound when no row goes away.
LEMMA EndSound ==
    ASSUME OnboardingInv, NEW r \in Requests, NEW a, Finish(r, a),
           UNCHANGED locals,
           Vendors \subseteq Vendors',
           Registered \subseteq Registered',
           \A q \in Registrations \ {r} : accounts'[q] = accounts[q],
           \A q \in Applications \ {r} : vendors'[q] # None => vendors[q] # None,
           \A q \in Openings \ {r} : shops'[q] # None => shops[q] # None,
           r \in Reviews /\ a = "200" => found[r] \in Vendors
    PROVE  RequestsSound'
<1>1. \A q \in Requests : /\ pc'[q] = IF q = r THEN "done" ELSE pc[q]
                          /\ answer'[q] = IF q = r THEN a ELSE answer[q]
  BY DEF OnboardingInv, TypeOK, Finish
<1>2. /\ \A q \in Requests : pc'[q] # "done" => pc'[q] = pc[q] /\ q # r
      /\ found' = found /\ from' = from /\ target' = target
  BY <1>1 DEF locals
<1>3. /\ \A q \in Requests : pc'[q] # "done" => answer'[q] = "none"
      /\ \A q \in Registrations : accounts'[q] # None => pc'[q] = "done"
      /\ \A q \in Applications : vendors'[q] # None => pc'[q] = "done"
      /\ \A q \in Openings : shops'[q] # None => pc'[q] = "done"
  BY <1>1, Sorts DEF OnboardingInv, RequestsSound
<1>4. \A q \in Applications : pc'[q] = "insert" => IsRegistered(UserOf[q])'
  BY <1>2, Sorts, RequestsAssumption DEF OnboardingInv, RequestsSound, Registered
<1>5. /\ \A q \in Openings : pc'[q] \in {"find shop", "insert"} => found'[q] \in Vendors'
      /\ \A q \in Decisions : pc'[q] = "write" => found'[q] \in Vendors'
      /\ \A q \in Reviews : pc'[q] = "write" => from'[q] \in AllowedFrom(target'[q])
  BY <1>2, Sorts DEF OnboardingInv, RequestsSound
<1>6. \A q \in Reviews : answer'[q] = "200" => found'[q] \in Vendors'
  BY <1>1, <1>2, Sorts DEF OnboardingInv, RequestsSound
<1> QED
  BY <1>3, <1>4, <1>5, <1>6 DEF RequestsSound

\* Decisions stand while no decided vendor changes its verification and no
\* review is confirmed.
LEMMA DecisionsKept ==
    ASSUME OnboardingInv, UNCHANGED <<found, target>>,
           \A q \in Reviews : answer'[q] = "200" => answer[q] = "200",
           \A v \in Vendors : vendors'[v].verification = vendors[v].verification
    PROVE  OneDecision'
BY DEF OnboardingInv, DecisionsStand, OneDecision, RequestsSound

\* A step that writes no row, moves request r alone and confirms no review.
LEMMA LocalInv ==
    ASSUME OnboardingInv, TypeOK', NEW r \in Requests, UNCHANGED tables,
           pc[r] # "done",
           \A q \in Requests \ {r} :
               /\ pc'[q] = pc[q] /\ answer'[q] = answer[q]
               /\ found'[q] = found[q] /\ from'[q] = from[q]
               /\ target'[q] = target[q],
           pc'[r] # "done" => answer'[r] = "none",
           answer'[r] = "200" => r \notin Reviews,
           r \in Applications /\ pc'[r] = "insert" => IsRegistered(UserOf[r]),
           r \in Openings /\ pc'[r] \in {"find shop", "insert"} =>
               found'[r] \in Vendors,
           r \in Decisions /\ pc'[r] = "write" => found'[r] \in Vendors,
           r \in Reviews /\ pc'[r] = "write" => from'[r] \in AllowedFrom(target'[r])
    PROVE  OnboardingInv'
<1>1. /\ Vendors' = Vendors /\ Shops' = Shops /\ \A u : IsRegistered(u)' = IsRegistered(u)
      /\ vendors' = vendors /\ shops' = shops /\ accounts' = accounts
  BY DEF tables, Vendors, Shops, IsRegistered
<1>2. OneOfEach' /\ ActiveIsVerified'
  BY <1>1 DEF OnboardingInv, OneOfEach, DecisionsStand, ActiveIsVerified
<1>3. OneDecision'
  <2>1. \A q \in Reviews : answer'[q] = "200" =>
           answer[q] = "200" /\ found'[q] = found[q] /\ target'[q] = target[q]
    BY Sorts
  <2> SUFFICES ASSUME NEW q \in Reviews, answer'[q] = "200",
                      target'[q] \in {"VERIFIED", "REJECTED"}
               PROVE  /\ vendors'[found'[q]].verification = target'[q]
                      /\ \A s \in Reviews :
                            answer'[s] = "200" /\ found'[s] = found'[q]
                                /\ target'[s] \in {"VERIFIED", "REJECTED"} => s = q
    BY DEF OneDecision
  <2> QED
    BY <1>1, <2>1 DEF OnboardingInv, DecisionsStand, OneDecision
<1>4. RequestsSound'
  <2>1. /\ \A q \in Requests : pc'[q] # "done" => answer'[q] = "none"
        /\ \A q \in Registrations : accounts'[q] # None => pc'[q] = "done"
        /\ \A q \in Applications : vendors'[q] # None => pc'[q] = "done"
        /\ \A q \in Openings : shops'[q] # None => pc'[q] = "done"
    BY <1>1, Sorts DEF OnboardingInv, RequestsSound
  <2>2. \A q \in Applications : pc'[q] = "insert" => IsRegistered(UserOf[q])'
    BY <1>1, Sorts DEF OnboardingInv, RequestsSound
  <2>3. /\ \A q \in Openings : pc'[q] \in {"find shop", "insert"} => found'[q] \in Vendors'
        /\ \A q \in Decisions : pc'[q] = "write" => found'[q] \in Vendors'
        /\ \A q \in Reviews : pc'[q] = "write" => from'[q] \in AllowedFrom(target'[q])
    BY <1>1, Sorts DEF OnboardingInv, RequestsSound
  <2>4. \A q \in Reviews : answer'[q] = "200" => found'[q] \in Vendors'
    BY <1>1, Sorts DEF OnboardingInv, RequestsSound
  <2> QED
    BY <2>1, <2>2, <2>3, <2>4 DEF RequestsSound
<1> QED
  BY <1>2, <1>3, <1>4 DEF OnboardingInv, DecisionsStand

\* A request that is refused or dies.
LEMMA FailInv ==
    ASSUME OnboardingInv, NEW r \in Requests, pc[r] # "done",
           NEW a \in {"403", "404", "409", "5xx"}, Fail(r, a)
    PROVE  OnboardingInv'
<1>1. TypeOK'
  BY DEF OnboardingInv, TypeOK, Fail, Finish, tables, locals
<1>2. \A q \in Requests : /\ pc'[q] = IF q = r THEN "done" ELSE pc[q]
                          /\ answer'[q] = IF q = r THEN a ELSE answer[q]
  BY DEF OnboardingInv, TypeOK, Fail, Finish
<1>3. UNCHANGED <<tables, found, from, target>>
  BY DEF Fail, locals
<1> QED
  BY <1>1, <1>2, <1>3, LocalInv

\* A request that goes on and has read nothing new.
LEMMA GotoInv ==
    ASSUME OnboardingInv, NEW r \in Requests, pc[r] # "done",
           NEW place \in {"insert", "find shop"}, Goto(r, place),
           UNCHANGED <<tables, locals>>, r \notin Decisions,
           r \in Applications => IsRegistered(UserOf[r]),
           r \in Openings => found[r] \in Vendors
    PROVE  OnboardingInv'
<1>1. TypeOK'
  BY DEF OnboardingInv, TypeOK, Goto, tables, locals
<1>2. \A q \in Requests : pc'[q] = IF q = r THEN place ELSE pc[q]
  BY DEF OnboardingInv, TypeOK, Goto
<1>3. answer' = answer /\ answer[r] = "none" /\ UNCHANGED <<tables, found, from, target>>
  BY DEF Goto, locals, OnboardingInv, RequestsSound
<1> QED
  BY <1>1, <1>2, <1>3, LocalInv

----------------------------------------------------------------------------
LEMMA InitInv == Init => OnboardingInv
<1> SUFFICES ASSUME Init PROVE OnboardingInv
  OBVIOUS
<1>1. Vendors = {} /\ Shops = {}
  BY DEF Init, Vendors, Shops
<1>2. TypeOK
  BY DEF Init, TypeOK
<1>3. /\ \A r \in Requests : pc[r] = "new" /\ answer[r] = "none"
      /\ \A r \in Registrations : accounts[r] = None
      /\ \A r \in Applications : vendors[r] = None
      /\ \A r \in Openings : shops[r] = None
  BY DEF Init
<1>4. RequestsSound
  BY <1>3, Sorts DEF RequestsSound
<1>5. OneOfEach /\ DecisionsStand
  BY <1>1, <1>3, Sorts DEF OneOfEach, DecisionsStand, OneDecision, ActiveIsVerified
<1> QED
  BY <1>2, <1>4, <1>5 DEF OnboardingInv

\* The unique index on email lets one registration through.
LEMMA RegisterInv ==
    ASSUME OnboardingInv, NEW r \in Registrations, Register(r)
    PROVE  OnboardingInv'
<1> DEFINE u == UserOf[r]
<1>1. /\ r \in Requests /\ r \notin Decisions /\ r \notin Applications
      /\ r \notin Openings /\ r \notin Reviews /\ u \in Users /\ u # None /\ pc[r] # "done"
  BY Sorts, RequestsAssumption, NoneAssumption DEF Register, FindAccount, InsertAccount
<1>2. CASE Fail(r, "409")
  BY <1>1, <1>2, FailInv
<1>3. CASE FindAccount(r) /\ ~Fail(r, "409")
  BY <1>1, <1>3, GotoInv DEF FindAccount
<1>4. CASE InsertAccount(r) /\ ~Fail(r, "409")
  <2>1. /\ pc[r] = "insert" /\ ~IsRegistered(u)
        /\ accounts' = [accounts EXCEPT ![r] = u] /\ Finish(r, "201")
        /\ UNCHANGED <<vendors, shops, locals>>
    BY <1>4 DEF InsertAccount, EmailFree
  <2>2. accounts[r] = None
    BY <1>1, <2>1 DEF OnboardingInv, RequestsSound
  <2>3. \A q \in Registrations : accounts'[q] = IF q = r THEN u ELSE accounts[q]
    BY <2>1 DEF OnboardingInv, TypeOK
  <2>4. TypeOK'
    BY <1>1, <2>1 DEF OnboardingInv, TypeOK, Finish, locals
  <2>5. Vendors' = Vendors /\ Shops' = Shops
    BY <2>1 DEF Vendors, Shops
  <2>6. \A x : x # None /\ IsRegistered(x) => IsRegistered(x)'
    BY <2>2, <2>3 DEF IsRegistered
  <2>7. OneOfEach'
    <3>1. \A q \in Registrations : accounts[q] # u
      BY <2>1 DEF IsRegistered
    <3>2. \A q, s \in Registrations :
              accounts'[q] # None /\ accounts'[q] = accounts'[s] => q = s
      BY <2>3, <3>1 DEF OnboardingInv, OneOfEach
    <3>3. \A v \in Vendors : vendors[v].user # None
      BY VendorFacts
    <3> QED
      BY <2>1, <2>5, <2>6, <3>2, <3>3 DEF OnboardingInv, OneOfEach
  <2>8. OneDecision'
    <3>1. \A q \in Reviews : answer'[q] = answer[q]
      BY <1>1, <2>1, Sorts DEF OnboardingInv, TypeOK, Finish
    <3> QED
      BY <2>1, <3>1, DecisionsKept DEF locals
  <2>9. ActiveIsVerified'
    BY <2>1, <2>5 DEF OnboardingInv, DecisionsStand, ActiveIsVerified
  <2>10. RequestsSound'
    <3>1. Registered \subseteq Registered'
      BY <2>6, NoneAssumption DEF Registered
    <3>2. /\ UNCHANGED <<vendors, shops>> /\ UNCHANGED locals
          /\ \A q \in Registrations \ {r} : accounts'[q] = accounts[q]
      BY <2>1, <2>3
    <3> HIDE DEF u
    <3> QED
      BY <1>1, <2>1, <2>5, <3>1, <3>2, EndSound
  <2> QED
    BY <2>4, <2>7, <2>8, <2>9, <2>10 DEF OnboardingInv, DecisionsStand
<1> QED
  BY <1>2, <1>3, <1>4 DEF Register


\* The unique index on user_id lets one application of a user through.
LEMMA ApplyInv ==
    ASSUME OnboardingInv, NEW r \in Applications, Apply(r)
    PROVE  OnboardingInv'
<1>1. /\ r \in Requests /\ r \notin Decisions /\ r \notin Openings
      /\ r \notin Reviews /\ UserOf[r] \in Users /\ pc[r] # "done"
  BY Sorts, RequestsAssumption DEF Apply, FindVendor, InsertVendor
<1>2. CASE Fail(r, "409")
  BY <1>1, <1>2, FailInv
<1>3. CASE FindVendor(r) /\ ~Fail(r, "409")
  BY <1>1, <1>3, GotoInv DEF FindVendor
<1>4. CASE InsertVendor(r) /\ ~Fail(r, "409")
  <2> DEFINE row == [user |-> UserOf[r], status |-> "PENDING",
                     verification |-> "PENDING"]
  <2>1. /\ pc[r] = "insert" /\ VendorsOf(UserOf[r]) = {}
        /\ vendors' = [vendors EXCEPT ![r] = row] /\ Finish(r, "201")
        /\ UNCHANGED <<accounts, shops>> /\ UNCHANGED locals
    BY <1>4 DEF InsertVendor
  <2>2. vendors[r] = None /\ IsRegistered(UserOf[r])
    BY <1>1, <2>1 DEF OnboardingInv, RequestsSound
  <2>3. row \in VendorRow /\ row.user = UserOf[r] /\ row.status = "PENDING"
    BY <1>1 DEF VendorRow, VendorStatuses, Verifications
  <2> HIDE DEF row
  <2>4. row # None
    BY <2>3, NoneAssumption
  <2>5. \A q \in Applications : vendors'[q] = IF q = r THEN row ELSE vendors[q]
    BY <2>1 DEF OnboardingInv, TypeOK
  <2>6. Vendors' = Vendors \cup {r} /\ r \notin Vendors /\ Shops' = Shops
    BY <2>1, <2>2, <2>4, <2>5 DEF Vendors, Shops
  <2>7. \A v \in Vendors : vendors'[v] = vendors[v]
    BY <2>5, <2>6 DEF Vendors
  <2>8. TypeOK'
    BY <1>1, <2>1, <2>3 DEF OnboardingInv, TypeOK, Finish, locals
  <2>9. \A x : IsRegistered(x)' = IsRegistered(x)
    BY <2>1 DEF IsRegistered
  <2>10. OneOfEach'
    <3>1. \A v \in Vendors : vendors[v].user # UserOf[r]
      BY <2>1 DEF VendorsOf
    <3>2. \A v, w \in Vendors' : vendors'[v].user = vendors'[w].user => v = w
      BY <2>3, <2>5, <2>6, <2>7, <3>1 DEF OnboardingInv, OneOfEach
    <3>3. \A v \in Vendors' : IsRegistered(vendors[v].user)'
      <4> SUFFICES ASSUME NEW v \in Vendors' PROVE IsRegistered(vendors[v].user)'
        OBVIOUS
      <4>1. CASE v = r
        BY <2>1, <2>2, <2>3, <2>5, <4>1 DEF IsRegistered
      <4>2. CASE v # r
        <5>1. v \in Vendors /\ IsRegistered(vendors[v].user)
          BY <2>6, <4>2 DEF OnboardingInv, OneOfEach
        <5> QED
          BY <2>1, <2>7, <5>1 DEF IsRegistered
      <4> QED
        BY <4>1, <4>2
    <3> QED
      BY <2>1, <2>6, <3>2, <3>3 DEF OnboardingInv, OneOfEach
  <2>11. OneDecision'
    <3>1. \A q \in Reviews : answer'[q] = answer[q]
      BY <1>1, <2>1, Sorts DEF OnboardingInv, TypeOK, Finish
    <3>2. UNCHANGED <<found, target>>
      BY <2>1 DEF locals
    <3> QED
      BY <2>7, <3>1, <3>2, DecisionsKept
  <2>12. ActiveIsVerified'
    BY <1>1, <2>3, <2>5, <2>6, <2>7 DEF OnboardingInv, DecisionsStand, ActiveIsVerified
  <2>13. RequestsSound'
    <3>1. Registered \subseteq Registered'
      BY <2>1 DEF Registered, IsRegistered
    <3> QED
      BY <1>1, <2>1, <2>5, <2>6, <3>1, EndSound
  <2> QED
    BY <2>8, <2>10, <2>11, <2>12, <2>13 DEF OnboardingInv, DecisionsStand
<1> QED
  BY <1>2, <1>3, <1>4 DEF Apply

----------------------------------------------------------------------------
\* What a new status or verification of one vendor leaves as it is.
LEMMA RewriteFacts ==
    ASSUME OnboardingInv, NEW v \in Vendors, NEW row \in VendorRow,
           row.user = vendors[v].user, vendors' = [vendors EXCEPT ![v] = row],
           UNCHANGED <<accounts, shops>>
    PROVE  /\ \A w \in Applications : vendors'[w] = IF w = v THEN row ELSE vendors[w]
           /\ Vendors' = Vendors /\ Registered' = Registered
           /\ vendors' \in [Applications -> VendorRow \cup {None}]
           /\ OneOfEach'
<1>1. v \in Applications /\ row # None
  BY VendorFacts, NoneAssumption
<1>2. \A w \in Applications : vendors'[w] = IF w = v THEN row ELSE vendors[w]
  BY DEF OnboardingInv, TypeOK
<1>3. Vendors' = Vendors /\ Shops' = Shops /\ Registered' = Registered
  BY <1>1, <1>2 DEF Vendors, Shops, Registered, IsRegistered
<1>4. vendors' \in [Applications -> VendorRow \cup {None}]
  BY <1>1 DEF OnboardingInv, TypeOK
<1>5. \A w \in Vendors : vendors'[w].user = vendors[w].user
  BY <1>2 DEF Vendors
<1>6. OneOfEach'
  BY <1>3, <1>5 DEF OnboardingInv, OneOfEach, IsRegistered
<1> QED
  BY <1>2, <1>3, <1>4, <1>6

\* The WHERE clause of verify lets one of two decisions through.
LEMMA VerifyInv ==
    ASSUME OnboardingInv, NEW r \in Reviews, Verify(r)
    PROVE  OnboardingInv'
<1>1. r \in Requests /\ r \in Decisions /\ pc[r] # "done"
  BY Sorts DEF Verify, ReadVerification, WriteVerification
<1>2. CASE Fail(r, "404") \/ Fail(r, "409")
  BY <1>1, <1>2, FailInv
<1>3. CASE ReadVerification(r) /\ ~Fail(r, "404") /\ ~Fail(r, "409")
  <2>1. PICK v \in Vendors, t \in {"UNDER_REVIEW", "VERIFIED", "REJECTED"} :
            /\ vendors[v].verification \in AllowedFrom(t)
            /\ found' = [found EXCEPT ![r] = v]
            /\ from' = [from EXCEPT ![r] = vendors[v].verification]
            /\ target' = [target EXCEPT ![r] = t]
            /\ Goto(r, "write") /\ UNCHANGED tables
    BY <1>3 DEF ReadVerification
  <2>2. v \in Applications /\ vendors[v].verification \in Verifications
        /\ t \in Verifications
    BY <2>1, VendorFacts, AllowedFacts DEF Verifications
  <2>3. TypeOK'
    BY <1>1, <2>1, <2>2 DEF OnboardingInv, TypeOK, Goto, tables
  <2>4. /\ found'[r] = v /\ from'[r] = vendors[v].verification /\ target'[r] = t
        /\ pc'[r] = "write" /\ answer' = answer /\ answer[r] = "none"
        /\ \A q \in Requests \ {r} :
              /\ found'[q] = found[q] /\ from'[q] = from[q]
              /\ target'[q] = target[q] /\ pc'[q] = pc[q]
    BY <1>1, <2>1 DEF OnboardingInv, TypeOK, RequestsSound, Goto
  <2>5. from'[r] \in AllowedFrom(target'[r])
    BY <2>1, <2>4
  <2> QED
    BY <1>1, <2>1, <2>3, <2>4, <2>5, Sorts, LocalInv
<1>4. CASE WriteVerification(r) /\ ~Fail(r, "409")
  <2> PICK v : v = found[r]
    OBVIOUS
  <2> DEFINE row == [vendors[v] EXCEPT !.verification = target[r]]
  <2>1. /\ pc[r] = "write" /\ vendors[v].verification = from[r]
        /\ vendors' = [vendors EXCEPT ![v].verification = target[r]]
        /\ Finish(r, "200") /\ UNCHANGED <<accounts, shops>> /\ UNCHANGED locals
    BY <1>4 DEF WriteVerification, StillAsRead
  <2>2. v \in Vendors /\ from[r] \in AllowedFrom(target[r])
    BY <1>1, <2>1 DEF OnboardingInv, RequestsSound
  <2>3. v \in Applications /\ vendors[v] \in VendorRow
    BY <2>2, VendorFacts
  <2>4. target[r] \in Verifications
    <3>1. AllowedFrom(target[r]) # {}
      BY <2>2
    <3> QED
      BY <3>1 DEF AllowedFrom, Verifications
  <2>5. /\ row \in VendorRow /\ row.user = vendors[v].user
        /\ row.status = vendors[v].status /\ row.verification = target[r]
    <3>1. row \in VendorRow
      BY <2>3, <2>4 DEF VendorRow
    <3> QED
      BY <2>3, <3>1 DEF VendorRow
  <2>6. vendors' = [vendors EXCEPT ![v] = row]
    BY <2>1, <2>3 DEF OnboardingInv, TypeOK
  <2> HIDE DEF row
  <2>7. /\ \A w \in Applications : vendors'[w] = IF w = v THEN row ELSE vendors[w]
        /\ Vendors' = Vendors /\ Registered' = Registered
        /\ vendors' \in [Applications -> VendorRow \cup {None}]
        /\ OneOfEach'
    BY <2>1, <2>2, <2>5, <2>6, RewriteFacts
  <2>8. /\ vendors[v].verification # "VERIFIED" /\ vendors[v].verification # "REJECTED"
    BY <2>1, <2>2, AllowedFacts
  <2>9. TypeOK'
    BY <2>1, <2>7 DEF OnboardingInv, TypeOK, Finish, locals
  <2>10. \A q \in Requests : answer'[q] = IF q = r THEN "200" ELSE answer[q]
    BY <2>1 DEF OnboardingInv, TypeOK, Finish
  <2>11. found' = found /\ target' = target
    BY <2>1 DEF locals
  <2>12. OneDecision'
    \* No review of v has been confirmed before.
    <3>1. \A q \in Reviews : answer[q] = "200" /\ target[q] \in {"VERIFIED", "REJECTED"}
              => found[q] # v
      BY <2>8 DEF OnboardingInv, DecisionsStand, OneDecision
    <3>2. \A q \in Reviews : answer[q] = "200" => found[q] \in Vendors
      BY DEF OnboardingInv, RequestsSound
    <3> SUFFICES ASSUME NEW q \in Reviews, answer'[q] = "200",
                        target'[q] \in {"VERIFIED", "REJECTED"}
                 PROVE  /\ vendors'[found'[q]].verification = target'[q]
                        /\ \A s \in Reviews :
                              answer'[s] = "200" /\ found'[s] = found'[q]
                                  /\ target'[s] \in {"VERIFIED", "REJECTED"} => s = q
      BY DEF OneDecision
    <3>3. q \in Requests /\ \A s \in Reviews : s \in Requests
      BY Sorts
    <3>4. CASE q = r
      BY <2>3, <2>5, <2>7, <2>10, <2>11, <3>1, <3>3, <3>4
    <3>5. CASE q # r
      <4>1. answer[q] = "200" /\ found[q] # v /\ found[q] \in Applications
        BY <2>10, <2>11, <3>1, <3>2, <3>3, <3>5 DEF Vendors
      <4>2. vendors'[found[q]] = vendors[found[q]]
        BY <2>7, <4>1
      <4>3. \A s \in Reviews : answer'[s] = "200" /\ found'[s] = found'[q]
                => s # r /\ answer[s] = "200"
        BY <2>10, <2>11, <3>3, <4>1
      <4> QED
        BY <2>11, <4>1, <4>2, <4>3 DEF OnboardingInv, DecisionsStand, OneDecision
    <3> QED
      BY <3>4, <3>5
  <2>13. ActiveIsVerified'
    BY <2>2, <2>3, <2>5, <2>7, <2>8
       DEF OnboardingInv, DecisionsStand, ActiveIsVerified, Vendors
  <2>14. RequestsSound'
    BY <1>1, <2>1, <2>2, <2>3, <2>7, EndSound DEF Vendors
  <2> QED
    BY <2>7, <2>9, <2>12, <2>13, <2>14 DEF OnboardingInv, DecisionsStand
<1> QED
  BY <1>2, <1>3, <1>4 DEF Verify

\* A new status that is not a false ACTIVE leaves the vendors sound.
LEMMA StatusFacts ==
    ASSUME OnboardingInv, NEW v \in Vendors, NEW s \in VendorStatuses,
           s = "ACTIVE" => vendors[v].verification = "VERIFIED",
           vendors' = [vendors EXCEPT ![v].status = s],
           UNCHANGED <<accounts, shops>>
    PROVE  /\ Vendors' = Vendors /\ Registered' = Registered
           /\ vendors' \in [Applications -> VendorRow \cup {None}]
           /\ OneOfEach' /\ ActiveIsVerified'
           /\ \A w \in Vendors : vendors'[w].verification = vendors[w].verification
           /\ \A w \in Vendors \ {v} : vendors'[w] = vendors[w]
           /\ vendors'[v].status = s
<1> DEFINE row == [vendors[v] EXCEPT !.status = s]
<1>1. v \in Applications /\ vendors[v] \in VendorRow
  BY VendorFacts
<1>2. /\ row \in VendorRow /\ row.user = vendors[v].user
      /\ row.status = s /\ row.verification = vendors[v].verification
  <2>1. row \in VendorRow
    BY <1>1 DEF VendorRow
  <2> QED
    BY <1>1, <2>1 DEF VendorRow
<1>3. vendors' = [vendors EXCEPT ![v] = row]
  BY <1>1 DEF OnboardingInv, TypeOK
<1> HIDE DEF row
<1>4. /\ \A w \in Applications : vendors'[w] = IF w = v THEN row ELSE vendors[w]
      /\ Vendors' = Vendors /\ Registered' = Registered
      /\ vendors' \in [Applications -> VendorRow \cup {None}]
      /\ OneOfEach'
  BY <1>2, <1>3, RewriteFacts
<1>5. /\ \A w \in Vendors : vendors'[w].verification = vendors[w].verification
      /\ \A w \in Vendors \ {v} : vendors'[w] = vendors[w]
      /\ vendors'[v].status = s
  BY <1>1, <1>2, <1>4 DEF Vendors
<1>6. ActiveIsVerified'
  BY <1>4, <1>5 DEF OnboardingInv, DecisionsStand, ActiveIsVerified
<1> QED
  BY <1>4, <1>5, <1>6

LEMMA ActivateInv ==
    ASSUME OnboardingInv, NEW r \in Activations, Activate(r)
    PROVE  OnboardingInv'
<1>1. /\ r \in Requests /\ r \in Decisions /\ r \notin Reviews /\ pc[r] # "done"
  BY Sorts DEF Activate, ReadActivation, WriteActivation
<1>2. CASE Fail(r, "404") \/ Fail(r, "409")
  BY <1>1, <1>2, FailInv
<1>3. CASE ReadActivation(r) /\ ~Fail(r, "404") /\ ~Fail(r, "409")
  <2>1. PICK v \in Vendors : /\ found' = [found EXCEPT ![r] = v]
                             /\ Goto(r, "write") /\ UNCHANGED <<tables, from, target>>
    BY <1>3 DEF ReadActivation
  <2>2. v \in Applications
    BY VendorFacts
  <2>3. TypeOK'
    BY <1>1, <2>1, <2>2 DEF OnboardingInv, TypeOK, Goto, tables
  <2>4. /\ found'[r] = v /\ pc'[r] = "write" /\ answer' = answer /\ answer[r] = "none"
        /\ \A q \in Requests \ {r} :
              /\ found'[q] = found[q] /\ from'[q] = from[q]
              /\ target'[q] = target[q] /\ pc'[q] = pc[q]
    BY <1>1, <2>1 DEF OnboardingInv, TypeOK, RequestsSound, Goto
  <2> QED
    BY <1>1, <2>1, <2>3, <2>4, Sorts, LocalInv
<1>4. CASE WriteActivation(r) /\ ~Fail(r, "409")
  <2> PICK v : v = found[r]
    OBVIOUS
  <2>1. /\ pc[r] = "write" /\ Activatable(v)
        /\ vendors' = [vendors EXCEPT ![v].status = "ACTIVE"]
        /\ Finish(r, "200") /\ UNCHANGED <<accounts, shops>> /\ UNCHANGED locals
    BY <1>4 DEF WriteActivation
  <2>2. v \in Vendors /\ vendors[v].verification = "VERIFIED"
    BY <1>1, <2>1 DEF OnboardingInv, RequestsSound, Activatable
  <2>3. /\ Vendors' = Vendors /\ Registered' = Registered
        /\ vendors' \in [Applications -> VendorRow \cup {None}]
        /\ OneOfEach' /\ ActiveIsVerified'
        /\ \A w \in Vendors : vendors'[w].verification = vendors[w].verification
    <3>1. "ACTIVE" \in VendorStatuses
      BY DEF VendorStatuses
    <3> QED
      BY <2>1, <2>2, <3>1, StatusFacts
  <2>4. TypeOK'
    BY <2>1, <2>3 DEF OnboardingInv, TypeOK, Finish, locals
  <2>5. OneDecision'
    <3>1. \A q \in Reviews : answer'[q] = answer[q]
      BY <1>1, <2>1, Sorts DEF OnboardingInv, TypeOK, Finish
    <3>2. UNCHANGED <<found, target>>
      BY <2>1 DEF locals
    <3> QED
      BY <2>3, <3>1, <3>2, DecisionsKept
  <2>6. RequestsSound'
    <3>1. \A q \in Applications : vendors'[q] # None => vendors[q] # None
      BY <2>3 DEF Vendors
    <3> QED
      BY <1>1, <2>1, <2>3, <3>1, EndSound
  <2> QED
    BY <2>3, <2>4, <2>5, <2>6 DEF OnboardingInv, DecisionsStand
<1> QED
  BY <1>2, <1>3, <1>4 DEF Activate

LEMMA RestrictVendorInv ==
    ASSUME OnboardingInv, NEW v \in Applications, RestrictVendor(v)
    PROVE  OnboardingInv'
<1>1. PICK s \in {"SUSPENDED", "FROZEN", "REJECTED"} :
          vendors' = [vendors EXCEPT ![v].status = s]
  BY DEF RestrictVendor
<1>2. /\ v \in Vendors /\ s \in VendorStatuses /\ s # "ACTIVE"
      /\ UNCHANGED <<accounts, shops, pc, answer, found, from, target>>
  BY DEF RestrictVendor, VendorStatuses, locals
<1>3. /\ Vendors' = Vendors /\ Registered' = Registered
      /\ vendors' \in [Applications -> VendorRow \cup {None}]
      /\ OneOfEach' /\ ActiveIsVerified'
      /\ \A w \in Vendors : vendors'[w].verification = vendors[w].verification
  BY <1>1, <1>2, StatusFacts
<1>4. TypeOK'
  BY <1>2, <1>3 DEF OnboardingInv, TypeOK
<1>5. OneDecision'
  BY <1>2, <1>3, DecisionsKept
<1>6. RequestsSound'
  <2>1. \A q \in Applications : IsRegistered(UserOf[q]) => IsRegistered(UserOf[q])'
    BY <1>2 DEF IsRegistered
  <2>2. \A q \in Applications : vendors'[q] # None => vendors[q] # None
    BY <1>3 DEF Vendors
  <2> QED
    BY <1>2, <1>3, <2>1, <2>2 DEF OnboardingInv, RequestsSound
<1> QED
  BY <1>3, <1>4, <1>5, <1>6 DEF OnboardingInv, DecisionsStand

----------------------------------------------------------------------------
\* A shop's row has its type.
LEMMA ShopFacts ==
    ASSUME OnboardingInv, NEW s \in Shops
    PROVE  s \in Openings /\ shops[s] \in ShopRow /\ shops[s] # None
BY DEF OnboardingInv, TypeOK, Shops

\* The unique indexes on vendor_id and slug keep shops apart when one is
\* inserted or changed.
LEMMA ShopsApart ==
    ASSUME OnboardingInv, NEW s \in Openings, NEW row \in ShopRow,
           row.vendor \in Vendors,
           \A o \in Shops \ {s} : shops[o].vendor # row.vendor
                                  /\ shops[o].slug # row.slug,
           shops' = [shops EXCEPT ![s] = row], UNCHANGED <<accounts, vendors>>
    PROVE  /\ OneOfEach' /\ Vendors' = Vendors /\ Registered' = Registered
           /\ shops' \in [Openings -> ShopRow \cup {None}]
           /\ \A o \in Openings \ {s} : shops'[o] = shops[o]
<1>1. \A o \in Openings : shops'[o] = IF o = s THEN row ELSE shops[o]
  BY DEF OnboardingInv, TypeOK
<1>2. row # None
  BY NoneAssumption
<1>3. Vendors' = Vendors /\ Shops' = Shops \cup {s} /\ Registered' = Registered
  BY <1>1, <1>2 DEF Vendors, Shops, Registered, IsRegistered
<1>4. shops' \in [Openings -> ShopRow \cup {None}]
  BY DEF OnboardingInv, TypeOK
<1>5. Shops \subseteq Openings
  BY DEF Shops
<1>6. OneOfEach'
  <2>1. \A x, o \in Shops' :
           shops'[x].vendor = shops'[o].vendor \/ shops'[x].slug = shops'[o].slug
              => x = o
    BY <1>1, <1>3, <1>5 DEF OnboardingInv, OneOfEach
  <2>2. \A o \in Shops' : shops'[o].vendor \in Vendors'
    BY <1>1, <1>3, <1>5 DEF OnboardingInv, OneOfEach
  <2> QED
    BY <1>3, <2>1, <2>2 DEF OnboardingInv, OneOfEach, IsRegistered
<1> QED
  BY <1>1, <1>3, <1>4, <1>6

LEMMA OpenShopInv ==
    ASSUME OnboardingInv, NEW r \in Openings, OpenShop(r)
    PROVE  OnboardingInv'
<1>1. /\ r \in Requests /\ r \notin Decisions /\ r \notin Reviews
      /\ r \notin Applications /\ UserOf[r] \in Users /\ pc[r] # "done"
  BY Sorts, RequestsAssumption DEF OpenShop, FindShopVendor, FindShop, InsertShop
<1>2. CASE Fail(r, "403") \/ Fail(r, "409")
  BY <1>1, <1>2, FailInv
<1>3. CASE FindShopVendor(r) /\ ~Fail(r, "403")
  <2>1. PICK v \in VendorsOf(UserOf[r]) :
            /\ found' = [found EXCEPT ![r] = v]
            /\ Goto(r, "find shop") /\ UNCHANGED <<tables, from, target>>
    BY <1>3 DEF FindShopVendor
  <2>2. v \in Vendors /\ v \in Applications
    BY DEF VendorsOf, Vendors
  <2>3. TypeOK'
    BY <1>1, <2>1, <2>2 DEF OnboardingInv, TypeOK, Goto, tables
  <2>4. /\ found'[r] = v /\ pc'[r] = "find shop" /\ answer' = answer /\ answer[r] = "none"
        /\ \A q \in Requests \ {r} :
              /\ found'[q] = found[q] /\ from'[q] = from[q]
              /\ target'[q] = target[q] /\ pc'[q] = pc[q]
    BY <1>1, <2>1 DEF OnboardingInv, TypeOK, RequestsSound, Goto
  <2> QED
    BY <1>1, <2>1, <2>2, <2>3, <2>4, Sorts, LocalInv
<1>4. CASE FindShop(r) /\ ~Fail(r, "409")
  <2>1. found[r] \in Vendors /\ Goto(r, "insert") /\ UNCHANGED <<tables, locals>>
    BY <1>1, <1>4 DEF FindShop, OnboardingInv, RequestsSound
  <2> QED
    BY <1>1, <2>1, GotoInv
<1>5. CASE InsertShop(r) /\ ~Fail(r, "409")
  <2> PICK v : v = found[r]
    OBVIOUS
  <2>1. PICK slug \in Slugs :
            /\ ShopsOf(v) = {} /\ SlugFree(slug, r)
            /\ shops' = [shops EXCEPT ![r] = NewShop(v, slug)]
            /\ Finish(r, "201")
            /\ UNCHANGED <<accounts, vendors>> /\ UNCHANGED locals
    BY <1>5 DEF InsertShop
  <2> DEFINE row == NewShop(v, slug)
  <2>2. v \in Vendors /\ v \in Applications
    BY <1>5 DEF InsertShop, OnboardingInv, RequestsSound, Vendors
  <2>3. row \in ShopRow /\ row.vendor = v /\ row.slug = slug
    BY <2>2 DEF NewShop, ShopRow, ShopStatuses
  <2>4. shops' = [shops EXCEPT ![r] = row]
    BY <2>1
  <2> HIDE DEF row
  <2>5. \A o \in Shops \ {r} : shops[o].vendor # row.vendor /\ shops[o].slug # row.slug
    BY <2>1, <2>3 DEF ShopsOf, SlugFree
  <2>6. /\ OneOfEach' /\ Vendors' = Vendors /\ Registered' = Registered
        /\ shops' \in [Openings -> ShopRow \cup {None}]
        /\ \A o \in Openings \ {r} : shops'[o] = shops[o]
    BY <2>1, <2>2, <2>3, <2>4, <2>5, ShopsApart
  <2>7. TypeOK'
    BY <1>1, <2>1, <2>6 DEF OnboardingInv, TypeOK, Finish, locals
  <2>8. OneDecision' /\ ActiveIsVerified'
    <3>1. \A q \in Reviews : answer'[q] = answer[q]
      BY <1>1, <2>1, Sorts DEF OnboardingInv, TypeOK, Finish
    <3>2. UNCHANGED <<found, target, vendors>>
      BY <2>1 DEF locals
    <3> QED
      BY <2>6, <3>1, <3>2, DecisionsKept DEF OnboardingInv, DecisionsStand, ActiveIsVerified
  <2>9. RequestsSound'
    BY <1>1, <2>1, <2>6, EndSound
  <2> QED
    BY <2>6, <2>7, <2>8, <2>9 DEF OnboardingInv, DecisionsStand
<1> QED
  BY <1>2, <1>3, <1>4, <1>5 DEF OpenShop, FindShopVendor, FindShop, InsertShop

\* What a change of one shop's slug and status leaves as it is.
LEMMA ShopChanged ==
    ASSUME OnboardingInv, NEW s \in Shops, NEW slug \in Slugs, NEW st \in ShopStatuses,
           SlugFree(slug, s),
           shops' = [shops EXCEPT ![s].slug = slug, ![s].status = st],
           UNCHANGED <<accounts, vendors>>
    PROVE  /\ OneOfEach' /\ Vendors' = Vendors /\ Registered' = Registered
           /\ shops' \in [Openings -> ShopRow \cup {None}]
           /\ \A o \in Openings : shops'[o] # None => shops[o] # None
<1> DEFINE row == [shops[s] EXCEPT !.slug = slug, !.status = st]
<1>1. s \in Openings /\ shops[s] \in ShopRow /\ shops[s] # None
  BY ShopFacts
<1>2. row \in ShopRow /\ row.vendor = shops[s].vendor /\ row.slug = slug
  <2>1. row \in ShopRow
    BY <1>1 DEF ShopRow
  <2> QED
    BY <1>1, <2>1 DEF ShopRow
<1>3. shops' = [shops EXCEPT ![s] = row]
  BY <1>1 DEF OnboardingInv, TypeOK
<1> HIDE DEF row
<1>4. row.vendor \in Vendors
  BY <1>2 DEF OnboardingInv, OneOfEach
<1>5. \A o \in Shops \ {s} : shops[o].vendor # row.vendor /\ shops[o].slug # row.slug
  BY <1>2 DEF OnboardingInv, OneOfEach, SlugFree
<1>6. /\ OneOfEach' /\ Vendors' = Vendors /\ Registered' = Registered
      /\ shops' \in [Openings -> ShopRow \cup {None}]
      /\ \A o \in Openings \ {s} : shops'[o] = shops[o]
  BY <1>1, <1>2, <1>3, <1>4, <1>5, ShopsApart
<1> QED
  BY <1>1, <1>6

LEMMA UpdateShopInv ==
    ASSUME OnboardingInv, NEW r \in Updates, UpdateShop(r)
    PROVE  OnboardingInv'
<1>1. /\ r \in Requests /\ r \notin Reviews /\ pc[r] # "done"
  BY Sorts DEF UpdateShop
<1>2. CASE Fail(r, "409")
  BY <1>1, <1>2, FailInv
<1>3. CASE ~Fail(r, "409")
  <2>1. PICK s \in Shops : \E slug \in Slugs, st \in SettableStatuses \cup {shops[s].status} :
            /\ SlugFree(slug, s)
            /\ shops' = [shops EXCEPT ![s].slug = slug, ![s].status = st]
            /\ Finish(r, "200")
            /\ UNCHANGED <<accounts, vendors>> /\ UNCHANGED locals
    BY <1>3 DEF UpdateShop
  <2>2. PICK slug \in Slugs, st \in SettableStatuses \cup {shops[s].status} :
            /\ SlugFree(slug, s)
            /\ shops' = [shops EXCEPT ![s].slug = slug, ![s].status = st]
            /\ Finish(r, "200")
            /\ UNCHANGED <<accounts, vendors>> /\ UNCHANGED locals
    BY <2>1
  <2>3. st \in ShopStatuses
    <3>1. shops[s].status \in ShopStatuses
      BY ShopFacts DEF ShopRow
    <3> QED
      BY <3>1 DEF SettableStatuses, ShopStatuses
  <2>4. /\ OneOfEach' /\ Vendors' = Vendors /\ Registered' = Registered
        /\ shops' \in [Openings -> ShopRow \cup {None}]
        /\ \A o \in Openings : shops'[o] # None => shops[o] # None
    BY <2>2, <2>3, ShopChanged
  <2>5. TypeOK'
    BY <1>1, <2>2, <2>4 DEF OnboardingInv, TypeOK, Finish, locals
  <2>6. OneDecision' /\ ActiveIsVerified'
    <3>1. \A q \in Reviews : answer'[q] = answer[q]
      BY <1>1, <2>2, Sorts DEF OnboardingInv, TypeOK, Finish
    <3>2. UNCHANGED <<found, target, vendors>>
      BY <2>2 DEF locals
    <3> QED
      BY <2>4, <3>1, <3>2, DecisionsKept DEF OnboardingInv, DecisionsStand, ActiveIsVerified
  <2>7. RequestsSound'
    BY <1>1, <2>2, <2>4, EndSound
  <2> QED
    BY <2>4, <2>5, <2>6, <2>7 DEF OnboardingInv, DecisionsStand
<1> QED
  BY <1>2, <1>3

LEMMA SuspendShopInv ==
    ASSUME OnboardingInv, NEW s \in Openings, SuspendShop(s)
    PROVE  OnboardingInv'
<1>1. /\ s \in Shops /\ shops[s] \in ShopRow
      /\ shops' = [shops EXCEPT ![s].status = "SUSPENDED"]
      /\ UNCHANGED <<accounts, vendors, pc, answer, found, from, target>>
  BY ShopFacts DEF SuspendShop, locals
<1> PICK slug : slug = shops[s].slug
  OBVIOUS
<1>2. slug \in Slugs /\ "SUSPENDED" \in ShopStatuses
  BY <1>1 DEF ShopRow, ShopStatuses
<1>3. SlugFree(slug, s)
  BY <1>1 DEF SlugFree, OnboardingInv, OneOfEach
<1>4. shops' = [shops EXCEPT ![s].slug = slug, ![s].status = "SUSPENDED"]
  <2>1. [shops[s] EXCEPT !.slug = slug, !.status = "SUSPENDED"]
            = [shops[s] EXCEPT !.status = "SUSPENDED"]
    BY <1>1 DEF ShopRow
  <2> QED
    BY <1>1, <2>1 DEF OnboardingInv, TypeOK
<1>5. /\ OneOfEach' /\ Vendors' = Vendors /\ Registered' = Registered
      /\ shops' \in [Openings -> ShopRow \cup {None}]
      /\ \A o \in Openings : shops'[o] # None => shops[o] # None
  BY <1>1, <1>2, <1>3, <1>4, ShopChanged
<1>6. TypeOK'
  BY <1>1, <1>5 DEF OnboardingInv, TypeOK
<1>7. OneDecision' /\ ActiveIsVerified'
  BY <1>1, <1>5, DecisionsKept DEF OnboardingInv, DecisionsStand, ActiveIsVerified
<1>8. RequestsSound'
  <2>1. \A q \in Applications : IsRegistered(UserOf[q]) => IsRegistered(UserOf[q])'
    BY <1>1 DEF IsRegistered
  <2> QED
    BY <1>1, <1>5, <2>1 DEF OnboardingInv, RequestsSound
<1> QED
  BY <1>5, <1>6, <1>7, <1>8 DEF OnboardingInv, DecisionsStand

----------------------------------------------------------------------------
LEMMA NextInv == OnboardingInv /\ [Next]_vars => OnboardingInv'
<1> SUFFICES ASSUME OnboardingInv, [Next]_vars PROVE OnboardingInv'
  OBVIOUS
<1>1. ASSUME NEW r \in Requests, Step(r) PROVE OnboardingInv'
  BY <1>1, RegisterInv, ApplyInv, VerifyInv, ActivateInv, OpenShopInv,
     UpdateShopInv DEF Step
<1>2. ASSUME NEW r \in Requests, Interrupt(r) PROVE OnboardingInv'
  BY <1>2, FailInv DEF Interrupt
<1>3. ASSUME NEW v \in Applications, RestrictVendor(v) PROVE OnboardingInv'
  BY <1>3, RestrictVendorInv
<1>4. ASSUME NEW s \in Openings, SuspendShop(s) PROVE OnboardingInv'
  BY <1>4, SuspendShopInv
<1>5. CASE UNCHANGED vars
  <2>1. UNCHANGED <<accounts, vendors, shops, pc, answer, found, from, target>>
    BY <1>5 DEF vars, tables, locals
  <2>2. TypeOK' /\ Vendors' = Vendors /\ Shops' = Shops
    BY <2>1 DEF OnboardingInv, TypeOK, Vendors, Shops
  <2>3. OneOfEach' /\ DecisionsStand'
    BY <2>1, <2>2 DEF OnboardingInv, OneOfEach, DecisionsStand, OneDecision,
                      ActiveIsVerified, IsRegistered
  <2>4. RequestsSound'
    BY <2>1, <2>2 DEF OnboardingInv, RequestsSound, IsRegistered
  <2> QED
    BY <2>2, <2>3, <2>4 DEF OnboardingInv
<1> QED
  BY <1>1, <1>2, <1>3, <1>4, <1>5 DEF Next

----------------------------------------------------------------------------
\* Registrations, applications, decisions and openings keep the inductive
\* invariant, whatever runs together.
THEOREM OnboardingInvariant == Spec => []OnboardingInv
BY InitInv, NextInv, PTL DEF Spec

\* An email address has one account, a user one vendor profile, a vendor one
\* shop and a slug one shop.
THEOREM EachIsOne == Spec => []OneOfEach
<1>1. OnboardingInv => OneOfEach
  BY DEF OnboardingInv
<1> QED
  BY <1>1, OnboardingInvariant, PTL

\* A confirmed final decision is the only one and stands, and an ACTIVE vendor
\* is VERIFIED.
THEOREM DecisionsHold == Spec => []DecisionsStand
<1>1. OnboardingInv => DecisionsStand
  BY DEF OnboardingInv
<1> QED
  BY <1>1, OnboardingInvariant, PTL

\* A vendor only moves along the documented transitions.
THEOREM VendorMovesAsDocumented == Spec => VendorLifecycle
<1>1. OnboardingInv /\ [Next]_vars =>
        [\A v \in Vendors :
          /\ vendors[v].verification # vendors'[v].verification =>
                vendors[v].verification \in AllowedFrom(vendors'[v].verification)
          /\ vendors'[v].status = "ACTIVE" =>
                \/ vendors[v].status = "ACTIVE"
                \/ /\ vendors[v].status = "PENDING"
                   /\ vendors[v].verification = "VERIFIED"]_vars
  <2> SUFFICES ASSUME OnboardingInv, Next, NEW v \in Vendors
               PROVE  /\ vendors[v].verification # vendors'[v].verification =>
                           vendors[v].verification \in AllowedFrom(vendors'[v].verification)
                      /\ vendors'[v].status = "ACTIVE" =>
                           \/ vendors[v].status = "ACTIVE"
                           \/ /\ vendors[v].status = "PENDING"
                              /\ vendors[v].verification = "VERIFIED"
    OBVIOUS
  <2> DEFINE Moves ==
          /\ vendors[v].verification # vendors'[v].verification =>
                vendors[v].verification \in AllowedFrom(vendors'[v].verification)
          /\ vendors'[v].status = "ACTIVE" =>
                \/ vendors[v].status = "ACTIVE"
                \/ /\ vendors[v].status = "PENDING"
                   /\ vendors[v].verification = "VERIFIED"
  <2>1. v \in Applications /\ vendors[v] \in VendorRow /\ vendors[v] # None
    BY VendorFacts
  <2>2. ASSUME vendors'[v] = vendors[v] PROVE Moves
    BY <2>2
  <2>3. ASSUME NEW r \in Applications, Apply(r) PROVE Moves
    <3>1. vendors' = vendors \/ (pc[r] = "insert" /\ \E row : vendors' = [vendors EXCEPT ![r] = row])
      BY <2>3 DEF Apply, FindVendor, InsertVendor, Fail, tables
    <3>2. r = v => pc[r] # "insert"
      BY <2>1 DEF OnboardingInv, RequestsSound
    <3>3. vendors'[v] = vendors[v]
      BY <2>1, <3>1, <3>2 DEF OnboardingInv, TypeOK
    <3> QED
      BY <2>2, <3>3
  <2>4. ASSUME NEW r \in Reviews, Verify(r) PROVE Moves
    <3>1. CASE vendors' = vendors
      BY <2>2, <3>1
    <3>2. CASE vendors' # vendors
      <4> PICK w : w = found[r]
        OBVIOUS
      <4>1. /\ pc[r] = "write" /\ vendors[w].verification = from[r]
            /\ vendors' = [vendors EXCEPT ![w].verification = target[r]]
        BY <2>4, <3>2 DEF Verify, ReadVerification, WriteVerification, Fail,
                          tables, StillAsRead
      <4>2. w \in Vendors /\ from[r] \in AllowedFrom(target[r])
        BY <4>1, Sorts DEF OnboardingInv, RequestsSound
      <4>3. vendors'[w] = [vendors[w] EXCEPT !.verification = target[r]]
        BY <4>1, <4>2, VendorFacts DEF OnboardingInv, TypeOK
      <4>4. vendors[w] \in VendorRow
        BY <4>2, VendorFacts
      <4>5. vendors'[w].verification = target[r] /\ vendors'[w].status = vendors[w].status
        BY <4>3, <4>4 DEF VendorRow
      <4>6. CASE v = w
        BY <4>1, <4>2, <4>5, <4>6
      <4>7. CASE v # w
        <5>1. vendors'[v] = vendors[v]
          BY <2>1, <4>1, <4>7 DEF OnboardingInv, TypeOK
        <5> QED
          BY <2>2, <5>1
      <4> QED
        BY <4>6, <4>7
    <3> QED
      BY <3>1, <3>2
  <2>5. ASSUME NEW r \in Activations, Activate(r) PROVE Moves
    <3>1. CASE vendors' = vendors
      BY <2>2, <3>1
    <3>2. CASE vendors' # vendors
      <4> PICK w : w = found[r]
        OBVIOUS
      <4>1. /\ pc[r] = "write" /\ Activatable(w)
            /\ vendors' = [vendors EXCEPT ![w].status = "ACTIVE"]
            /\ UNCHANGED <<accounts, shops>>
        BY <2>5, <3>2 DEF Activate, ReadActivation, WriteActivation, Fail, tables
      <4>2. w \in Vendors /\ vendors[w].verification = "VERIFIED"
            /\ vendors[w].status = "PENDING"
        BY <4>1, Sorts DEF OnboardingInv, RequestsSound, Activatable
      <4>3. /\ \A x \in Vendors : vendors'[x].verification = vendors[x].verification
            /\ \A x \in Vendors \ {w} : vendors'[x] = vendors[x]
        <5>1. "ACTIVE" \in VendorStatuses
          BY DEF VendorStatuses
        <5> QED
          BY <4>1, <4>2, <5>1, StatusFacts
      <4> QED
        BY <4>2, <4>3
    <3> QED
      BY <3>1, <3>2
  <2>6. ASSUME NEW w \in Applications, RestrictVendor(w) PROVE Moves
    <3>1. PICK s \in {"SUSPENDED", "FROZEN", "REJECTED"} :
              vendors' = [vendors EXCEPT ![w].status = s]
      BY <2>6 DEF RestrictVendor
    <3>2. /\ w \in Vendors /\ s \in VendorStatuses /\ s # "ACTIVE"
          /\ UNCHANGED <<accounts, shops>>
      BY <2>6 DEF RestrictVendor, VendorStatuses
    <3>3. /\ \A x \in Vendors : vendors'[x].verification = vendors[x].verification
          /\ \A x \in Vendors \ {w} : vendors'[x] = vendors[x]
          /\ vendors'[w].status = s
      BY <3>1, <3>2, StatusFacts
    <3> QED
      BY <3>2, <3>3
  <2>7. ASSUME vendors' = vendors PROVE Moves
    BY <2>2, <2>7
  <2>8. ASSUME NEW r \in Requests, Step(r) PROVE Moves
    <3>1. CASE r \in Registrations /\ Register(r)
      BY <2>7, <3>1 DEF Register, FindAccount, InsertAccount, Fail, tables
    <3>2. CASE r \in Openings /\ OpenShop(r)
      BY <2>7, <3>2 DEF OpenShop, FindShopVendor, FindShop, InsertShop, Fail, tables
    <3>3. CASE r \in Updates /\ UpdateShop(r)
      BY <2>7, <3>3 DEF UpdateShop, Fail, tables
    <3> QED
      BY <2>3, <2>4, <2>5, <2>8, <3>1, <3>2, <3>3 DEF Step
  <2>9. ASSUME NEW r \in Requests, Interrupt(r) PROVE Moves
    BY <2>7, <2>9 DEF Interrupt, Fail, tables
  <2>10. ASSUME NEW s \in Openings, SuspendShop(s) PROVE Moves
    BY <2>7, <2>10 DEF SuspendShop
  <2> QED
    BY <2>6, <2>8, <2>9, <2>10 DEF Next
<1> QED
  BY <1>1, OnboardingInvariant, PTL DEF Spec, VendorLifecycle
============================================================================
