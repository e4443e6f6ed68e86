----------------------------- MODULE Onboarding -----------------------------
(***************************************************************************)
(* From a registration to an open shop: AuthService.register,              *)
(* VendorsService and ShopsService.                                        *)
(*                                                                         *)
(* Each of these handlers reads, decides, and then writes with one         *)
(* statement whose unique index or WHERE clause has the last word; a step  *)
(* is one statement.  A row is named after the request that inserts it.    *)
(* Rows are never deleted: no code sets the deletedAt columns.             *)
(***************************************************************************)
EXTENDS Integers, FiniteSets

CONSTANTS
    Users,          \* people, each with an email address
    Slugs,          \* shop slugs
    Registrations,  \* POST /auth/register
    Applications,   \* POST /vendors
    Reviews,        \* PATCH /vendors/:vendorId/verification
    Activations,    \* PATCH /vendors/:vendorId/activation
    Openings,       \* POST /shops
    Updates,        \* PATCH /shops/:shopId
    UserOf,         \* who sends each registration, application and opening
    None            \* "no such row", Prisma's null

Decisions == Reviews \cup Activations
Requests == Registrations \cup Applications \cup Decisions \cup Openings
                \cup Updates

ASSUME RequestsAssumption ==
    /\ Registrations \cap (Applications \cup Decisions \cup Openings
                            \cup Updates) = {}
    /\ Applications \cap (Decisions \cup Openings \cup Updates) = {}
    /\ Reviews \cap (Activations \cup Openings \cup Updates) = {}
    /\ Activations \cap (Openings \cup Updates) = {}
    /\ Openings \cap Updates = {}
    /\ UserOf \in [Registrations \cup Applications \cup Openings -> Users]

VendorStatuses == {"PENDING", "ACTIVE", "SUSPENDED", "FROZEN", "REJECTED"}
Verifications == {"PENDING", "UNDER_REVIEW", "VERIFIED", "REJECTED"}
ShopStatuses == {"ACTIVE", "INACTIVE", "SUSPENDED"}

VendorRow == [user : Users, status : VendorStatuses,
              verification : Verifications]
ShopRow == [vendor : Applications, slug : Slugs, status : ShopStatuses]

ASSUME NoneAssumption ==
    None \notin Requests \cup Users \cup VendorRow \cup ShopRow \cup Verifications

VARIABLES
    accounts,   \* accounts[r]: the user registered by request r, or None
    vendors,    \* vendors[r]: the vendor inserted by application r, or None
    shops,      \* shops[r]: the shop inserted by request r, or None
    pc,         \* pc[r]: where request r is in its handler
    answer,     \* answer[r]: the response of a finished request
    found,      \* found[r]: the vendor that r has read, or None
    from,       \* from[r]: the verification status that r has read, or None
    target      \* target[r]: the verification status that review r asks for

tables == <<accounts, vendors, shops>>
locals == <<found, from, target>>
vars == <<tables, pc, answer, locals>>

Goto(r, place) ==
    /\ pc' = [pc EXCEPT ![r] = place]
    /\ UNCHANGED answer

Finish(r, a) ==
    /\ pc' = [pc EXCEPT ![r] = "done"]
    /\ answer' = [answer EXCEPT ![r] = a]

Fail(r, a) == Finish(r, a) /\ UNCHANGED <<tables, locals>>

Init ==
    /\ accounts = [r \in Registrations |-> None]
    /\ vendors = [r \in Applications |-> None]
    /\ shops = [r \in Openings |-> None]
    /\ pc = [r \in Requests |-> "new"]
    /\ answer = [r \in Requests |-> "none"]
    /\ found = [r \in Requests |-> None]
    /\ from = [r \in Requests |-> None]
    /\ target = [r \in Requests |-> None]

----------------------------------------------------------------------------
\* register

IsRegistered(u) == \E r \in Registrations : accounts[r] = u

FindAccount(r) ==
    /\ pc[r] = "new"
    /\ IF IsRegistered(UserOf[r])
       THEN Fail(r, "409")
       ELSE Goto(r, "insert") /\ UNCHANGED <<tables, locals>>

\* Mutant: the read alone protects the email address.
AnyEmail(u) == TRUE

\* The unique index on email.
EmailFree(u) == ~IsRegistered(u)

InsertAccount(r) ==
    /\ pc[r] = "insert"
    /\ IF EmailFree(UserOf[r])
       THEN /\ accounts' = [accounts EXCEPT ![r] = UserOf[r]]
            /\ Finish(r, "201")
            /\ UNCHANGED <<vendors, shops, locals>>
       ELSE Fail(r, "409")

Register(r) == FindAccount(r) \/ InsertAccount(r)

----------------------------------------------------------------------------
\* VendorsService

Vendors == {r \in Applications : vendors[r] # None}

\* getVendorIdForUser
VendorsOf(u) == {r \in Vendors : vendors[r].user = u}

FindVendor(r) ==
    /\ pc[r] = "new" /\ IsRegistered(UserOf[r])
    /\ IF VendorsOf(UserOf[r]) # {}
       THEN Fail(r, "409")
       ELSE Goto(r, "insert") /\ UNCHANGED <<tables, locals>>

\* The unique index on user_id.
InsertVendor(r) ==
    /\ pc[r] = "insert"
    /\ IF VendorsOf(UserOf[r]) = {}
       THEN /\ vendors' = [vendors EXCEPT ![r] =
                              [user |-> UserOf[r], status |-> "PENDING",
                               verification |-> "PENDING"]]
            /\ Finish(r, "201")
            /\ UNCHANGED <<accounts, shops, locals>>
       ELSE Fail(r, "409")

Apply(r) == FindVendor(r) \/ InsertVendor(r)

\* The statuses from which a vendor's verification may go to t.
AllowedFrom(t) ==
    CASE t = "UNDER_REVIEW" -> {"PENDING"}
      [] t = "VERIFIED" -> {"UNDER_REVIEW"}
      [] t = "REJECTED" -> {"PENDING", "UNDER_REVIEW"}
      [] OTHER -> {}

\* verify reads the vendor; an unknown one is a 404.
ReadVerification(r) ==
    /\ pc[r] = "new"
    /\ \/ Fail(r, "404")
       \/ \E v \in Vendors, t \in {"UNDER_REVIEW", "VERIFIED", "REJECTED"} :
             IF vendors[v].verification \in AllowedFrom(t)
             THEN /\ found' = [found EXCEPT ![r] = v]
                  /\ from' = [from EXCEPT ![r] = vendors[v].verification]
                  /\ target' = [target EXCEPT ![r] = t]
                  /\ Goto(r, "write") /\ UNCHANGED tables
             ELSE Fail(r, "409")

\* Mutant: the vendor is updated by its id alone.
NotCompared(r) == TRUE

\* The WHERE clause of verify's updateMany.
StillAsRead(r) == vendors[found[r]].verification = from[r]

WriteVerification(r) ==
    /\ pc[r] = "write"
    /\ IF StillAsRead(r)
       THEN /\ vendors' = [vendors EXCEPT ![found[r]].verification = target[r]]
            /\ Finish(r, "200")
            /\ UNCHANGED <<accounts, shops, locals>>
       ELSE Fail(r, "409")

Verify(r) == ReadVerification(r) \/ WriteVerification(r)

\* activate reads the vendor.
ReadActivation(r) ==
    /\ pc[r] = "new"
    /\ \/ Fail(r, "404")
       \/ \E v \in Vendors :
             IF vendors[v].status = "PENDING"
                    /\ vendors[v].verification = "VERIFIED"
             THEN /\ found' = [found EXCEPT ![r] = v]
                  /\ Goto(r, "write") /\ UNCHANGED <<tables, from, target>>
             ELSE Fail(r, "409")

\* Mutant: the verification is not compared again, and neither is the status.
AnyVendor(v) == TRUE

\* The WHERE clause of activate's updateMany.
Activatable(v) ==
    vendors[v].status = "PENDING" /\ vendors[v].verification = "VERIFIED"

WriteActivation(r) ==
    /\ pc[r] = "write"
    /\ IF Activatable(found[r])
       THEN /\ vendors' = [vendors EXCEPT ![found[r]].status = "ACTIVE"]
            /\ Finish(r, "200")
            /\ UNCHANGED <<accounts, shops, locals>>
       ELSE Fail(r, "409")

Activate(r) == ReadActivation(r) \/ WriteActivation(r)

----------------------------------------------------------------------------
\* ShopsService

Shops == {r \in Openings : shops[r] # None}

ShopsOf(v) == {r \in Shops : shops[r].vendor = v}

\* Mutant: a slug is only looked up in the other requests' reads.
AnySlug(slug, s) == TRUE

\* The unique index on slug, for an update of shop s or a new shop s.
SlugFree(slug, s) == \A o \in Shops \ {s} : shops[o].slug # slug

FindShopVendor(r) ==
    /\ pc[r] = "new" /\ IsRegistered(UserOf[r])
    /\ \/ VendorsOf(UserOf[r]) = {} /\ Fail(r, "403")
       \/ \E v \in VendorsOf(UserOf[r]) :
             /\ found' = [found EXCEPT ![r] = v]
             /\ Goto(r, "find shop") /\ UNCHANGED <<tables, from, target>>

FindShop(r) ==
    /\ pc[r] = "find shop"
    /\ IF ShopsOf(found[r]) # {}
       THEN Fail(r, "409")
       ELSE Goto(r, "insert") /\ UNCHANGED <<tables, locals>>

NewShop(v, slug) == [vendor |-> v, slug |-> slug, status |-> "ACTIVE"]

\* The unique indexes on vendor_id and slug.
InsertShop(r) ==
    /\ pc[r] = "insert"
    /\ \E slug \in Slugs :
          IF ShopsOf(found[r]) = {} /\ SlugFree(slug, r)
          THEN /\ shops' = [shops EXCEPT ![r] = NewShop(found[r], slug)]
               /\ Finish(r, "201")
               /\ UNCHANGED <<accounts, vendors, locals>>
          ELSE Fail(r, "409")

OpenShop(r) == FindShopVendor(r) \/ FindShop(r) \/ InsertShop(r)

\* The values that UpdateShopDto accepts.
SettableStatuses == {"ACTIVE", "INACTIVE"}

\* One UPDATE, by the owner or an administrator; a field that is not sent
\* keeps its value.
UpdateShop(r) ==
    /\ pc[r] = "new"
    /\ \E s \in Shops :
          \E slug \in Slugs, st \in SettableStatuses \cup {shops[s].status} :
             IF SlugFree(slug, s)
             THEN /\ shops' = [shops EXCEPT ![s].slug = slug, ![s].status = st]
                  /\ Finish(r, "200")
                  /\ UNCHANGED <<accounts, vendors, locals>>
             ELSE Fail(r, "409")

----------------------------------------------------------------------------
\* An operator restricts a vendor, or a shop, in the database.
RestrictVendor(v) ==
    /\ v \in Vendors
    /\ \E s \in {"SUSPENDED", "FROZEN", "REJECTED"} :
          vendors' = [vendors EXCEPT ![v].status = s]
    /\ UNCHANGED <<accounts, shops, pc, answer, locals>>

SuspendShop(s) ==
    /\ s \in Shops
    /\ shops' = [shops EXCEPT ![s].status = "SUSPENDED"]
    /\ UNCHANGED <<accounts, vendors, pc, answer, locals>>

\* The request dies between two statements.
Interrupt(r) ==
    /\ pc[r] \notin {"new", "done"}
    /\ Fail(r, "5xx")

Step(r) ==
    \/ r \in Registrations /\ Register(r)
    \/ r \in Applications /\ Apply(r)
    \/ r \in Reviews /\ Verify(r)
    \/ r \in Activations /\ Activate(r)
    \/ r \in Openings /\ OpenShop(r)
    \/ r \in Updates /\ UpdateShop(r)

Next ==
    \/ \E r \in Requests : Step(r) \/ Interrupt(r)
    \/ \E v \in Applications : RestrictVendor(v)
    \/ \E s \in Openings : SuspendShop(s)

Spec == Init /\ [][Next]_vars

----------------------------------------------------------------------------
TypeOK ==
    /\ accounts \in [Registrations -> Users \cup {None}]
    /\ vendors \in [Applications -> VendorRow \cup {None}]
    /\ shops \in [Openings -> ShopRow \cup {None}]
    /\ pc \in [Requests -> {"new", "insert", "write", "find shop", "done"}]
    /\ answer \in [Requests ->
                      {"none", "200", "201", "403", "404", "409", "5xx"}]
    /\ found \in [Requests -> Applications \cup {None}]
    /\ from \in [Requests -> Verifications \cup {None}]
    /\ target \in [Requests -> Verifications \cup {None}]

\* However many requests race, an email address has one account, a user one
\* vendor profile, a vendor one shop and a slug one shop; and what a user owns
\* further along the chain implies what comes before it.
OneOfEach ==
    /\ \A r, s \in Registrations :
          accounts[r] # None /\ accounts[r] = accounts[s] => r = s
    /\ \A v, w \in Vendors : vendors[v].user = vendors[w].user => v = w
    /\ \A v \in Vendors : IsRegistered(vendors[v].user)
    /\ \A s, o \in Shops :
          shops[s].vendor = shops[o].vendor \/ shops[s].slug = shops[o].slug
              => s = o
    /\ \A s \in Shops : shops[s].vendor \in Vendors

OneDecision ==
    \A r \in Reviews :
        answer[r] = "200" /\ target[r] \in {"VERIFIED", "REJECTED"} =>
            /\ vendors[found[r]].verification = target[r]
            /\ \A s \in Reviews :
                  answer[s] = "200" /\ found[s] = found[r]
                      /\ target[s] \in {"VERIFIED", "REJECTED"} => s = r

ActiveIsVerified ==
    \A v \in Vendors :
        vendors[v].status = "ACTIVE" => vendors[v].verification = "VERIFIED"

\* Two administrators are never both told that their final decision on one
\* vendor holds, and the decision that was confirmed is the one that stands;
\* an ACTIVE vendor is VERIFIED, whatever the reviews and the operator did
\* since the activation was decided.
DecisionsStand == OneDecision /\ ActiveIsVerified

\* vendor-shop.md section 6: verification only moves along the documented
\* transitions, and only a PENDING, VERIFIED vendor is activated - one that the
\* operator restricted while the activation was under way is not.
VendorLifecycle ==
    [][\A v \in Vendors :
          /\ vendors[v].verification # vendors'[v].verification =>
                vendors[v].verification \in AllowedFrom(vendors'[v].verification)
          /\ vendors'[v].status = "ACTIVE" =>
                \/ vendors[v].status = "ACTIVE"
                \/ /\ vendors[v].status = "PENDING"
                   /\ vendors[v].verification = "VERIFIED"]_vars

\* A request writes its row last and answers once; what it has read is still
\* there when it writes, for no row is ever deleted.
RequestsSound ==
    /\ \A r \in Requests : pc[r] # "done" => answer[r] = "none"
    /\ \A r \in Registrations : accounts[r] # None => pc[r] = "done"
    /\ \A r \in Applications : vendors[r] # None => pc[r] = "done"
    /\ \A r \in Openings : shops[r] # None => pc[r] = "done"
    /\ \A r \in Applications : pc[r] = "insert" => IsRegistered(UserOf[r])
    /\ \A r \in Openings :
          pc[r] \in {"find shop", "insert"} => found[r] \in Vendors
    /\ \A r \in Decisions : pc[r] = "write" => found[r] \in Vendors
    /\ \A r \in Reviews : pc[r] = "write" => from[r] \in AllowedFrom(target[r])
    /\ \A r \in Reviews : answer[r] = "200" => found[r] \in Vendors

\* The inductive invariant behind these properties.
OnboardingInv == TypeOK /\ RequestsSound /\ OneOfEach /\ DecisionsStand

----------------------------------------------------------------------------
\* What the documents say and the code does not keep (README.md).

\* update-shop.dto.ts:67: "SUSPENDED is platform/administrator-controlled":
\* no request of a shop's owner ends a suspension.
SuspensionStays ==
    [][\A s \in Shops :
          shops[s].status = "SUSPENDED" => shops'[s].status = "SUSPENDED"]_vars
============================================================================
