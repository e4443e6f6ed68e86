------------------------------- MODULE Access -------------------------------
(***************************************************************************)
(* What the guards and services ask before a request is let in, one query  *)
(* at a time, while the account, its roles, their permissions and the      *)
(* resource change.                                                        *)
(*                                                                         *)
(* Requests change nothing that these queries read of each other, so one   *)
(* request of one account stands for all.  The routes that have the same   *)
(* checks and the same documented rule are one case.                       *)
(***************************************************************************)
EXTENDS Routes, Integers, FiniteSets

CONSTANTS
    Grants,         \* the role-permission pairs that may be granted
    MaxChanges      \* changes of the data during the request

ASSUME AccessAssumption ==
    /\ MaxChanges \in Nat
    /\ \A g \in Grants : DOMAIN g = {"role", "permission"}

Roles == {"ADMIN", "VENDOR"}
Permissions == {"products:read", "inventory:adjust"}

\* "active": the user exists and User.status is ACTIVE; "vendor": the user
\* has a vendor profile that is not deleted; "exists": the resource the path or
\* body names has a row that is not deleted; "public": the product is ACTIVE.
Attributes == {"active", "vendor", "exists", "public"} \cup Roles

Cases == {[protection |-> e.protection, rule |-> Rule(e.route)] : e \in Routes}

VARIABLES
    held,       \* the Attributes that hold now
    granted,    \* the Grants that hold now
    request,    \* the case, whether a token is sent, and whether
                \* the resource, when it exists, is the caller's
    at,         \* the check the request has reached
    asking,     \* its next query in that check
    identity,   \* req.user is set
    pending,    \* the parallel queries that have not been answered
    matched,    \* those that were answered with TRUE
    outcome,    \* "none", "admitted" or the status of the refusal
    ever,       \* the facts that have held at some time of the request
    always,     \* the facts that have held at all times of it
    changes,    \* changes made
    failed      \* history: whether a query of the request has failed

data == <<held, granted, ever, always, changes>>
progress == <<at, asking, identity, pending, matched, outcome>>
accessVars == <<data, request, progress, failed>>

\* The attributes, and the permissions reached through a role.
FactsOf(h, g) ==
    h \cup {p \in Permissions :
                \E r \in h : [role |-> r, permission |-> p] \in g}

AccessInit ==
    /\ held \in SUBSET Attributes
    /\ granted \in SUBSET Grants
    /\ request \in [case : Cases, token : BOOLEAN, owns : BOOLEAN]
    /\ at = 1 /\ asking = "check" /\ identity = FALSE
    /\ pending = {} /\ matched = {}
    /\ outcome = "none"
    /\ ever = FactsOf(held, granted) /\ always = ever
    /\ changes = 0
    /\ failed = FALSE

Checks == request.case.protection.checks
RequiredRoles == request.case.protection.roles
RequiredPermissions == request.case.protection.permissions

\* The request has come to this query of this check.
At(check, query) ==
    /\ outcome = "none"
    /\ at <= Len(Checks) /\ Checks[at] = check /\ asking = query

Pass ==
    /\ at' = at + 1
    /\ asking' = "check"
    /\ UNCHANGED <<pending, matched, outcome>>

ProceedTo(query) ==
    /\ asking' = query
    /\ UNCHANGED <<at, pending, matched, outcome>>

Refuse(code) ==
    /\ outcome' = code
    /\ UNCHANGED <<at, asking, pending, matched>>

----------------------------------------------------------------------------
\* A valid token, whose user exists and may authenticate now.
Authenticated == request.token /\ "active" \in held

\* JwtAuthGuard
CheckJwt ==
    /\ At("jwt", "check")
    /\ identity' = Authenticated
    /\ IF Authenticated THEN Pass ELSE Refuse("401")

\* OptionalJwtAuthGuard
CheckOptionalJwt ==
    /\ At("optional jwt", "check")
    /\ identity' = Authenticated
    /\ Pass

----------------------------------------------------------------------------
\* AuthorizationGuard: the queries of the roles run in parallel, then those of
\* the permissions.

\* Mutant: every role is required.
EnoughRolesAll(found) == RequiredRoles \subseteq found

EnoughRoles(found) == RequiredRoles = {} \/ RequiredRoles \cap found # {}

\* Mutant: any permission suffices.
EnoughPermissionsAny(found) ==
    RequiredPermissions = {} \/ RequiredPermissions \cap found # {}

EnoughPermissions(found) == RequiredPermissions \subseteq found

Ask(query, what) ==
    /\ asking' = query /\ pending' = what /\ matched' = {}
    /\ UNCHANGED <<at, outcome>>

CheckAuthorization ==
    /\ At("authorization", "check")
    /\ UNCHANGED identity
    /\ IF ~identity THEN Refuse("401") ELSE Ask("roles", RequiredRoles)

\* One of the parallel queries is answered, from the data of this moment.
AnswerOne ==
    /\ \E q \in pending :
          /\ pending' = pending \ {q}
          /\ matched' = IF q \in FactsOf(held, granted) THEN matched \cup {q}
                                                        ELSE matched
    /\ UNCHANGED <<at, asking, identity, outcome>>

CheckRoles ==
    /\ At("authorization", "roles")
    /\ \/ AnswerOne
       \/ /\ pending = {}
          /\ UNCHANGED identity
          /\ IF EnoughRoles(matched)
             THEN Ask("permissions", RequiredPermissions)
             ELSE Refuse("403")

CheckPermissions ==
    /\ At("authorization", "permissions")
    /\ \/ AnswerOne
       \/ /\ pending = {}
          /\ UNCHANGED identity
          /\ IF EnoughPermissions(matched) THEN Pass ELSE Refuse("403")

----------------------------------------------------------------------------
\* Ownership: the ADMIN bypass, then the caller's vendor, then the row.

AskAdmin(check) ==
    /\ At(check, "admin")
    /\ UNCHANGED identity
    /\ IF "ADMIN" \in held THEN Pass ELSE ProceedTo("vendor")

AskVendor(check) ==
    /\ At(check, "vendor")
    /\ UNCHANGED identity
    /\ IF "vendor" \in held THEN ProceedTo("owner") ELSE Refuse("403")

\* The resource exists and has this vendor's, or this customer's, id.
OwnResource == "exists" \in held /\ request.owns

AskOwner(check) ==
    /\ At(check, "owner")
    /\ UNCHANGED identity
    /\ IF OwnResource THEN Pass ELSE Refuse("403")

AskOwnership(check) == AskAdmin(check) \/ AskVendor(check) \/ AskOwner(check)

OwnershipGuard(check) ==
    \/ /\ At(check, "check")
       /\ UNCHANGED identity
       /\ IF ~identity THEN Refuse("401") ELSE ProceedTo("admin")
    \/ AskOwnership(check)

VendorShopOwnershipGuard == OwnershipGuard("shop owner")
ProductOwnershipGuard == OwnershipGuard("product owner")
VendorOrderOwnershipGuard == OwnershipGuard("vendor order owner")

\* Mutant: a stranger is told that the product exists.
HideForbids == Refuse("403")

\* A missing product, and to a stranger one that is not ACTIVE, is not found.
Hide == Refuse("404")

\* resolveStreamable asks for ownership when the product is not ACTIVE.
ResolveStreamable ==
    \/ /\ At("visibility", "check")
       /\ UNCHANGED identity
       /\ IF {"exists", "public"} \subseteq held THEN Pass
          ELSE IF "exists" \in held /\ identity THEN ProceedTo("admin")
          ELSE Hide
    \/ AskOwnership("visibility")

----------------------------------------------------------------------------
\* The checks of the services.

CheckVendor ==
    /\ At("vendor", "check")
    /\ UNCHANGED identity
    /\ IF "vendor" \in held THEN Pass ELSE Refuse("403")

CheckCustomer ==
    /\ At("customer", "check")
    /\ UNCHANGED identity
    /\ IF OwnResource THEN Pass ELSE Refuse("403")

\* A missing resource is refused before the ADMIN role is asked for.
OwnOrAdmin(check) ==
    /\ UNCHANGED identity
    /\ \/ /\ At(check, "check")
          /\ IF OwnResource THEN Pass
             ELSE IF "exists" \in held THEN ProceedTo("admin") ELSE Refuse("403")
       \/ /\ At(check, "admin")
          /\ IF "ADMIN" \in held THEN Pass ELSE Refuse("403")

FindMyOrder == OwnOrAdmin("order view")
FindPayment == OwnOrAdmin("payment view")

----------------------------------------------------------------------------
\* All checks have passed, and the handler's work begins.
Admit ==
    /\ outcome = "none" /\ at > Len(Checks)
    /\ outcome' = "admitted"
    /\ UNCHANGED <<at, asking, identity, pending, matched>>

\* Mutant: an error of a query counts as a match.
PassOnError == UNCHANGED identity /\ Pass

\* A lookup of the token's user that fails is "no such user"; any other
\* failure is an internal error.
FailQuery ==
    IF Checks[at] = "optional jwt"
    THEN identity' = FALSE /\ Pass
    ELSE /\ UNCHANGED identity
         /\ Refuse(IF Checks[at] = "jwt" THEN "401" ELSE "500")

\* The guards that begin without a query.
OwnerChecks == {"shop owner", "product owner", "vendor order owner"}

QueryFails ==
    /\ outcome = "none" /\ at <= Len(Checks)
    /\ Checks[at] = "authorization" => pending # {}
    /\ Checks[at] \in OwnerChecks => asking # "check"
    /\ FailQuery
    /\ failed' = TRUE
    /\ UNCHANGED <<request, data>>

AccessStep ==
    /\ \/ CheckJwt \/ CheckOptionalJwt
       \/ CheckAuthorization \/ CheckRoles \/ CheckPermissions
       \/ VendorShopOwnershipGuard \/ ProductOwnershipGuard
       \/ VendorOrderOwnershipGuard \/ ResolveStreamable
       \/ CheckVendor \/ CheckCustomer \/ FindMyOrder \/ FindPayment
       \/ Admit
    /\ UNCHANGED <<request, data, failed>>

\* A status, a role, a profile, a resource or a role's permission changes.
Change ==
    /\ outcome = "none" /\ changes < MaxChanges
    /\ \/ \E a \in Attributes :
             held' = (held \ {a}) \cup ({a} \ held) /\ UNCHANGED granted
       \/ \E g \in Grants :
             granted' = (granted \ {g}) \cup ({g} \ granted) /\ UNCHANGED held
    /\ ever' = ever \cup FactsOf(held', granted')
    /\ always' = always \cap FactsOf(held', granted')
    /\ changes' = changes + 1
    /\ UNCHANGED <<request, progress, failed>>

AccessNext == AccessStep \/ QueryFails \/ Change

AccessSpec == AccessInit /\ [][AccessNext]_accessVars

----------------------------------------------------------------------------
Refusals == {"401", "403", "404"}

AccessTypeOK ==
    /\ held \subseteq Attributes
    /\ granted \subseteq Grants
    /\ at \in 1..Len(Checks) + 1
    /\ asking \in {"check", "roles", "permissions", "admin", "vendor", "owner"}
    /\ identity \in BOOLEAN
    /\ pending \cup matched \subseteq Roles \cup Permissions
    /\ outcome \in {"none", "admitted", "500"} \cup Refusals
    /\ always \subseteq FactsOf(held, granted)
    /\ FactsOf(held, granted) \subseteq ever
    /\ changes \in 0..MaxChanges
    /\ failed \in BOOLEAN

IsUser(f) == request.token /\ "active" \in f

Owns(f) == "exists" \in f /\ request.owns

IsOwner(f) == "ADMIN" \in f \/ ("vendor" \in f /\ Owns(f))

\* Whether these facts entitle the caller to the route by its documented rule.
Entitled(f) ==
    LET rule == request.case.rule
    IN  CASE rule = "anyone" -> TRUE
          [] rule = "visible or owner" ->
                "exists" \in f /\ ("public" \in f \/ (IsUser(f) /\ IsOwner(f)))
          [] OTHER ->
             /\ IsUser(f)
             /\ CASE rule = "user" -> TRUE
                  [] rule = "owner" -> IsOwner(f)
                  [] rule = "vendor" -> "vendor" \in f
                  [] rule = "customer" -> Owns(f)
                  [] rule = "customer or admin" ->
                        "exists" \in f /\ (request.owns \/ "ADMIN" \in f)
                  [] rule = "ADMIN or VENDOR" -> Roles \cap f # {}
                  [] rule = "ADMIN and products:read" ->
                        {"ADMIN", "products:read"} \subseteq f
                  [] rule = "products:read and inventory:adjust" ->
                        Permissions \subseteq f
                  [] OTHER -> rule \in f

\* docs/API.md:285-311, docs/architecture.md section 22: on every route, whoever
\* is let in has met each condition of the documented rule during this very
\* request; nothing that was lost before it, and no failing query, admits.
AdmittedWasEntitled == outcome = "admitted" => Entitled(ever)

\* Whoever meets the documented rule for as long as the request runs, for a
\* resource that exists as long, is not refused, in whatever order the parallel
\* queries are answered, unless one of them fails.
EntitledIsAdmitted == outcome \in Refusals /\ ~failed => ~Entitled(always)

\* docs/API.md:67-72: a refusal can be relied on.  401 means that there is no
\* identity; 403 that there is one; 404 that the resource was missing at some
\* time, or was not public to a caller who was not known throughout; and 500
\* that a query failed.  A failing look-up of the token's user counts as a
\* missing identity.
RefusalTellsWhy ==
    /\ outcome = "401" => ~IsUser(always) \/ failed
    /\ outcome = "403" => IsUser(ever)
    /\ outcome = "404" =>
          \/ "exists" \notin always
          \/ "public" \notin always /\ (~IsUser(always) \/ failed)
    /\ outcome = "500" => failed

----------------------------------------------------------------------------
\* What the documents say and the code does not keep.

\* docs/API.md:68: a caller who is known and no ADMIN is told 403 for a resource
\* that is missing, just as for one of somebody else, so that its existence is
\* not told.  The stream of an image answers 404 for a missing product and 403
\* for a foreign one: product-images.service.ts:155, 182.
ExistenceHidden ==
    outcome = "404" => ~IsUser(always) \/ failed \/ "ADMIN" \in ever

\* docs/API.md:71: an ADMIN is told 404 for a resource that is missing.  The
\* views of an order and of a payment answer 403: orders.service.ts:66,
\* payments.service.ts:219.
MissingToldToAdmin ==
    outcome = "403" /\ request.case.rule = "customer or admin"
                    /\ IsUser(always) /\ "ADMIN" \in always => "exists" \in ever
============================================================================
