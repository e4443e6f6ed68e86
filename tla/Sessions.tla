------------------------------ MODULE Sessions ------------------------------
(***************************************************************************)
(* AuthService: login, refresh and logout on the refresh_tokens table.     *)
(*                                                                         *)
(* A request runs once, and the token it inserts is named after it; a      *)
(* family is named after the login that starts it.  (The code draws random *)
(* tokens and UUIDs and stores a keyed hash of each token.)  Transactions  *)
(* are READ COMMITTED: tokens holds committed rows; a token that an open   *)
(* refresh has claimed is locked, and looks live to everybody else until   *)
(* that refresh commits.                                                   *)
(***************************************************************************)
EXTENDS Integers, FiniteSets

CONSTANTS
    Users,
    Logins,         \* POST /auth/login
    Refreshes,      \* POST /auth/refresh
    Logouts,        \* POST /auth/logout
    UserOf,         \* the user of each login and logout
    None            \* "no such row", Prisma's null

Tokens == Logins \cup Refreshes
Requests == Tokens \cup Logouts

ASSUME RequestsAssumption ==
    /\ Logins \cap Refreshes = {}
    /\ Tokens \cap Logouts = {}
    /\ UserOf \in [Logins \cup Logouts -> Users]

UserStatuses == {"ACTIVE", "SUSPENDED", "BLOCKED"}

\* parent, the token a rotation consumed, is not a column.
TokenRow == [user : Users, family : Logins, parent : Tokens \cup {None},
             revoked : BOOLEAN, expired : BOOLEAN]

ASSUME NoneAssumption == None \notin Requests \cup TokenRow

VARIABLES
    tokens,     \* tokens[t]: the row inserted by request t, or None
    status,     \* status[u]: User.status
    pc,         \* pc[r]: where request r is in its handler
    answer,     \* answer[r]: the response of a finished request
    presented,  \* presented[r]: the token in r's body, or None
    doomed      \* doomed[r]: the tokens that r's family revocation has found

locals == <<presented, doomed>>
vars == <<tokens, status, pc, answer, locals>>

Goto(r, place) ==
    /\ pc' = [pc EXCEPT ![r] = place]
    /\ UNCHANGED answer

Finish(r, a) ==
    /\ pc' = [pc EXCEPT ![r] = "done"]
    /\ answer' = [answer EXCEPT ![r] = a]

\* What has not been committed is rolled back.
Fail(r, a) == Finish(r, a) /\ UNCHANGED <<tokens, locals>>

Inserted == {t \in Tokens : tokens[t] # None}

\* revokedAt IS NULL
Live(t) == tokens[t] # None /\ ~tokens[t].revoked

\* The tokens of t's family that are not revoked.
LiveFamily(f) == {t \in Inserted : tokens[t].family = f /\ Live(t)}

Rotating == {"claimed", "rotating"}

\* The row that an open refresh has claimed.
Locked(t) == \E r \in Refreshes : pc[r] \in Rotating /\ presented[r] = t

Init ==
    /\ tokens = [t \in Tokens |-> None]
    /\ status = [u \in Users |-> "ACTIVE"]
    /\ pc = [r \in Requests |-> "new"]
    /\ answer = [r \in Requests |-> "none"]
    /\ presented = [r \in Requests |-> None]
    /\ doomed = [r \in Requests |-> {}]

\* isAuthenticatable
IsAuthenticatable(u) == status[u] = "ACTIVE"

----------------------------------------------------------------------------
\* login

\* The user is read once; wrong credentials are a 401, and a status that may
\* not authenticate a 403 after them.
CheckCredentials(r) ==
    /\ pc[r] = "new"
    /\ \/ Fail(r, "401")
       \/ ~IsAuthenticatable(UserOf[r]) /\ Fail(r, "403")
       \/ /\ IsAuthenticatable(UserOf[r])
          /\ Goto(r, "checked") /\ UNCHANGED <<tokens, locals>>
    /\ UNCHANGED status

\* The token of a new family, after lastLoginAt.
StartSession(r) ==
    /\ pc[r] = "checked"
    /\ tokens' = [tokens EXCEPT ![r] =
                     [user |-> UserOf[r], family |-> r, parent |-> None,
                      revoked |-> FALSE, expired |-> FALSE]]
    /\ Finish(r, "200")
    /\ UNCHANGED <<status, locals>>

Login(r) == CheckCredentials(r) \/ StartSession(r)

----------------------------------------------------------------------------
\* The updateMany that revokes a family finds the rows by its snapshot, waits
\* for those that are locked and looks at them again.  (At most one row of a
\* family is live, so it does not hold one while it waits for another.)

Snapshot(r) == LiveFamily(tokens[presented[r]].family)

FindFamily(r) ==
    /\ pc[r] = "revoking"
    /\ doomed' = [doomed EXCEPT ![r] = Snapshot(r)]
    /\ Goto(r, "waiting")
    /\ UNCHANGED <<tokens, status, presented>>

RevokeFamily(r) ==
    /\ pc[r] = "waiting"
    /\ \A t \in doomed[r] : ~Locked(t)
    /\ tokens' = [t \in Tokens |-> IF t \in doomed[r]
                                   THEN [tokens[t] EXCEPT !.revoked = TRUE]
                                   ELSE tokens[t]]
    /\ Finish(r, IF r \in Logouts THEN "204" ELSE "401")
    /\ UNCHANGED <<status, locals>>

----------------------------------------------------------------------------
\* refresh

\* Mutant: the token is claimed by its hash alone.
ClaimsAny(t) == tokens[t] # None

\* The WHERE clause of the claiming updateMany.
Claims(t) == Live(t) /\ ~tokens[t].expired

\* Mutant: the claim does not wait for another claim of the same token.
NobodyElse(t) == TRUE

\* The row is not locked by another transaction.
Claimable(t) == ~Locked(t)

Claim(r) ==
    /\ pc[r] = "new"
    /\ \/ /\ Fail(r, "401")     \* an unknown token
       \/ \E t \in Inserted :
             /\ Claimable(t)
             /\ presented' = [presented EXCEPT ![r] = t]
             /\ IF Claims(t) THEN Goto(r, "claimed") ELSE Goto(r, "not claimed")
             /\ UNCHANGED <<tokens, doomed>>
    /\ UNCHANGED status

\* A token that is revoked by now was used before: its family is revoked.
DetectReuse(r) ==
    /\ pc[r] = "not claimed"
    /\ IF Live(presented[r])
       THEN Fail(r, "401")
       ELSE Goto(r, "revoking") /\ UNCHANGED <<tokens, locals>>
    /\ UNCHANGED status

\* An account that may not authenticate loses the token and gets no other.
CheckAccount(r) ==
    /\ pc[r] = "claimed"
    /\ IF IsAuthenticatable(tokens[presented[r]].user)
       THEN Goto(r, "rotating") /\ UNCHANGED tokens
       ELSE /\ tokens' = [tokens EXCEPT ![presented[r]].revoked = TRUE]
            /\ Finish(r, "401")
    /\ UNCHANGED <<status, locals>>

\* The token that replaces t.
Successor(t) ==
    [user |-> tokens[t].user, family |-> tokens[t].family, parent |-> t,
     revoked |-> FALSE, expired |-> FALSE]

\* t revoked and replaced by r's token.
Replace(r, t) == [tokens EXCEPT ![t].revoked = TRUE, ![r] = Successor(t)]

\* The commit of the claim and of the new token.
Rotate(r) ==
    /\ pc[r] = "rotating"
    /\ tokens' = Replace(r, presented[r])
    /\ Finish(r, "200")
    /\ UNCHANGED <<status, locals>>

RefreshStep(r) ==
    \/ Claim(r)
    \/ DetectReuse(r)
    \/ FindFamily(r)
    \/ RevokeFamily(r)
    \/ CheckAccount(r)
    \/ Rotate(r)

----------------------------------------------------------------------------
\* logout

\* Mutant: whoever holds a token may log its session out.
AnybodysToken(r, t) == TRUE

OwnToken(r, t) == tokens[t].user = UserOf[r]

\* An unknown token, or another user's, is answered as a success.
FindToken(r) ==
    /\ pc[r] = "new"
    /\ \/ Fail(r, "204")
       \/ \E t \in Inserted :
             \/ ~OwnToken(r, t) /\ Fail(r, "204")
             \/ /\ OwnToken(r, t)
                /\ presented' = [presented EXCEPT ![r] = t]
                /\ Goto(r, "revoking")
                /\ UNCHANGED <<tokens, doomed>>
    /\ UNCHANGED status

Logout(r) == FindToken(r) \/ FindFamily(r) \/ RevokeFamily(r)

----------------------------------------------------------------------------
\* An operator changes a user's status in the database.
ChangeStatus(u) ==
    /\ \E s \in UserStatuses \ {status[u]} : status' = [status EXCEPT ![u] = s]
    /\ UNCHANGED <<tokens, pc, answer, locals>>

\* The clock passes a token's expiresAt.
Expire(t) ==
    /\ t \in Inserted /\ ~tokens[t].expired
    /\ tokens' = [tokens EXCEPT ![t].expired = TRUE]
    /\ UNCHANGED <<status, pc, answer, locals>>

\* The request dies, and its transaction is rolled back.
Interrupt(r) ==
    /\ pc[r] \notin {"new", "done"}
    /\ Fail(r, "5xx")
    /\ UNCHANGED status

Step(r) ==
    \/ r \in Logins /\ Login(r)
    \/ r \in Refreshes /\ RefreshStep(r)
    \/ r \in Logouts /\ Logout(r)

Next ==
    \/ \E r \in Requests : Step(r) \/ Interrupt(r)
    \/ \E u \in Users : ChangeStatus(u)
    \/ \E t \in Tokens : Expire(t)

Spec == Init /\ [][Next]_vars

----------------------------------------------------------------------------
TypeOK ==
    /\ tokens \in [Tokens -> TokenRow \cup {None}]
    /\ status \in [Users -> UserStatuses]
    /\ pc \in [Requests -> {"new", "checked", "claimed", "rotating",
                            "not claimed", "revoking", "waiting", "done"}]
    /\ answer \in [Requests -> {"none", "200", "204", "401", "403", "5xx"}]
    /\ presented \in [Requests -> Tokens \cup {None}]
    /\ doomed \in [Requests -> SUBSET Tokens]

\* A session has at most one token that still works, however many requests
\* present its tokens at once.
OneLiveToken ==
    \A t, s \in Inserted :
        Live(t) /\ Live(s) /\ tokens[t].family = tokens[s].family => t = s

\* A session is one chain of rotations from its login: every other token
\* replaced a token of the same session and user that no longer works, and no
\* token was replaced twice.
SessionIsChain ==
    /\ \A t \in Inserted \cap Logins :
          tokens[t].family = t /\ tokens[t].parent = None
    /\ \A t \in Inserted \cap Refreshes :
          LET p == tokens[t].parent
          IN  /\ p \in Inserted /\ ~Live(p)
              /\ tokens[p].family = tokens[t].family
              /\ tokens[p].user = tokens[t].user
    /\ \A t, s \in Inserted \cap Refreshes :
          tokens[t].parent = tokens[s].parent => t = s

\* A session whose tokens are all revoked never comes back: no request that
\* was in flight when the last one was revoked brings it a new token.
DeadSessionStaysDead ==
    [][\A f \in Logins :
          f \in Inserted /\ LiveFamily(f) = {} => LiveFamily(f)' = {}]_vars

\* Sessions are independent: a token stops working only by a request that
\* presented a token of its session, and a logout only ends a session of the
\* user who logs out.
SessionsIndependent ==
    [][\A t \in Inserted : Live(t) /\ ~Live(t)' =>
          \E r \in Refreshes \cup Logouts :
             /\ pc[r] # "done" /\ pc'[r] = "done"
             /\ tokens[presented[r]].family = tokens[t].family
             /\ r \in Logouts => UserOf[r] = tokens[t].user]_vars

\* A request inserts its token last; a rotation holds a live token alone; a
\* family is named after a token that exists.
RequestsSound ==
    /\ \A r \in Tokens : tokens[r] # None => pc[r] = "done"
    /\ \A r \in Refreshes : pc[r] \in Rotating =>
          presented[r] \in Inserted /\ Live(presented[r])
    /\ \A r, s \in Refreshes :
          /\ pc[r] \in Rotating /\ pc[s] \in Rotating
          /\ presented[r] = presented[s]
          => r = s
    /\ \A r \in Requests :
          pc[r] \in {"not claimed", "revoking", "waiting"} =>
              presented[r] \in Inserted
    /\ \A r \in Requests : doomed[r] \subseteq Inserted
    /\ \A t \in Inserted : tokens[t].family \in Inserted

\* The inductive invariant behind the session properties.
SessionInv == TypeOK /\ RequestsSound /\ OneLiveToken /\ SessionIsChain

----------------------------------------------------------------------------
\* What the documents say and the code does not keep (README.md).

Ended(r) == LiveFamily(tokens[presented[r]].family) = {}

\* docs/architecture.md:767: "the entire family is revoked immediately, so
\* every token in that chain - not just the reused one - stops working".
ReuseEndsSession ==
    \A r \in Refreshes :
        pc[r] = "done" /\ doomed[r] # {} /\ answer[r] = "401" => Ended(r)

\* auth.service.ts:290: "logout this session" means "revoke every still-active
\* token in this family".
LogoutEndsSession ==
    \A r \in Logouts :
        answer[r] = "204" /\ presented[r] # None => Ended(r)

\* auth.service.ts:250: "a suspended/blocked account must not receive a new
\* refresh token either".  One that is blocked after refresh has read it does.
BlockedGetsNoToken ==
    [][\A r \in Refreshes :
          tokens[r] = None /\ tokens'[r] # None =>
              IsAuthenticatable(tokens'[r].user)]_vars
============================================================================
