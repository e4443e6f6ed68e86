----------------------------- MODULE AuthProofs -----------------------------
(***************************************************************************)
(* For any users, logins, refreshes and logouts: a session is one chain of *)
(* rotations with at most one token that works, a session whose tokens are *)
(* all revoked never comes back, and a token stops working only by a       *)
(* request of its own session (SessionInv).                                *)
(* For any grants and changes of the data: whoever is let in was entitled  *)
(* during the request, whoever stays entitled is let in, and a refusal     *)
(* says why (AccessInv).                                                   *)
(***************************************************************************)
EXTENDS Sessions, Access, TLAPS

\* A step after which every row is the row it was, or that row revoked or
\* expired.
Faded ==
    \A t \in Tokens :
        /\ tokens[t] = None <=> tokens'[t] = None
        /\ tokens[t] # None =>
              /\ tokens'[t].user = tokens[t].user
              /\ tokens'[t].family = tokens[t].family
              /\ tokens'[t].parent = tokens[t].parent
              /\ tokens[t].revoked => tokens'[t].revoked

\* Rows that fade keep a session one chain with at most one live token.
LEMMA FadedKeeps ==
    ASSUME OneLiveToken, SessionIsChain, Faded
    PROVE  OneLiveToken' /\ SessionIsChain'
<1>1. Inserted' = Inserted
  BY DEF Faded, Inserted
<1>2. \A t \in Tokens : Live(t)' => Live(t)
  BY DEF Faded, Live
<1>3. Inserted \subseteq Tokens
  BY DEF Inserted
<1>4. OneLiveToken'
  <2> SUFFICES ASSUME NEW t \in Inserted', NEW s \in Inserted',
                      Live(t)', Live(s)', tokens'[t].family = tokens'[s].family
               PROVE  t = s
    BY DEF OneLiveToken
  <2>1. t \in Inserted /\ s \in Inserted /\ Live(t) /\ Live(s)
    BY <1>1, <1>2, <1>3
  <2>2. tokens[t].family = tokens[s].family
    BY <1>3, <2>1 DEF Faded, Inserted
  <2> QED
    BY <2>1, <2>2 DEF OneLiveToken
<1>5. SessionIsChain'
  <2>1. ASSUME NEW t \in Inserted
        PROVE  /\ tokens'[t].user = tokens[t].user
               /\ tokens'[t].family = tokens[t].family
               /\ tokens'[t].parent = tokens[t].parent
    BY DEF Faded, Inserted
  <2>2. \A t \in Inserted : ~Live(t) => ~Live(t)'
    BY <1>2, <1>3
  <2> QED
    BY <1>1, <2>1, <2>2 DEF SessionIsChain
<1> QED
  BY <1>4, <1>5

\* A step that touches no row and moves request r alone preserves the invariant
\* when r's new place is sound.
LEMMA LocalInv ==
    ASSUME SessionInv, NEW r \in Requests, UNCHANGED tokens, TypeOK',
           \A q \in Requests \ {r} :
               pc'[q] = pc[q] /\ presented'[q] = presented[q]
                              /\ doomed'[q] = doomed[q],
           pc[r] # "done",
           pc'[r] \in Rotating /\ r \in Refreshes =>
               /\ presented'[r] \in Inserted /\ Live(presented'[r])
               /\ \/ pc[r] \in Rotating /\ presented'[r] = presented[r]
                  \/ ~Locked(presented'[r]),
           pc'[r] \in {"not claimed", "revoking", "waiting"} =>
               presented'[r] \in Inserted,
           doomed'[r] \subseteq Inserted
    PROVE  SessionInv'
<1> USE DEF SessionInv
<1>1. Inserted' = Inserted /\ \A t : Live(t)' = Live(t)
  BY DEF Inserted, Live
<1>2. OneLiveToken' /\ SessionIsChain'
  BY <1>1 DEF OneLiveToken, SessionIsChain
<1>3. \A q \in Tokens : tokens[q] # None => pc'[q] = "done"
  BY DEF RequestsSound, Requests
<1>4. \A q \in Refreshes : pc'[q] \in Rotating =>
          presented'[q] \in Inserted /\ Live(presented'[q])
  BY DEF RequestsSound, Requests, Tokens
<1>5. ASSUME NEW q \in Refreshes, NEW s \in Refreshes,
             pc'[q] \in Rotating, pc'[s] \in Rotating, presented'[q] = presented'[s]
      PROVE  q = s
  <2>1. q \in Requests /\ s \in Requests
    BY DEF Requests, Tokens
  <2> QED
    BY <1>5, <2>1 DEF RequestsSound, Locked
<1>6. \A q \in Requests :
          /\ pc'[q] \in {"not claimed", "revoking", "waiting"} =>
                presented'[q] \in Inserted
          /\ doomed'[q] \subseteq Inserted
  BY DEF RequestsSound
<1>7. \A t \in Inserted : tokens[t].family \in Inserted
  BY DEF RequestsSound
<1>8. RequestsSound'
  BY <1>1, <1>3, <1>4, <1>5, <1>6, <1>7 DEF RequestsSound
<1> QED
  BY <1>2, <1>8

\* A request that ends and writes no row preserves the invariant.
LEMMA FailInv ==
    ASSUME SessionInv, NEW r \in Requests, pc[r] # "done",
           NEW a \in {"200", "204", "401", "403", "5xx"}, Fail(r, a),
           UNCHANGED status
    PROVE  SessionInv'
<1>1. TypeOK'
  BY DEF SessionInv, TypeOK, Fail, Finish, locals
<1>2. /\ pc' = [pc EXCEPT ![r] = "done"]
      /\ UNCHANGED <<tokens, presented, doomed>>
  BY DEF Fail, Finish, locals
<1>3. pc \in [Requests -> {"new", "checked", "claimed", "rotating",
                           "not claimed", "revoking", "waiting", "done"}]
  BY DEF SessionInv, TypeOK
<1>4. pc'[r] = "done" /\ \A q \in Requests \ {r} : pc'[q] = pc[q]
  BY <1>2, <1>3
<1>5. doomed'[r] \subseteq Inserted
  BY <1>2 DEF SessionInv, RequestsSound
<1> QED
  BY <1>1, <1>2, <1>4, <1>5, LocalInv DEF Rotating

LEMMA Small ==
    ASSUME SessionInv
    PROVE  /\ Inserted \subseteq Tokens
           /\ Tokens \subseteq Requests
           /\ \A t \in Inserted : tokens[t] \in TokenRow
           /\ \A t \in Inserted : t # None /\ pc[t] = "done"
BY NoneAssumption DEF SessionInv, TypeOK, RequestsSound, Inserted, Requests

----------------------------------------------------------------------------
\* The first rows: none.
LEMMA InitInv == Init => SessionInv
<1> SUFFICES ASSUME Init PROVE SessionInv
  OBVIOUS
<1>1. Inserted = {}
  BY DEF Init, Inserted
<1>2. TypeOK
  BY DEF Init, TypeOK, UserStatuses
<1>3. \A r \in Requests : pc[r] = "new" /\ doomed[r] = {}
  BY DEF Init
<1>4. RequestsSound
  BY <1>1, <1>3 DEF RequestsSound, Rotating, Requests, Tokens, Inserted
<1>5. OneLiveToken /\ SessionIsChain
  BY <1>1 DEF OneLiveToken, SessionIsChain
<1> QED
  BY <1>2, <1>4, <1>5 DEF SessionInv

LEMMA CheckCredentialsInv ==
    ASSUME SessionInv, NEW r \in Logins, CheckCredentials(r)
    PROVE  SessionInv'
<1>1. r \in Requests /\ pc[r] = "new"
  BY DEF CheckCredentials, Requests, Tokens
<1>2. CASE Fail(r, "401") \/ Fail(r, "403")
  BY <1>1, <1>2, FailInv DEF CheckCredentials
<1>3. CASE Goto(r, "checked") /\ UNCHANGED <<tokens, locals>>
  <2>1. TypeOK'
    BY <1>1, <1>3 DEF SessionInv, TypeOK, Goto, locals, CheckCredentials
  <2>2. \A q \in Requests : pc'[q] = IF q = r THEN "checked" ELSE pc[q]
    BY <1>1, <1>3 DEF SessionInv, TypeOK, Goto
  <2>3. UNCHANGED <<tokens, presented, doomed>>
    BY <1>3 DEF locals
  <2>4. doomed[r] \subseteq Inserted
    BY <1>1 DEF SessionInv, RequestsSound
  <2> QED
    BY <1>1, <2>1, <2>2, <2>3, <2>4, LocalInv DEF Rotating
<1> QED
  BY <1>2, <1>3 DEF CheckCredentials

\* The token of a new session is the only one of its family.
LEMMA StartSessionInv ==
    ASSUME SessionInv, NEW r \in Logins, StartSession(r)
    PROVE  SessionInv'
<1> DEFINE row == [user |-> UserOf[r], family |-> r, parent |-> None,
                   revoked |-> FALSE, expired |-> FALSE]
<1>1. r \in Requests /\ r \in Tokens /\ r \notin Refreshes /\ pc[r] = "checked"
  BY RequestsAssumption DEF StartSession, Requests, Tokens
<1>2. tokens[r] = None
  BY <1>1 DEF SessionInv, RequestsSound
<1>3. row \in TokenRow
  BY RequestsAssumption DEF TokenRow
<1>4. row # None
  BY <1>3, NoneAssumption
<1>5. TypeOK'
  BY <1>1, <1>3 DEF SessionInv, TypeOK, StartSession, Finish, locals
<1>6. \A t \in Tokens : tokens'[t] = IF t = r THEN row ELSE tokens[t]
  BY <1>1 DEF SessionInv, TypeOK, StartSession
<1>7. \A q \in Requests : pc'[q] = IF q = r THEN "done" ELSE pc[q]
  BY <1>1 DEF SessionInv, TypeOK, StartSession, Finish
<1>8. presented' = presented /\ doomed' = doomed
  BY DEF StartSession, locals
<1> HIDE DEF row
<1>9. /\ row.user = UserOf[r] /\ row.family = r /\ row.parent = None
      /\ row.revoked = FALSE
  BY DEF row
<1>10. Inserted' = Inserted \cup {r} /\ r \notin Inserted
  BY <1>1, <1>2, <1>4, <1>6 DEF Inserted
<1>11. \A t \in Inserted : tokens'[t] = tokens[t] /\ (Live(t)' <=> Live(t))
  BY <1>1, <1>2, <1>6 DEF Inserted, Live
<1>12. \A t \in Inserted : tokens[t].family # r
  BY <1>10 DEF SessionInv, RequestsSound
<1>13. OneLiveToken'
  BY <1>1, <1>6, <1>9, <1>10, <1>11, <1>12 DEF SessionInv, OneLiveToken
<1>14. SessionIsChain'
  <2>1. \A t \in (Inserted \cap Logins)' : tokens'[t].family = t /\ tokens'[t].parent = None
    BY <1>1, <1>6, <1>9, <1>10, <1>11 DEF SessionInv, SessionIsChain
  <2>2. (Inserted \cap Refreshes)' = Inserted \cap Refreshes
    BY <1>1, <1>10
  <2> QED
    BY <1>10, <1>11, <2>1, <2>2 DEF SessionInv, SessionIsChain
<1>15. RequestsSound'
  <2>1. \A q \in Tokens : tokens'[q] # None => pc'[q] = "done"
    BY <1>6, <1>7 DEF SessionInv, RequestsSound, Requests
  <2>2. \A q \in Refreshes : pc'[q] = pc[q]
    BY <1>1, <1>7 DEF Requests, Tokens
  <2>3. \A q \in Requests : pc'[q] \in {"not claimed", "revoking", "waiting"} => pc'[q] = pc[q]
    BY <1>7
  <2>4. \A t \in Inserted' : tokens'[t].family \in Inserted'
    BY <1>1, <1>6, <1>9, <1>10, <1>11 DEF SessionInv, RequestsSound
  <2> QED
    BY <1>8, <1>10, <1>11, <2>1, <2>2, <2>3, <2>4 DEF SessionInv, RequestsSound
<1> QED
  BY <1>5, <1>13, <1>14, <1>15 DEF SessionInv

LEMMA FindFamilyInv ==
    ASSUME SessionInv, NEW r \in Requests, FindFamily(r)
    PROVE  SessionInv'
<1>1. pc[r] = "revoking" /\ presented[r] \in Inserted
  BY DEF FindFamily, SessionInv, RequestsSound
<1>2. Snapshot(r) \subseteq Inserted /\ Inserted \subseteq Tokens
  BY DEF Snapshot, LiveFamily, Inserted
<1>3. TypeOK'
  BY <1>2 DEF SessionInv, TypeOK, FindFamily, Goto
<1>4. \A q \in Requests : /\ pc'[q] = IF q = r THEN "waiting" ELSE pc[q]
                          /\ doomed'[q] = IF q = r THEN Snapshot(r) ELSE doomed[q]
  BY DEF SessionInv, TypeOK, FindFamily, Goto
<1>5. UNCHANGED <<tokens, presented>>
  BY DEF FindFamily
<1> QED
  BY <1>1, <1>2, <1>3, <1>4, <1>5, LocalInv DEF Rotating

\* A family's UPDATE waits for the rows that open rotations hold, so no
\* rotation loses its token.
LEMMA RevokeFamilyInv ==
    ASSUME SessionInv, NEW r \in Requests, RevokeFamily(r)
    PROVE  SessionInv'
<1>1. pc[r] = "waiting" /\ doomed[r] \subseteq Inserted
  BY DEF RevokeFamily, SessionInv, RequestsSound
<1>2. \A t \in Tokens : tokens'[t] = IF t \in doomed[r]
                                     THEN [tokens[t] EXCEPT !.revoked = TRUE]
                                     ELSE tokens[t]
  BY DEF RevokeFamily
<1>3. \A t \in doomed[r] : t \in Tokens /\ tokens[t] \in TokenRow /\ tokens[t] # None
  BY <1>1, Small DEF Inserted
<1>4. ASSUME NEW t \in doomed[r]
      PROVE  /\ tokens'[t] \in TokenRow /\ tokens'[t] # None
             /\ tokens'[t].user = tokens[t].user
             /\ tokens'[t].family = tokens[t].family
             /\ tokens'[t].parent = tokens[t].parent
             /\ tokens'[t].revoked = TRUE
  <2>1. tokens[t] \in TokenRow /\ tokens'[t] = [tokens[t] EXCEPT !.revoked = TRUE]
    BY <1>2, <1>3
  <2>2. tokens'[t] \in TokenRow
    BY <2>1 DEF TokenRow
  <2> QED
    BY <2>1, <2>2, NoneAssumption DEF TokenRow
<1>5. Faded
  BY <1>2, <1>3, <1>4 DEF Faded
<1>6. OneLiveToken' /\ SessionIsChain'
  BY <1>5, FadedKeeps DEF SessionInv
<1>7. \A q \in Requests : pc'[q] = IF q = r THEN "done" ELSE pc[q]
  BY DEF SessionInv, TypeOK, RevokeFamily, Finish
<1>8. presented' = presented /\ doomed' = doomed
  BY DEF RevokeFamily, locals
<1>9. TypeOK'
  <2>1. tokens' \in [Tokens -> TokenRow \cup {None}]
    BY <1>2, <1>4 DEF RevokeFamily, SessionInv, TypeOK
  <2> QED
    BY <1>8, <2>1 DEF RevokeFamily, Finish, SessionInv, TypeOK
<1>10. Inserted' = Inserted
  BY <1>5 DEF Faded, Inserted
<1>11. RequestsSound'
  <2>1. \A q \in Tokens : tokens'[q] # None => pc'[q] = "done"
    BY <1>5, <1>7 DEF Faded, SessionInv, RequestsSound, Requests
  <2>2. \A q \in Refreshes : pc'[q] \in Rotating => pc[q] = pc'[q]
    BY <1>7 DEF Rotating, Requests, Tokens
  <2>3. ASSUME NEW q \in Refreshes, pc'[q] \in Rotating
        PROVE  presented[q] \in Inserted /\ Live(presented[q])'
    <3>1. presented[q] \in Inserted /\ Live(presented[q])
      BY <2>2, <2>3 DEF SessionInv, RequestsSound
    <3>2. presented[q] \notin doomed[r]
      BY <2>2, <2>3 DEF RevokeFamily, Locked
    <3> QED
      BY <1>2, <1>8, <3>1, <3>2 DEF Inserted, Live
  <2>4. \A q \in Requests : pc'[q] \in {"not claimed", "revoking", "waiting"} => pc'[q] = pc[q]
    BY <1>7
  <2>5. \A t \in Inserted : tokens'[t].family = tokens[t].family
    BY <1>5 DEF Faded, Inserted
  <2> QED
    BY <1>8, <1>10, <2>1, <2>2, <2>3, <2>4, <2>5 DEF SessionInv, RequestsSound
<1> QED
  BY <1>6, <1>9, <1>11 DEF SessionInv

LEMMA ClaimInv ==
    ASSUME SessionInv, NEW r \in Refreshes, Claim(r)
    PROVE  SessionInv'
<1>1. r \in Requests /\ pc[r] = "new"
  BY DEF Claim, Requests, Tokens
<1>2. CASE Fail(r, "401")
  BY <1>1, <1>2, FailInv DEF Claim
<1>3. CASE ~Fail(r, "401")
  <2>1. PICK t \in Inserted :
            /\ ~Locked(t)
            /\ presented' = [presented EXCEPT ![r] = t]
            /\ IF Claims(t) THEN Goto(r, "claimed") ELSE Goto(r, "not claimed")
            /\ UNCHANGED <<tokens, doomed>>
    BY <1>3 DEF Claim, Claimable
  <2>2. t \in Tokens
    BY DEF Inserted
  <2>3. TypeOK'
    BY <1>1, <2>1, <2>2 DEF SessionInv, TypeOK, Claim, Goto
  <2>4. \A q \in Requests : presented'[q] = IF q = r THEN t ELSE presented[q]
    BY <2>1 DEF SessionInv, TypeOK
  <2>5. /\ \A q \in Requests \ {r} : pc'[q] = pc[q]
        /\ pc'[r] = IF Claims(t) THEN "claimed" ELSE "not claimed"
    BY <1>1, <2>1 DEF SessionInv, TypeOK, Goto
  <2>6. doomed[r] \subseteq Inserted
    BY <1>1 DEF SessionInv, RequestsSound
  <2>7. pc'[r] \in Rotating => Live(t)
    BY <2>5 DEF Claims, Rotating
  <2> QED
    BY <1>1, <2>1, <2>3, <2>4, <2>5, <2>6, <2>7, LocalInv
<1> QED
  BY <1>2, <1>3

LEMMA DetectReuseInv ==
    ASSUME SessionInv, NEW r \in Refreshes, DetectReuse(r)
    PROVE  SessionInv'
<1>1. r \in Requests /\ pc[r] = "not claimed" /\ presented[r] \in Inserted
  BY DEF DetectReuse, SessionInv, RequestsSound, Requests, Tokens
<1>2. CASE Fail(r, "401")
  BY <1>1, <1>2, FailInv DEF DetectReuse
<1>3. CASE Goto(r, "revoking") /\ UNCHANGED <<tokens, locals>>
  <2>1. TypeOK'
    BY <1>1, <1>3 DEF SessionInv, TypeOK, DetectReuse, Goto, locals
  <2>2. \A q \in Requests : pc'[q] = IF q = r THEN "revoking" ELSE pc[q]
    BY <1>1, <1>3 DEF SessionInv, TypeOK, Goto
  <2>3. UNCHANGED <<tokens, presented, doomed>>
    BY <1>3 DEF locals
  <2>4. doomed[r] \subseteq Inserted
    BY <1>1 DEF SessionInv, RequestsSound
  <2> QED
    BY <1>1, <2>1, <2>2, <2>3, <2>4, LocalInv DEF Rotating
<1> QED
  BY <1>2, <1>3 DEF DetectReuse

\* A row that nobody else holds is revoked, and its request ends.
LEMMA CheckAccountInv ==
    ASSUME SessionInv, NEW r \in Refreshes, CheckAccount(r)
    PROVE  SessionInv'
<1> DEFINE p == presented[r]
<1>1. /\ r \in Requests /\ pc[r] = "claimed" /\ pc[r] \in Rotating
      /\ p \in Inserted /\ p \in Tokens /\ tokens[p] \in TokenRow /\ Live(p)
  BY Small DEF CheckAccount, SessionInv, RequestsSound, Rotating, Requests, Tokens
<1>2. presented' = presented /\ doomed' = doomed /\ status' = status
  BY DEF CheckAccount, locals
<1>3. CASE Goto(r, "rotating") /\ UNCHANGED tokens
  <2>1. TypeOK'
    BY <1>1, <1>2, <1>3 DEF SessionInv, TypeOK, Goto
  <2>2. \A q \in Requests : pc'[q] = IF q = r THEN "rotating" ELSE pc[q]
    BY <1>1, <1>3 DEF SessionInv, TypeOK, Goto
  <2>3. doomed[r] \subseteq Inserted
    BY <1>1 DEF SessionInv, RequestsSound
  <2> QED
    BY <1>1, <1>2, <1>3, <2>1, <2>2, <2>3, LocalInv DEF Rotating
<1>4. CASE /\ tokens' = [tokens EXCEPT ![p].revoked = TRUE]
           /\ Finish(r, "401")
  <2>1. \A t \in Tokens : tokens'[t] = IF t = p THEN [tokens[p] EXCEPT !.revoked = TRUE]
                                       ELSE tokens[t]
    BY <1>1, <1>4 DEF SessionInv, TypeOK
  <2>2. /\ tokens'[p] \in TokenRow
        /\ tokens'[p].user = tokens[p].user
        /\ tokens'[p].family = tokens[p].family
        /\ tokens'[p].parent = tokens[p].parent
        /\ tokens'[p].revoked = TRUE
    <3>1. tokens'[p] = [tokens[p] EXCEPT !.revoked = TRUE]
      BY <1>1, <2>1
    <3>2. tokens'[p] \in TokenRow
      BY <1>1, <3>1 DEF TokenRow
    <3> QED
      BY <1>1, <3>1, <3>2 DEF TokenRow
  <2>3. Faded
    BY <1>1, <2>1, <2>2, NoneAssumption DEF Faded, Inserted
  <2>4. OneLiveToken' /\ SessionIsChain'
    BY <2>3, FadedKeeps DEF SessionInv
  <2>5. \A q \in Requests : pc'[q] = IF q = r THEN "done" ELSE pc[q]
    BY <1>1, <1>4 DEF SessionInv, TypeOK, Finish
  <2>6. TypeOK'
    BY <1>1, <1>2, <1>4, <2>1, <2>2 DEF Finish, SessionInv, TypeOK
  <2>7. Inserted' = Inserted
    BY <2>3 DEF Faded, Inserted
  <2>8. RequestsSound'
    <3>1. \A q \in Tokens : tokens'[q] # None => pc'[q] = "done"
      BY <2>3, <2>5 DEF Faded, SessionInv, RequestsSound, Requests
    <3>2. \A q \in Refreshes : pc'[q] \in Rotating => q # r /\ pc[q] = pc'[q]
      BY <2>5 DEF Rotating, Requests, Tokens
    <3>3. ASSUME NEW q \in Refreshes, pc'[q] \in Rotating
          PROVE  presented[q] \in Inserted /\ Live(presented[q])'
      <4>1. presented[q] \in Inserted /\ Live(presented[q])
        BY <3>2, <3>3 DEF SessionInv, RequestsSound
      <4>2. presented[q] # p
        BY <1>1, <3>2, <3>3 DEF SessionInv, RequestsSound
      <4> QED
        BY <1>2, <2>1, <4>1, <4>2 DEF Inserted, Live
    <3>4. \A q \in Requests : pc'[q] \in {"not claimed", "revoking", "waiting"} => pc'[q] = pc[q]
      BY <2>5
    <3>5. \A t \in Inserted : tokens'[t].family = tokens[t].family
      BY <2>3 DEF Faded, Inserted
    <3> QED
      BY <1>2, <2>7, <3>1, <3>2, <3>3, <3>4, <3>5 DEF SessionInv, RequestsSound
  <2> QED
    BY <2>4, <2>6, <2>8 DEF SessionInv
<1> QED
  BY <1>3, <1>4 DEF CheckAccount

\* What a rotation does to the rows.
LEMMA RotateFacts ==
    ASSUME SessionInv, NEW r \in Refreshes, Rotate(r), NEW p, p = presented[r]
    PROVE  /\ r \in Tokens /\ tokens[r] = None
           /\ p \in Inserted /\ p # r /\ Live(p)
           /\ Inserted' = Inserted \cup {r} /\ r \notin Inserted
           /\ tokens' \in [Tokens -> TokenRow \cup {None}]
           /\ tokens'[r].user = tokens[p].user
           /\ tokens'[r].family = tokens[p].family
           /\ tokens'[r].parent = p
           /\ Live(r)' /\ ~Live(p)'
           /\ \A t \in Inserted : /\ tokens'[t].user = tokens[t].user
                                  /\ tokens'[t].family = tokens[t].family
                                  /\ tokens'[t].parent = tokens[t].parent
           /\ \A t \in Inserted \ {p} : Live(t)' <=> Live(t)
           /\ \A t \in Tokens \ {p, r} : tokens'[t] = tokens[t]
<1> DEFINE old == [tokens[p] EXCEPT !.revoked = TRUE]
           new == Successor(p)
<1>1. /\ r \in Tokens /\ r \in Requests /\ pc[r] = "rotating"
      /\ p \in Inserted /\ Live(p)
  BY DEF Rotate, SessionInv, RequestsSound, Rotating, Requests, Tokens
<1>2. p \in Tokens /\ tokens[p] \in TokenRow /\ pc[p] = "done"
  BY <1>1, Small
<1>3. tokens[r] = None /\ p # r
  BY <1>1, <1>2 DEF SessionInv, RequestsSound
<1>4. /\ old \in TokenRow /\ old.user = tokens[p].user
      /\ old.family = tokens[p].family /\ old.parent = tokens[p].parent
      /\ old.revoked = TRUE
  <2>1. old \in TokenRow
    BY <1>2 DEF TokenRow
  <2> QED
    BY <1>2, <2>1 DEF TokenRow
<1>5. /\ new \in TokenRow /\ new.user = tokens[p].user
      /\ new.family = tokens[p].family /\ new.parent = p /\ new.revoked = FALSE
  BY <1>2 DEF Successor, TokenRow
<1>6. tokens' = [tokens EXCEPT ![p].revoked = TRUE, ![r] = new]
  BY DEF Rotate, Replace
<1>7. \A t \in Tokens : tokens'[t] = IF t = r THEN new
                                     ELSE IF t = p THEN old ELSE tokens[t]
  BY <1>1, <1>2, <1>3, <1>6 DEF SessionInv, TypeOK
<1>8. tokens' \in [Tokens -> TokenRow \cup {None}]
  <2>1. tokens \in [Tokens -> TokenRow \cup {None}]
    BY DEF SessionInv, TypeOK
  <2>2. DOMAIN tokens' = Tokens /\ tokens' = [t \in Tokens |-> tokens'[t]]
    BY <1>6, <2>1
  <2> HIDE DEF old, new
  <2>3. \A t \in Tokens : tokens'[t] \in TokenRow \cup {None}
    BY <1>4, <1>5, <1>7, <2>1
  <2> QED
    BY <2>2, <2>3
<1> HIDE DEF old, new
<1>9. old # None /\ new # None
  BY <1>4, <1>5, NoneAssumption
<1>10. Inserted' = Inserted \cup {r} /\ r \notin Inserted
  BY <1>1, <1>2, <1>3, <1>7, <1>9 DEF Inserted
<1> QED
  BY <1>1, <1>2, <1>3, <1>4, <1>5, <1>7, <1>8, <1>9, <1>10 DEF Inserted, Live

\* A rotation replaces the only live token of its session by another.
LEMMA RotateInv ==
    ASSUME SessionInv, NEW r \in Refreshes, Rotate(r)
    PROVE  SessionInv'
<1> PICK p : p = presented[r]
  OBVIOUS
<1>1. /\ r \in Tokens /\ tokens[r] = None
      /\ p \in Inserted /\ p # r /\ Live(p)
      /\ Inserted' = Inserted \cup {r} /\ r \notin Inserted
      /\ tokens' \in [Tokens -> TokenRow \cup {None}]
      /\ tokens'[r].user = tokens[p].user
      /\ tokens'[r].family = tokens[p].family
      /\ tokens'[r].parent = p
      /\ Live(r)' /\ ~Live(p)'
      /\ \A t \in Inserted : /\ tokens'[t].user = tokens[t].user
                             /\ tokens'[t].family = tokens[t].family
                             /\ tokens'[t].parent = tokens[t].parent
      /\ \A t \in Inserted \ {p} : Live(t)' <=> Live(t)
      /\ \A t \in Tokens \ {p, r} : tokens'[t] = tokens[t]
  BY RotateFacts
<1>2. r \in Requests /\ r \notin Logins /\ pc[r] = "rotating" /\ pc[r] \in Rotating
  BY <1>1, RequestsAssumption DEF Rotate, Requests, Rotating
<1>3. presented' = presented /\ doomed' = doomed
  BY DEF Rotate, locals
<1>4. \A q \in Requests : pc'[q] = IF q = r THEN "done" ELSE pc[q]
  BY <1>2 DEF SessionInv, TypeOK, Rotate, Finish
<1>5. TypeOK'
  BY <1>1, <1>2, <1>3 DEF SessionInv, TypeOK, Rotate, Finish
<1>6. OneLiveToken'
  <2> SUFFICES ASSUME NEW t \in Inserted', NEW s \in Inserted',
                      Live(t)', Live(s)', tokens'[t].family = tokens'[s].family
               PROVE  t = s
    BY DEF OneLiveToken
  <2>1. ASSUME NEW x \in Inserted, Live(x)', tokens[x].family = tokens[p].family
        PROVE  FALSE
    <3>1. x # p /\ Live(x)
      BY <1>1, <2>1
    <3> QED
      BY <1>1, <2>1, <3>1 DEF SessionInv, OneLiveToken
  <2>2. CASE t = r
    BY <1>1, <2>1, <2>2
  <2>3. CASE s = r
    BY <1>1, <2>1, <2>3
  <2>4. CASE t # r /\ s # r
    <3>1. t \in Inserted /\ s \in Inserted /\ Live(t) /\ Live(s)
      BY <1>1, <2>4
    <3>2. tokens[t].family = tokens[s].family
      BY <1>1, <3>1
    <3> QED
      BY <3>1, <3>2 DEF SessionInv, OneLiveToken
  <2> QED
    BY <2>2, <2>3, <2>4
<1>7. SessionIsChain'
  <2>1. (Inserted \cap Logins)' = Inserted \cap Logins
    BY <1>1, <1>2
  <2>2. \A t \in Inserted \cap Logins : tokens'[t].family = t /\ tokens'[t].parent = None
    BY <1>1 DEF SessionInv, SessionIsChain
  <2>3. \A t \in Inserted : ~Live(t) => ~Live(t)'
    BY <1>1
  <2>4. ASSUME NEW t \in (Inserted \cap Refreshes)'
        PROVE  /\ tokens'[t].parent \in Inserted' /\ ~Live(tokens[t].parent)'
               /\ tokens'[tokens'[t].parent].family = tokens'[t].family
               /\ tokens'[tokens'[t].parent].user = tokens'[t].user
    <3>1. CASE t = r
      BY <1>1, <3>1 DEF Live
    <3>2. CASE t # r
      <4> PICK q : q = tokens[t].parent
        OBVIOUS
      <4>1. t \in Inserted \cap Refreshes /\ tokens'[t].parent = q
        BY <1>1, <3>2
      <4>2. /\ q \in Inserted /\ ~Live(q)
            /\ tokens[q].family = tokens[t].family
            /\ tokens[q].user = tokens[t].user
        BY <4>1 DEF SessionInv, SessionIsChain
      <4>3. ~Live(q)'
        BY <2>3, <4>2
      <4>4. /\ tokens'[q].family = tokens'[t].family
            /\ tokens'[q].user = tokens'[t].user
        BY <1>1, <4>1, <4>2
      <4> QED
        BY <1>1, <4>1, <4>2, <4>3, <4>4 DEF Live
    <3> QED
      BY <3>1, <3>2
  <2>5. \A t \in Inserted \cap Refreshes : tokens[t].parent # p
    BY <1>1 DEF SessionInv, SessionIsChain
  <2>6. ASSUME NEW t \in (Inserted \cap Refreshes)', NEW s \in (Inserted \cap Refreshes)',
               tokens'[t].parent = tokens'[s].parent
        PROVE  t = s
    BY <1>1, <2>5, <2>6 DEF SessionInv, SessionIsChain
  <2> QED
    BY <2>1, <2>2, <2>4, <2>6 DEF SessionIsChain
<1>8. RequestsSound'
  <2>1. \A q \in Tokens : tokens'[q] # None => pc'[q] = "done"
    <3>1. pc[p] = "done" /\ p \in Tokens /\ p \in Requests
      BY <1>1, Small
    <3> QED
      BY <1>1, <1>4, <3>1 DEF SessionInv, RequestsSound, Requests
  <2>2. \A q \in Refreshes : pc'[q] \in Rotating => q # r /\ pc[q] = pc'[q]
    BY <1>4 DEF Rotating, Requests, Tokens
  <2>3. ASSUME NEW q \in Refreshes, pc'[q] \in Rotating
        PROVE  presented[q] \in Inserted /\ Live(presented[q])'
    <3>1. presented[q] \in Inserted /\ Live(presented[q])
      BY <2>2, <2>3 DEF SessionInv, RequestsSound
    <3>2. presented[q] # p
      BY <1>2, <2>2, <2>3 DEF SessionInv, RequestsSound
    <3> QED
      BY <1>1, <1>3, <3>1, <3>2 DEF Live
  <2>4. \A q \in Requests : pc'[q] \in {"not claimed", "revoking", "waiting"} => pc'[q] = pc[q]
    BY <1>4
  <2>5. \A t \in Inserted' : tokens'[t].family \in Inserted'
    BY <1>1 DEF SessionInv, RequestsSound
  <2> QED
    BY <1>1, <1>3, <2>1, <2>2, <2>3, <2>4, <2>5 DEF SessionInv, RequestsSound
<1> QED
  BY <1>5, <1>6, <1>7, <1>8 DEF SessionInv

LEMMA FindTokenInv ==
    ASSUME SessionInv, NEW r \in Logouts, FindToken(r)
    PROVE  SessionInv'
<1>1. r \in Requests /\ r \notin Refreshes /\ pc[r] = "new"
  BY RequestsAssumption DEF FindToken, Requests, Tokens
<1>2. CASE Fail(r, "204")
  BY <1>1, <1>2, FailInv DEF FindToken
<1>3. CASE ~Fail(r, "204")
  <2>1. PICK t \in Inserted :
            /\ presented' = [presented EXCEPT ![r] = t]
            /\ Goto(r, "revoking")
            /\ UNCHANGED <<tokens, doomed>>
    BY <1>3 DEF FindToken
  <2>2. t \in Tokens
    BY DEF Inserted
  <2>3. TypeOK'
    BY <1>1, <2>1, <2>2 DEF SessionInv, TypeOK, FindToken, Goto
  <2>4. \A q \in Requests : /\ presented'[q] = IF q = r THEN t ELSE presented[q]
                            /\ pc'[q] = IF q = r THEN "revoking" ELSE pc[q]
    BY <1>1, <2>1 DEF SessionInv, TypeOK, Goto
  <2>5. doomed[r] \subseteq Inserted
    BY <1>1 DEF SessionInv, RequestsSound
  <2> QED
    BY <1>1, <2>1, <2>3, <2>4, <2>5, LocalInv DEF Rotating
<1> QED
  BY <1>2, <1>3

\* A step that changes neither rows nor requests.
LEMMA IdleInv ==
    ASSUME SessionInv, TypeOK', UNCHANGED <<tokens, pc, presented, doomed>>
    PROVE  SessionInv'
BY DEF SessionInv, RequestsSound, OneLiveToken, SessionIsChain, Inserted, Live, Rotating

LEMMA ChangeStatusInv ==
    ASSUME SessionInv, NEW u \in Users, ChangeStatus(u)
    PROVE  SessionInv'
<1>1. TypeOK'
  BY DEF ChangeStatus, SessionInv, TypeOK, UserStatuses, locals
<1> QED
  BY <1>1, IdleInv DEF ChangeStatus, locals

LEMMA ExpireInv ==
    ASSUME SessionInv, NEW t \in Tokens, Expire(t)
    PROVE  SessionInv'
<1>1. tokens[t] \in TokenRow /\ tokens[t] # None
  BY Small DEF Expire, Inserted
<1>2. \A s \in Tokens : tokens'[s] = IF s = t THEN [tokens[t] EXCEPT !.expired = TRUE]
                                     ELSE tokens[s]
  BY DEF Expire, SessionInv, TypeOK
<1>3. /\ tokens'[t] \in TokenRow
      /\ tokens'[t].user = tokens[t].user
      /\ tokens'[t].family = tokens[t].family
      /\ tokens'[t].parent = tokens[t].parent
      /\ tokens'[t].revoked = tokens[t].revoked
  <2>1. tokens'[t] = [tokens[t] EXCEPT !.expired = TRUE]
    BY <1>2
  <2>2. tokens'[t] \in TokenRow
    BY <1>1, <2>1 DEF TokenRow
  <2> QED
    BY <1>1, <2>1, <2>2 DEF TokenRow
<1>4. UNCHANGED <<status, pc, answer, presented, doomed>>
  BY DEF Expire, locals
<1>5. TypeOK'
  BY <1>3, <1>4 DEF Expire, SessionInv, TypeOK
<1>6. Faded
  BY <1>1, <1>2, <1>3, NoneAssumption DEF Faded
<1>7. OneLiveToken' /\ SessionIsChain'
  BY <1>6, FadedKeeps DEF SessionInv
<1>8. Inserted' = Inserted
  BY <1>6 DEF Faded, Inserted
<1>9. \A s \in Inserted : /\ tokens'[s].family = tokens[s].family
                          /\ Live(s)' <=> Live(s)
  BY <1>1, <1>2, <1>3, <1>8 DEF Inserted, Live
<1>10. ASSUME NEW q \in Refreshes, pc'[q] \in Rotating
       PROVE  presented[q] \in Inserted /\ Live(presented[q])'
  <2>1. presented[q] \in Inserted /\ Live(presented[q])
    BY <1>4, <1>10 DEF SessionInv, RequestsSound
  <2>2. PICK s \in Inserted : s = presented[q]
    BY <2>1
  <2>3. Live(s)'
    BY <1>9, <2>1, <2>2
  <2> QED
    BY <1>4, <2>1, <2>2, <2>3 DEF Live
<1>11. RequestsSound'
  <2>1. \A q \in Tokens : tokens'[q] # None => pc'[q] = "done"
    BY <1>4, <1>6 DEF Faded, SessionInv, RequestsSound
  <2> QED
    BY <1>4, <1>8, <1>9, <1>10, <2>1 DEF SessionInv, RequestsSound
<1> QED
  BY <1>5, <1>7, <1>11 DEF SessionInv

LEMMA InterruptInv ==
    ASSUME SessionInv, NEW r \in Requests, Interrupt(r)
    PROVE  SessionInv'
BY FailInv DEF Interrupt

\* The steps of a request, one by one.
LEMMA StepCases ==
    ASSUME NEW r \in Requests, Step(r)
    PROVE  \/ r \in Logins /\ (CheckCredentials(r) \/ StartSession(r))
           \/ r \in Refreshes \cup Logouts /\ (FindFamily(r) \/ RevokeFamily(r))
           \/ r \in Refreshes /\ (\/ Claim(r) \/ DetectReuse(r)
                                  \/ CheckAccount(r) \/ Rotate(r))
           \/ r \in Logouts /\ FindToken(r)
BY DEF Step, Login, RefreshStep, Logout

LEMMA NextInv == SessionInv /\ [Next]_vars => SessionInv'
<1> SUFFICES ASSUME SessionInv, [Next]_vars PROVE SessionInv'
  OBVIOUS
<1>1. ASSUME NEW r \in Requests, Step(r) PROVE SessionInv'
  BY <1>1, StepCases, CheckCredentialsInv, StartSessionInv, FindFamilyInv,
     RevokeFamilyInv, ClaimInv, DetectReuseInv, CheckAccountInv, RotateInv,
     FindTokenInv
<1>2. ASSUME NEW r \in Requests, Interrupt(r) PROVE SessionInv'
  BY <1>2, InterruptInv
<1>3. ASSUME NEW u \in Users, ChangeStatus(u) PROVE SessionInv'
  BY <1>3, ChangeStatusInv
<1>4. ASSUME NEW t \in Tokens, Expire(t) PROVE SessionInv'
  BY <1>4, ExpireInv
<1>5. CASE UNCHANGED vars
  <2>1. TypeOK'
    BY <1>5 DEF SessionInv, TypeOK, vars, locals
  <2> QED
    BY <1>5, <2>1, IdleInv DEF vars, locals
<1> QED
  BY <1>1, <1>2, <1>3, <1>4, <1>5 DEF Next

----------------------------------------------------------------------------
\* login, refresh and logout keep the inductive invariant, whatever runs
\* together.
THEOREM SessionInvariant == Spec => []SessionInv
BY InitInv, NextInv, PTL DEF Spec

\* A session has at most one token that still works: the claim of a rotation
\* lets nobody else replace the same token.
THEOREM OneTokenLives == Spec => []OneLiveToken
<1>1. SessionInv => OneLiveToken
  BY DEF SessionInv
<1> QED
  BY <1>1, SessionInvariant, PTL

\* A session is one chain of rotations from its login, and no token is
\* replaced twice.
THEOREM ChainHolds == Spec => []SessionIsChain
<1>1. SessionInv => SessionIsChain
  BY DEF SessionInv
<1> QED
  BY <1>1, SessionInvariant, PTL

\* A session whose tokens are all revoked never comes back: whoever rotates
\* holds a live token of it until the new one is committed.
THEOREM DeadStaysDead == Spec => DeadSessionStaysDead
<1>1. SessionInv /\ [Next]_vars =>
        [\A f \in Logins :
            f \in Inserted /\ LiveFamily(f) = {} => LiveFamily(f)' = {}]_vars
  <2> SUFFICES ASSUME SessionInv, Next, NEW f \in Logins,
                      f \in Inserted, LiveFamily(f) = {}
               PROVE  LiveFamily(f)' = {}
    OBVIOUS
  <2>1. ASSUME NEW r \in Logins, StartSession(r) PROVE LiveFamily(f)' = {}
    <3>1. r \in Tokens /\ tokens[r] = None
      BY <2>1, Small DEF StartSession, SessionInv, RequestsSound, Tokens
    <3>2. r # f
      BY <3>1 DEF Inserted
    <3>3. \A t \in Tokens \ {r} : tokens'[t] = tokens[t]
      BY <2>1, <3>1 DEF StartSession, SessionInv, TypeOK
    <3>4. tokens'[r].family = r
      BY <2>1, <3>1 DEF StartSession, SessionInv, TypeOK
    <3> QED
      BY <3>2, <3>3, <3>4 DEF LiveFamily, Inserted, Live
  <2>2. ASSUME NEW r \in Refreshes, Rotate(r) PROVE LiveFamily(f)' = {}
    <3> PICK p : p = presented[r]
      OBVIOUS
    <3>1. /\ p \in Inserted /\ Live(p)
          /\ Inserted' = Inserted \cup {r}
          /\ tokens'[r].family = tokens[p].family
          /\ ~Live(p)'
          /\ \A t \in Inserted : tokens'[t].family = tokens[t].family
          /\ \A t \in Inserted \ {p} : Live(t)' <=> Live(t)
      BY <2>2, RotateFacts
    <3>2. tokens[p].family # f
      BY <3>1 DEF LiveFamily
    <3> QED
      BY <3>1, <3>2 DEF LiveFamily
  <2>3. ASSUME UNCHANGED tokens PROVE LiveFamily(f)' = {}
    BY <2>3 DEF LiveFamily, Inserted, Live
  <2>4. ASSUME NEW r \in Requests, RevokeFamily(r) PROVE LiveFamily(f)' = {}
    <3>1. \A t \in Tokens : t \in doomed[r] => t \in Inserted
      BY DEF SessionInv, RequestsSound
    <3>2. Inserted' \subseteq Inserted
      BY <2>4, <3>1 DEF RevokeFamily, Inserted
    <3>3. \A t \in Inserted : Live(t)' => Live(t) /\ tokens'[t] = tokens[t]
      <4>1. ASSUME NEW t \in doomed[r] PROVE ~Live(t)'
        <5>1. t \in Tokens /\ tokens[t] \in TokenRow
          BY Small DEF SessionInv, RequestsSound
        <5>2. tokens'[t] = [tokens[t] EXCEPT !.revoked = TRUE]
          BY <2>4, <5>1 DEF RevokeFamily
        <5>3. tokens'[t].revoked = TRUE
          BY <5>1, <5>2 DEF TokenRow
        <5> QED
          BY <5>3 DEF Live
      <4> QED
        BY <2>4, <4>1 DEF RevokeFamily, Live, Inserted
    <3> QED
      BY <3>2, <3>3 DEF LiveFamily
  <2>5. ASSUME NEW r \in Refreshes, CheckAccount(r) PROVE LiveFamily(f)' = {}
    <3> PICK p : p = presented[r]
      OBVIOUS
    <3>1. p \in Tokens /\ p \in Inserted /\ tokens[p] \in TokenRow
      BY <2>5, Small DEF CheckAccount, SessionInv, RequestsSound, Rotating
    <3>2. CASE tokens' = [tokens EXCEPT ![p].revoked = TRUE]
      <4>1. tokens'[p] = [tokens[p] EXCEPT !.revoked = TRUE]
        BY <3>1, <3>2 DEF SessionInv, TypeOK
      <4>2. tokens'[p].revoked = TRUE
        BY <3>1, <4>1 DEF TokenRow
      <4>3. \A t \in Tokens \ {p} : tokens'[t] = tokens[t]
        BY <3>2 DEF SessionInv, TypeOK
      <4> QED
        BY <4>2, <4>3 DEF LiveFamily, Inserted, Live
    <3> QED
      BY <2>3, <2>5, <3>2 DEF CheckAccount
  <2>6. ASSUME NEW t \in Tokens, Expire(t) PROVE LiveFamily(f)' = {}
    <3>1. tokens[t] \in TokenRow /\ t \in Inserted
      BY <2>6, Small DEF Expire
    <3>2. tokens'[t] = [tokens[t] EXCEPT !.expired = TRUE]
      BY <2>6 DEF Expire, SessionInv, TypeOK
    <3>3. tokens'[t].revoked = tokens[t].revoked /\ tokens'[t].family = tokens[t].family
      BY <3>1, <3>2 DEF TokenRow
    <3>4. \A s \in Tokens \ {t} : tokens'[s] = tokens[s]
      BY <2>6 DEF Expire, SessionInv, TypeOK
    <3> QED
      BY <3>1, <3>3, <3>4 DEF LiveFamily, Inserted, Live
  <2>7. ASSUME NEW r \in Requests, Step(r) PROVE LiveFamily(f)' = {}
    <3>1. CASE r \in Logins /\ CheckCredentials(r)
      BY <2>3, <3>1 DEF CheckCredentials, Fail
    <3>2. CASE FindFamily(r)
      BY <2>3, <3>2 DEF FindFamily
    <3>3. CASE r \in Refreshes /\ (Claim(r) \/ DetectReuse(r))
      BY <2>3, <3>3 DEF Claim, DetectReuse, Fail
    <3>4. CASE r \in Logouts /\ FindToken(r)
      BY <2>3, <3>4 DEF FindToken, Fail
    <3> QED
      BY <2>1, <2>2, <2>4, <2>5, <2>7, <3>1, <3>2, <3>3, <3>4, StepCases
  <2>8. ASSUME NEW r \in Requests, Interrupt(r) PROVE LiveFamily(f)' = {}
    BY <2>3, <2>8 DEF Interrupt, Fail
  <2>9. ASSUME NEW u \in Users, ChangeStatus(u) PROVE LiveFamily(f)' = {}
    BY <2>3, <2>9 DEF ChangeStatus
  <2> QED
    BY <2>6, <2>7, <2>8, <2>9 DEF Next
<1> QED
  BY <1>1, SessionInvariant, PTL DEF Spec, DeadSessionStaysDead

----------------------------------------------------------------------------
\* Sessions are independent.

\* A token's user is the one who logged its session in; what a revocation has
\* found is of the session presented to it; and a logout revokes only a session
\* of its user.
SessionsApart ==
    /\ \A t \in Inserted : tokens[t].user = UserOf[tokens[t].family]
    /\ \A r \in Requests : pc[r] = "waiting" =>
          \A t \in doomed[r] : tokens[t].family = tokens[presented[r]].family
    /\ \A r \in Logouts : pc[r] \in {"revoking", "waiting"} =>
          tokens[presented[r]].user = UserOf[r]

\* What every step does to the rows: none disappears or changes hands, and a
\* new one belongs to the user of its session.
RowsKept ==
    /\ \A t \in Inserted : /\ t \in Inserted'
                           /\ tokens'[t].user = tokens[t].user
                           /\ tokens'[t].family = tokens[t].family
    /\ \A t \in Inserted' \ Inserted :
          tokens'[t].user = UserOf[tokens'[t].family]

LEMMA ApartKept ==
    ASSUME SessionInv, SessionsApart, RowsKept, NEW r \in Requests,
           \A q \in Requests \ {r} :
               pc'[q] = pc[q] /\ presented'[q] = presented[q]
                              /\ doomed'[q] = doomed[q],
           pc'[r] = "waiting" =>
               /\ presented'[r] \in Inserted
               /\ \A t \in doomed'[r] :
                     /\ t \in Inserted
                     /\ tokens[t].family = tokens[presented'[r]].family,
           r \in Logouts /\ pc'[r] \in {"revoking", "waiting"} =>
               /\ presented'[r] \in Inserted
               /\ tokens[presented'[r]].user = UserOf[r]
    PROVE  SessionsApart'
<1>1. \A t \in Inserted' : tokens'[t].user = UserOf[tokens'[t].family]
  BY DEF SessionsApart, RowsKept
<1>2. ASSUME NEW q \in Requests, pc'[q] = "waiting", NEW t \in doomed'[q]
      PROVE  tokens'[t].family = tokens'[presented'[q]].family
  <2>1. CASE q = r
    BY <1>2, <2>1 DEF RowsKept
  <2>2. CASE q # r
    <3>1. pc[q] = "waiting" /\ presented'[q] = presented[q] /\ t \in doomed[q]
      BY <1>2, <2>2
    <3>2. presented[q] \in Inserted /\ t \in Inserted
      BY <3>1 DEF SessionInv, RequestsSound
    <3>3. tokens[t].family = tokens[presented[q]].family
      BY <3>1 DEF SessionsApart
    <3> QED
      BY <3>1, <3>2, <3>3 DEF RowsKept
  <2> QED
    BY <2>1, <2>2
<1>3. ASSUME NEW q \in Logouts, pc'[q] \in {"revoking", "waiting"}
      PROVE  tokens'[presented'[q]].user = UserOf[q]
  <2>1. CASE q = r
    BY <1>3, <2>1 DEF RowsKept
  <2>2. CASE q # r
    <3>1. q \in Requests
      BY DEF Requests
    <3>2. pc[q] \in {"revoking", "waiting"} /\ presented'[q] = presented[q]
      BY <1>3, <2>2, <3>1
    <3>3. presented[q] \in Inserted
      BY <3>1, <3>2 DEF SessionInv, RequestsSound
    <3>4. tokens[presented[q]].user = UserOf[q]
      BY <3>2 DEF SessionsApart
    <3> QED
      BY <3>2, <3>3, <3>4 DEF RowsKept
  <2> QED
    BY <2>1, <2>2
<1> QED
  BY <1>1, <1>2, <1>3 DEF SessionsApart

\* The places of the requests after Goto, Finish and Fail.
LEMMA Moved ==
    ASSUME SessionInv, NEW r \in Requests, NEW place,
           pc' = [pc EXCEPT ![r] = place]
    PROVE  pc'[r] = place /\ \A q \in Requests \ {r} : pc'[q] = pc[q]
BY DEF SessionInv, TypeOK

LEMMA SameRows ==
    ASSUME UNCHANGED tokens
    PROVE  RowsKept
BY DEF RowsKept, Inserted

\* A request that ends.
LEMMA EndApart ==
    ASSUME SessionInv, SessionsApart, RowsKept, NEW r \in Requests, NEW a,
           Finish(r, a), UNCHANGED locals
    PROVE  SessionsApart'
<1>1. pc'[r] = "done" /\ \A q \in Requests \ {r} : pc'[q] = pc[q]
  BY Moved DEF Finish
<1> QED
  BY <1>1, ApartKept DEF locals

\* The steps that write no row.
LEMMA QuietApart ==
    ASSUME SessionInv, SessionsApart, NEW r \in Requests,
           \/ r \in Logins /\ CheckCredentials(r)
           \/ FindFamily(r)
           \/ r \in Refreshes /\ (Claim(r) \/ DetectReuse(r))
           \/ r \in Logouts /\ FindToken(r)
           \/ Interrupt(r)
    PROVE  SessionsApart' /\ UNCHANGED tokens
<1>0. UNCHANGED tokens
  BY DEF CheckCredentials, FindFamily, Claim, DetectReuse, FindToken, Interrupt,
         Fail
<1>a. RowsKept
  BY <1>0, SameRows
<1>b. /\ r \in Refreshes => r \notin Logouts
      /\ r \in Logins => r \notin Logouts
      /\ Inserted \subseteq Tokens
  BY RequestsAssumption DEF Tokens, Inserted
<1>f. CASE \E a : Fail(r, a)
  BY <1>0, <1>a, <1>f, EndApart DEF Fail
<1>n. ASSUME ~ \E a : Fail(r, a) PROVE SessionsApart'
  <2>1. CASE r \in Logins /\ CheckCredentials(r)
    <3>1. pc' = [pc EXCEPT ![r] = "checked"] /\ UNCHANGED <<presented, doomed>>
      BY <1>n, <2>1 DEF CheckCredentials, Goto, locals
    <3>2. pc'[r] = "checked" /\ \A q \in Requests \ {r} : pc'[q] = pc[q]
      BY <3>1, Moved
    <3> QED
      BY <1>a, <3>1, <3>2, ApartKept
  <2>2. CASE FindFamily(r)
    <3>1. /\ pc[r] = "revoking" /\ pc' = [pc EXCEPT ![r] = "waiting"]
          /\ doomed' = [doomed EXCEPT ![r] = Snapshot(r)]
          /\ presented' = presented
      BY <2>2 DEF FindFamily, Goto
    <3>2. pc'[r] = "waiting" /\ \A q \in Requests \ {r} : pc'[q] = pc[q]
      BY <3>1, Moved
    <3>3. /\ doomed'[r] = Snapshot(r)
          /\ \A q \in Requests \ {r} : doomed'[q] = doomed[q]
      BY <3>1 DEF SessionInv, TypeOK
    <3>4. presented[r] \in Inserted
      BY <3>1 DEF SessionInv, RequestsSound
    <3>5. \A t \in Snapshot(r) :
             t \in Inserted /\ tokens[t].family = tokens[presented[r]].family
      BY DEF Snapshot, LiveFamily
    <3>6. r \in Logouts => tokens[presented[r]].user = UserOf[r]
      BY <3>1 DEF SessionsApart
    <3> QED
      BY <1>a, <3>1, <3>2, <3>3, <3>4, <3>5, <3>6, ApartKept
  <2>3. CASE r \in Refreshes /\ Claim(r)
    <3>0. PICK t \in Inserted :
             /\ presented' = [presented EXCEPT ![r] = t]
             /\ IF Claims(t) THEN Goto(r, "claimed") ELSE Goto(r, "not claimed")
             /\ UNCHANGED doomed
      BY <1>n, <2>3 DEF Claim
    <3>1. PICK place \in {"claimed", "not claimed"} :
             /\ presented' = [presented EXCEPT ![r] = t]
             /\ pc' = [pc EXCEPT ![r] = place]
             /\ UNCHANGED doomed
      BY <3>0 DEF Goto
    <3>2. pc'[r] = place /\ \A q \in Requests \ {r} : pc'[q] = pc[q]
      BY <3>1, Moved
    <3>3. \A q \in Requests \ {r} : presented'[q] = presented[q]
      BY <3>1 DEF SessionInv, TypeOK
    <3> QED
      BY <1>a, <3>1, <3>2, <3>3, ApartKept
  <2>4. CASE r \in Refreshes /\ DetectReuse(r)
    <3>1. pc' = [pc EXCEPT ![r] = "revoking"] /\ UNCHANGED <<presented, doomed>>
      BY <1>n, <2>4 DEF DetectReuse, Goto, locals
    <3>2. pc'[r] = "revoking" /\ \A q \in Requests \ {r} : pc'[q] = pc[q]
      BY <3>1, Moved
    <3> QED
      BY <1>a, <1>b, <2>4, <3>1, <3>2, ApartKept
  <2>5. CASE r \in Logouts /\ FindToken(r)
    <3>1. PICK t \in Inserted :
             /\ OwnToken(r, t)
             /\ presented' = [presented EXCEPT ![r] = t]
             /\ pc' = [pc EXCEPT ![r] = "revoking"]
             /\ UNCHANGED doomed
      BY <1>n, <2>5 DEF FindToken, Goto
    <3>2. pc'[r] = "revoking" /\ \A q \in Requests \ {r} : pc'[q] = pc[q]
      BY <3>1, Moved
    <3>3. /\ presented'[r] = t
          /\ \A q \in Requests \ {r} : presented'[q] = presented[q]
      BY <3>1 DEF SessionInv, TypeOK
    <3> QED
      BY <1>a, <3>1, <3>2, <3>3, ApartKept DEF OwnToken
  <2> QED
    BY <1>n, <2>1, <2>2, <2>3, <2>4, <2>5 DEF Interrupt
<1> QED
  BY <1>0, <1>f, <1>n

\* A login, a rotation or a refusal that revokes, and a clock that passes.
LEMMA StartApart ==
    ASSUME SessionInv, SessionsApart, NEW r \in Logins, StartSession(r)
    PROVE  SessionsApart' /\ \A t \in Inserted : Live(t) => Live(t)'
<1>1. r \in Tokens /\ r \in Requests /\ tokens[r] = None
  BY DEF StartSession, SessionInv, RequestsSound, Tokens, Requests
<1>2. /\ tokens'[r] = [user |-> UserOf[r], family |-> r, parent |-> None,
                       revoked |-> FALSE, expired |-> FALSE]
      /\ \A t \in Tokens \ {r} : tokens'[t] = tokens[t]
  BY <1>1 DEF StartSession, SessionInv, TypeOK
<1>3. RowsKept
  <2>1. tokens'[r].user = UserOf[tokens'[r].family]
    BY <1>2
  <2> QED
    BY <1>1, <1>2, <2>1 DEF RowsKept, Inserted
<1>4. \A t \in Inserted : Live(t) => Live(t)'
  BY <1>1, <1>2 DEF Inserted, Live
<1> QED
  BY <1>1, <1>3, <1>4, EndApart DEF StartSession

LEMMA RotateApart ==
    ASSUME SessionInv, SessionsApart, NEW r \in Refreshes, Rotate(r)
    PROVE  /\ SessionsApart'
           /\ \A t \in Inserted \ {presented[r]} : Live(t) => Live(t)'
<1> PICK p : p = presented[r]
  OBVIOUS
<1>1. /\ r \in Requests /\ p \in Inserted
      /\ Inserted' = Inserted \cup {r}
      /\ tokens'[r].user = tokens[p].user
      /\ tokens'[r].family = tokens[p].family
      /\ \A t \in Inserted : /\ tokens'[t].user = tokens[t].user
                             /\ tokens'[t].family = tokens[t].family
      /\ \A t \in Inserted \ {p} : Live(t)' <=> Live(t)
  BY RotateFacts DEF Requests, Tokens
<1>2. RowsKept
  BY <1>1 DEF RowsKept, SessionsApart
<1> QED
  BY <1>1, <1>2, EndApart DEF Rotate

LEMMA CheckAccountApart ==
    ASSUME SessionInv, SessionsApart, NEW r \in Refreshes, CheckAccount(r)
    PROVE  /\ SessionsApart'
           /\ \/ UNCHANGED tokens
              \/ /\ pc'[r] = "done"
                 /\ \A t \in Inserted \ {presented[r]} : Live(t) => Live(t)'
<1> PICK p : p = presented[r]
  OBVIOUS
<1>1. /\ p \in Inserted /\ p \in Tokens /\ tokens[p] \in TokenRow
      /\ r \in Requests /\ pc[r] = "claimed"
      /\ r \notin Logouts
  BY Small, RequestsAssumption
     DEF CheckAccount, SessionInv, RequestsSound, Rotating, Requests, Tokens
<1>2. CASE Goto(r, "rotating") /\ UNCHANGED tokens
  <2>1. pc'[r] = "rotating" /\ \A q \in Requests \ {r} : pc'[q] = pc[q]
    BY <1>1, <1>2, Moved DEF Goto
  <2> QED
    BY <1>1, <1>2, <2>1, SameRows, ApartKept DEF CheckAccount, locals
<1>3. CASE /\ tokens' = [tokens EXCEPT ![p].revoked = TRUE]
           /\ Finish(r, "401")
  <2>1. /\ tokens'[p] = [tokens[p] EXCEPT !.revoked = TRUE]
        /\ \A t \in Tokens \ {p} : tokens'[t] = tokens[t]
    BY <1>1, <1>3 DEF SessionInv, TypeOK
  <2>2. /\ tokens'[p] \in TokenRow
        /\ tokens'[p].user = tokens[p].user
        /\ tokens'[p].family = tokens[p].family
    BY <1>1, <2>1 DEF TokenRow
  <2>3. RowsKept
    BY <1>1, <2>1, <2>2, NoneAssumption DEF RowsKept, Inserted
  <2>4. \A t \in Inserted \ {p} : Live(t) => Live(t)'
    BY <2>1 DEF Inserted, Live
  <2>5. pc'[r] = "done"
    BY <1>1, <1>3, Moved DEF Finish
  <2> QED
    BY <1>1, <1>3, <2>3, <2>4, <2>5, EndApart DEF CheckAccount
<1> QED
  BY <1>2, <1>3 DEF CheckAccount

LEMMA RevokeApart ==
    ASSUME SessionInv, SessionsApart, NEW r \in Requests, RevokeFamily(r)
    PROVE  /\ SessionsApart'
           /\ \A t \in Inserted \ doomed[r] : Live(t) => Live(t)'
<1>1. \A t \in Tokens :
          tokens'[t] = IF t \in doomed[r] THEN [tokens[t] EXCEPT !.revoked = TRUE]
                                          ELSE tokens[t]
  BY DEF RevokeFamily
<1>2. doomed[r] \subseteq Inserted
  BY DEF SessionInv, RequestsSound
<1>3. ASSUME NEW t \in Inserted
      PROVE  /\ tokens'[t] \in TokenRow
             /\ tokens'[t].user = tokens[t].user
             /\ tokens'[t].family = tokens[t].family
  <2>1. t \in Tokens /\ tokens[t] \in TokenRow
    BY Small
  <2> QED
    BY <1>1, <2>1 DEF TokenRow
<1>4. RowsKept
  BY <1>1, <1>2, <1>3, NoneAssumption DEF RowsKept, Inserted
<1>5. \A t \in Inserted \ doomed[r] : Live(t) => Live(t)'
  BY <1>1 DEF Inserted, Live
<1> QED
  BY <1>4, <1>5, EndApart DEF RevokeFamily

LEMMA ExpireApart ==
    ASSUME SessionInv, SessionsApart, NEW t \in Tokens, Expire(t)
    PROVE  SessionsApart' /\ \A s \in Inserted : Live(s) => Live(s)'
<1>1. /\ t \in Inserted /\ tokens[t] \in TokenRow
      /\ tokens'[t] = [tokens[t] EXCEPT !.expired = TRUE]
      /\ \A s \in Tokens \ {t} : tokens'[s] = tokens[s]
  BY Small DEF Expire, SessionInv, TypeOK
<1>2. /\ tokens'[t] \in TokenRow
      /\ tokens'[t].user = tokens[t].user
      /\ tokens'[t].family = tokens[t].family
      /\ tokens'[t].revoked = tokens[t].revoked
  BY <1>1 DEF TokenRow
<1>3. RowsKept
  BY <1>1, <1>2, NoneAssumption DEF RowsKept, Inserted
<1>4. \A s \in Inserted : Live(s) => Live(s)'
  BY <1>1, <1>2, NoneAssumption DEF Inserted, Live
<1>5. t \in Requests /\ UNCHANGED <<pc, presented, doomed>> /\ pc[t] = "done"
  BY <1>1, Small DEF Expire, locals, Requests
<1> QED
  BY <1>3, <1>4, <1>5, ApartKept

\* A token stops working only by a request that presented a token of its
\* session, and a logout only ends a session of the user who logs out.
THEOREM SessionsStayApart == Spec => SessionsIndependent
<1> DEFINE EndedByOwn(t) ==
              \E r \in Refreshes \cup Logouts :
                 /\ pc[r] # "done" /\ pc'[r] = "done"
                 /\ tokens[presented[r]].family = tokens[t].family
                 /\ r \in Logouts => UserOf[r] = tokens[t].user
           OnlyByOwn ==
              \A t \in Inserted : Live(t) /\ ~Live(t)' => EndedByOwn(t)
<1>1. Init => SessionsApart
  <2> SUFFICES ASSUME Init PROVE SessionsApart
    OBVIOUS
  <2>1. Inserted = {} /\ \A r \in Requests : pc[r] = "new"
    BY DEF Init, Inserted
  <2> QED
    BY <2>1 DEF SessionsApart, Requests
<1>2. SessionInv /\ SessionsApart /\ [Next]_vars => SessionsApart' /\ [OnlyByOwn]_vars
  <2> SUFFICES ASSUME SessionInv, SessionsApart, [Next]_vars
               PROVE  SessionsApart' /\ OnlyByOwn
    OBVIOUS
  <2> HIDE DEF OnlyByOwn
  <2>0. ASSUME \A t \in Inserted : Live(t) => Live(t)' PROVE OnlyByOwn
    BY <2>0 DEF OnlyByOwn
  <2>1. ASSUME UNCHANGED tokens PROVE OnlyByOwn
    <3>1. \A t \in Inserted : Live(t) => Live(t)'
      BY <2>1 DEF Live
    <3> QED
      BY <2>0, <3>1
  <2>2. ASSUME NEW r \in Logins, StartSession(r) PROVE SessionsApart' /\ OnlyByOwn
    BY <2>0, <2>2, StartApart
  \* The token a refresh presents is the one that stops working.
  <2>3. ASSUME NEW r \in Refreshes, pc[r] # "done", pc'[r] = "done",
               \A t \in Inserted \ {presented[r]} : Live(t) => Live(t)'
        PROVE  OnlyByOwn
    <3>1. r \notin Logouts
      BY RequestsAssumption DEF Tokens
    <3> QED
      BY <2>3, <3>1 DEF OnlyByOwn
  <2>4. ASSUME NEW r \in Refreshes, Rotate(r) PROVE SessionsApart' /\ OnlyByOwn
    <3>1. pc[r] # "done" /\ pc'[r] = "done"
      BY <2>4, Moved DEF Rotate, Finish, Requests, Tokens
    <3> QED
      BY <2>3, <2>4, <3>1, RotateApart
  <2>5. ASSUME NEW r \in Refreshes, CheckAccount(r) PROVE SessionsApart' /\ OnlyByOwn
    <3>1. pc[r] # "done"
      BY <2>5 DEF CheckAccount
    <3> QED
      BY <2>1, <2>3, <2>5, <3>1, CheckAccountApart
  <2>6. ASSUME NEW r \in Refreshes \cup Logouts, RevokeFamily(r)
        PROVE  SessionsApart' /\ OnlyByOwn
    <3>0. r \in Requests
      BY DEF Requests, Tokens
    <3>1. pc[r] = "waiting" /\ pc'[r] = "done"
      BY <2>6, <3>0, Moved DEF RevokeFamily, Finish
    <3>2. ASSUME NEW t \in doomed[r]
          PROVE  /\ tokens[presented[r]].family = tokens[t].family
                 /\ r \in Logouts => UserOf[r] = tokens[t].user
      <4>1. t \in Inserted /\ presented[r] \in Inserted
        BY <3>0, <3>1, <3>2 DEF SessionInv, RequestsSound
      <4>2. tokens[presented[r]].family = tokens[t].family
        BY <3>0, <3>1, <3>2 DEF SessionsApart
      <4>3. tokens[presented[r]].user = tokens[t].user
        BY <4>1, <4>2 DEF SessionsApart
      <4>4. r \in Logouts => tokens[presented[r]].user = UserOf[r]
        BY <3>1 DEF SessionsApart
      <4> QED
        BY <4>2, <4>3, <4>4
    <3>3. \A t \in Inserted \ doomed[r] : Live(t) => Live(t)'
      BY <2>6, <3>0, RevokeApart
    <3>4. OnlyByOwn
      BY <3>1, <3>2, <3>3 DEF OnlyByOwn
    <3> QED
      BY <2>6, <3>0, <3>4, RevokeApart
  <2>7. ASSUME NEW r \in Requests, Step(r) PROVE SessionsApart' /\ OnlyByOwn
    BY <2>1, <2>2, <2>4, <2>5, <2>6, <2>7, StepCases, QuietApart
  <2>8. ASSUME NEW r \in Requests, Interrupt(r) PROVE SessionsApart' /\ OnlyByOwn
    BY <2>1, <2>8, QuietApart
  <2>9. ASSUME NEW t \in Tokens, Expire(t) PROVE SessionsApart' /\ OnlyByOwn
    BY <2>0, <2>9, ExpireApart
  <2>10. ASSUME UNCHANGED <<tokens, pc, presented, doomed>>
         PROVE  SessionsApart' /\ OnlyByOwn
    <3>1. SessionsApart'
      BY <2>10 DEF SessionsApart, Inserted
    <3> QED
      BY <2>1, <2>10, <3>1
  <2>11. CASE UNCHANGED vars \/ \E u \in Users : ChangeStatus(u)
    BY <2>10, <2>11 DEF vars, locals, ChangeStatus
  <2> QED
    BY <2>7, <2>8, <2>9, <2>11 DEF Next
<1> QED
  BY <1>1, <1>2, SessionInvariant, PTL DEF Spec, SessionsIndependent

----------------------------------------------------------------------------
\* Access: the table of routes.

Views == {"order view", "payment view"}
Seconds == {"authorization", "vendor", "customer"} \cup OwnerChecks \cup Views

\* What a check asks of the facts.
Meets(check, f) ==
    CASE check = "jwt" -> IsUser(f)
      [] check = "optional jwt" -> TRUE
      [] check = "authorization" -> EnoughRoles(f) /\ EnoughPermissions(f)
      [] check \in OwnerChecks -> IsOwner(f)
      [] check = "visibility" ->
            "exists" \in f /\ ("public" \in f \/ (IsUser(f) /\ IsOwner(f)))
      [] check = "vendor" -> "vendor" \in f
      [] check = "customer" -> Owns(f)
      [] check \in Views -> "exists" \in f /\ (request.owns \/ "ADMIN" \in f)

\* A protection and the rule that it serves.
Serves(p, rule) ==
    \/ p.checks = <<>> /\ p.roles = {} /\ p.permissions = {} /\ rule = "anyone"
    \/ p.checks = <<"jwt">> /\ p.roles = {} /\ p.permissions = {} /\ rule = "user"
    \/ /\ p.checks = <<"jwt", "authorization">>
       /\ \/ p.roles = {"ADMIN"} /\ p.permissions = {} /\ rule = "ADMIN"
          \/ /\ p.roles = {} /\ p.permissions = {"products:read"}
             /\ rule = "products:read"
          \/ /\ p.roles = {"ADMIN"} /\ p.permissions = {"products:read"}
             /\ rule = "ADMIN and products:read"
          \/ p.roles = Roles /\ p.permissions = {} /\ rule = "ADMIN or VENDOR"
          \/ /\ p.roles = {} /\ p.permissions = Permissions
             /\ rule = "products:read and inventory:adjust"
    \/ /\ p.roles = {} /\ p.permissions = {}
       /\ \/ p.checks = <<"jwt", "vendor">> /\ rule = "vendor"
          \/ p.checks = <<"jwt", "customer">> /\ rule = "customer"
          \/ \E c \in OwnerChecks : p.checks = <<"jwt", c>> /\ rule = "owner"
          \/ \E c \in Views : p.checks = <<"jwt", c>> /\ rule = "customer or admin"
          \/ p.checks = <<"optional jwt", "visibility">> /\ rule = "visible or owner"

UserRoutes ==
    {"POST /auth/logout", "GET /auth/me", "POST /vendors", "GET /vendors/me",
     "GET /cart", "POST /cart/items", "PATCH /cart/items/:itemId",
     "DELETE /cart/items/:itemId", "DELETE /cart/items", "POST /checkout",
     "GET /orders"}

\* A route stands where its rule says.
Placed(e) ==
    \/ e \in Serve(PublicRoutes, Open)
    \/ e \in Serve(UserRoutes, Bearer)
    \/ e \in Serve(AdminRoutes, Admin)
    \/ \E c \in OwnerChecks : e \in Serve(OwnerRoutes, OfOwner(c))
    \/ e \in Serve({"POST /shops", "POST /products", "GET /vendor-orders"}, OfVendor)
    \/ e \in Serve({"POST /payments", "POST /payments/:paymentId/retry"}, OfCustomer)
    \/ \E c \in Views : e \in Serve({"GET /orders/:masterOrderId",
                                     "GET /payments/:paymentId"}, OfCustomerOrAdmin(c))
    \/ e \in ImageRoutes /\ e.route = "GET /images/:imageId"
    \/ e \in DemoRoutes

\* The rules of the routes, class by class.
LEMMA RuleOf ==
    /\ \A r \in PublicRoutes : Rule(r) = "anyone"
    /\ \A r \in AdminRoutes : Rule(r) = "ADMIN"
    /\ \A r \in OwnerRoutes : Rule(r) = "owner"
    /\ \A r \in UserRoutes : Rule(r) = "user"
    /\ Rule("GET /images/:imageId") = "visible or owner"
    /\ \A r \in {"POST /shops", "POST /products", "GET /vendor-orders"} :
          Rule(r) = "vendor"
    /\ \A r \in {"POST /payments", "POST /payments/:paymentId/retry"} :
          Rule(r) = "customer"
    /\ \A r \in {"GET /orders/:masterOrderId", "GET /payments/:paymentId"} :
          Rule(r) = "customer or admin"
    /\ Rule("GET /auth/rbac-demo/permission") = "products:read"
    /\ Rule("GET /auth/rbac-demo/role-and-permission") = "ADMIN and products:read"
    /\ Rule("GET /auth/rbac-demo/roles-any") = "ADMIN or VENDOR"
    /\ Rule("GET /auth/rbac-demo/permissions-all") =
          "products:read and inventory:adjust"
<1> USE DEF PublicRoutes, AdminRoutes, OwnerRoutes
<1>1. \A r \in PublicRoutes : Rule(r) = "anyone"
  BY DEF Rule
<1>2. \A r \in AdminRoutes : Rule(r) = "ADMIN"
  BY DEF Rule
<1>3. \A r \in OwnerRoutes : Rule(r) = "owner"
  BY DEF Rule
<1>4. \A r \in UserRoutes : Rule(r) = "user"
  <2> SUFFICES ASSUME NEW r \in UserRoutes PROVE Rule(r) = "user"
    OBVIOUS
  <2>1. r \notin PublicRoutes /\ r \notin AdminRoutes /\ r \notin OwnerRoutes
    BY DEF UserRoutes
  <2>2. /\ r \notin {"GET /images/:imageId", "POST /shops", "POST /products",
                    "GET /vendor-orders", "POST /payments",
                    "POST /payments/:paymentId/retry", "GET /orders/:masterOrderId",
                    "GET /payments/:paymentId"}
        /\ r \notin {"GET /auth/rbac-demo/permission",
                    "GET /auth/rbac-demo/role-and-permission",
                    "GET /auth/rbac-demo/roles-any",
                    "GET /auth/rbac-demo/permissions-all"}
    BY DEF UserRoutes
  <2> HIDE DEF PublicRoutes, AdminRoutes, OwnerRoutes
  <2> QED
    BY <2>1, <2>2 DEF Rule
<1>5. /\ Rule("GET /images/:imageId") = "visible or owner"
      /\ \A r \in {"POST /shops", "POST /products", "GET /vendor-orders"} :
            Rule(r) = "vendor"
      /\ \A r \in {"POST /payments", "POST /payments/:paymentId/retry"} :
            Rule(r) = "customer"
      /\ \A r \in {"GET /orders/:masterOrderId", "GET /payments/:paymentId"} :
            Rule(r) = "customer or admin"
  BY DEF Rule
<1>6. /\ Rule("GET /auth/rbac-demo/permission") = "products:read"
      /\ Rule("GET /auth/rbac-demo/role-and-permission") = "ADMIN and products:read"
      /\ Rule("GET /auth/rbac-demo/roles-any") = "ADMIN or VENDOR"
      /\ Rule("GET /auth/rbac-demo/permissions-all") =
            "products:read and inventory:adjust"
  BY DEF Rule
<1> QED
  BY <1>1, <1>2, <1>3, <1>4, <1>5, <1>6

LEMMA EveryRoutePlaced == \A e \in Routes : Placed(e)
<1> USE DEF Serve, Placed, OwnerChecks, Views
<1>1. \A e \in AuthRoutes : Placed(e)
  BY DEF AuthRoutes, PublicRoutes, UserRoutes
<1>2. \A e \in HealthRoutes : Placed(e)
  BY DEF HealthRoutes, PublicRoutes
<1>3. \A e \in VendorRoutes : Placed(e)
  BY DEF VendorRoutes, UserRoutes, AdminRoutes
<1>4. \A e \in ShopRoutes : Placed(e)
  BY DEF ShopRoutes, PublicRoutes, OwnerRoutes
<1>5. \A e \in CategoryRoutes : Placed(e)
  BY DEF CategoryRoutes, PublicRoutes, AdminRoutes
<1>6. \A e \in ProductRoutes : Placed(e)
  BY DEF ProductRoutes, PublicRoutes, OwnerRoutes
<1>7. \A e \in VariantRoutes : Placed(e)
  BY DEF VariantRoutes, OwnerRoutes
<1>8. \A e \in InventoryRoutes : Placed(e)
  BY DEF InventoryRoutes, OwnerRoutes
<1>9. \A e \in ImageRoutes : Placed(e)
  BY DEF ImageRoutes, OwnerRoutes
<1>10. \A e \in CartRoutes : Placed(e)
  BY DEF CartRoutes, UserRoutes
<1>11. \A e \in CheckoutRoutes : Placed(e)
  BY DEF CheckoutRoutes, UserRoutes
<1>12. \A e \in OrderRoutes : Placed(e)
  BY DEF OrderRoutes, UserRoutes
<1>13. \A e \in VendorOrderRoutes : Placed(e)
  BY DEF VendorOrderRoutes, OwnerRoutes
<1>14. \A e \in PaymentRoutes : Placed(e)
  BY DEF PaymentRoutes, AdminRoutes
<1>15. \A e \in WebhookRoutes : Placed(e)
  BY DEF WebhookRoutes, PublicRoutes
<1> QED
  BY <1>1, <1>2, <1>3, <1>4, <1>5, <1>6, <1>7, <1>8, <1>9, <1>10, <1>11, <1>12, <1>13, <1>14, <1>15 DEF Routes

\* Each protection serves its rule.
LEMMA Protections ==
    /\ Serves(Open, "anyone")
    /\ Serves(Bearer, "user")
    /\ Serves(Admin, "ADMIN")
    /\ \A c \in OwnerChecks : Serves(OfOwner(c), "owner")
    /\ Serves(OfVendor, "vendor")
    /\ Serves(OfCustomer, "customer")
    /\ \A c \in Views : Serves(OfCustomerOrAdmin(c), "customer or admin")
    /\ Serves(Route(<<"optional jwt", "visibility">>, {}, {}), "visible or owner")
    /\ Serves(Guarded({}, {"products:read"}), "products:read")
    /\ Serves(Guarded({"ADMIN"}, {"products:read"}), "ADMIN and products:read")
    /\ Serves(Guarded({"ADMIN", "VENDOR"}, {}), "ADMIN or VENDOR")
    /\ Serves(Guarded({}, {"products:read", "inventory:adjust"}),
              "products:read and inventory:adjust")
<1> USE DEF Serves, Route
<1>1. Serves(Open, "anyone") /\ Serves(Bearer, "user")
  BY DEF Open, Bearer
<1>2. Serves(Admin, "ADMIN")
  BY DEF Admin, Guarded
<1>3. \A c \in OwnerChecks : Serves(OfOwner(c), "owner")
  BY DEF OfOwner
<1>4. Serves(OfVendor, "vendor")
  BY DEF OfVendor
<1>5. Serves(OfCustomer, "customer")
  BY DEF OfCustomer
<1>6. \A c \in Views : Serves(OfCustomerOrAdmin(c), "customer or admin")
  BY DEF OfCustomerOrAdmin
<1>7. Serves(Route(<<"optional jwt", "visibility">>, {}, {}), "visible or owner")
  OBVIOUS
<1>8. Serves(Guarded({}, {"products:read"}), "products:read")
  BY DEF Guarded
<1>9. Serves(Guarded({"ADMIN"}, {"products:read"}), "ADMIN and products:read")
  BY DEF Guarded
<1>10. Serves(Guarded({"ADMIN", "VENDOR"}, {}), "ADMIN or VENDOR")
  BY DEF Guarded, Roles
<1>11. Serves(Guarded({}, {"products:read", "inventory:adjust"}),
              "products:read and inventory:adjust")
  BY DEF Guarded, Permissions
<1> QED
  BY <1>1, <1>2, <1>3, <1>4, <1>5, <1>6, <1>7, <1>8, <1>9, <1>10, <1>11

LEMMA EveryRouteServed == \A e \in Routes : Serves(e.protection, Rule(e.route))
<1> SUFFICES ASSUME NEW e \in Routes PROVE Serves(e.protection, Rule(e.route))
  OBVIOUS
<1> USE Protections, RuleOf DEF Serve
<1>1. CASE e \in Serve(PublicRoutes, Open)
  BY <1>1
<1>2. CASE e \in Serve(UserRoutes, Bearer)
  BY <1>2
<1>3. CASE e \in Serve(AdminRoutes, Admin)
  BY <1>3
<1>4. CASE \E c \in OwnerChecks : e \in Serve(OwnerRoutes, OfOwner(c))
  BY <1>4
<1>5. CASE e \in Serve({"POST /shops", "POST /products", "GET /vendor-orders"},
                     OfVendor)
  BY <1>5
<1>6. CASE e \in Serve({"POST /payments", "POST /payments/:paymentId/retry"},
                     OfCustomer)
  BY <1>6
<1>7. CASE \E c \in Views : e \in Serve({"GET /orders/:masterOrderId",
                                       "GET /payments/:paymentId"},
                                      OfCustomerOrAdmin(c))
  BY <1>7
<1>8. CASE e \in ImageRoutes /\ e.route = "GET /images/:imageId"
  BY <1>8 DEF ImageRoutes
<1>9. CASE e \in DemoRoutes
  <2>1. Rule("GET /auth/rbac-demo/role") = "ADMIN"
    BY RuleOf DEF AdminRoutes
  <2>2. CASE e \in Serve({"GET /auth/rbac-demo/role"}, Admin)
    BY <2>1, <2>2
  <2>3. CASE e \in Serve({"GET /auth/rbac-demo/permission"},
                       Guarded({}, {"products:read"}))
    BY <2>3
  <2>4. CASE e \in Serve({"GET /auth/rbac-demo/role-and-permission"},
                       Guarded({"ADMIN"}, {"products:read"}))
    BY <2>4
  <2>5. CASE e \in Serve({"GET /auth/rbac-demo/roles-any"},
                       Guarded({"ADMIN", "VENDOR"}, {}))
    BY <2>5
  <2>6. CASE e \in Serve({"GET /auth/rbac-demo/permissions-all"},
                       Guarded({}, {"products:read", "inventory:adjust"}))
    BY <2>6
  <2> QED
    BY <1>9, <2>2, <2>3, <2>4, <2>5, <2>6 DEF DemoRoutes
<1> QED
  BY <1>1, <1>2, <1>3, <1>4, <1>5, <1>6, <1>7, <1>8, <1>9, EveryRoutePlaced
     DEF Placed

LEMMA EveryCaseServed == \A c \in Cases : Serves(c.protection, c.rule)
BY EveryRouteServed DEF Cases

----------------------------------------------------------------------------
\* The checks of a request.

\* What the table says of the checks of one request.
LEMMA ShapeOf ==
    ASSUME NEW p, NEW rule, Serves(p, rule)
    PROVE  /\ \/ p.checks = <<>>
              \/ p.checks = <<"jwt">>
              \/ \E c \in Seconds : p.checks = <<"jwt", c>>
              \/ p.checks = <<"optional jwt", "visibility">>
           /\ p.roles \subseteq Roles
           /\ p.permissions \subseteq Permissions
<1>1. p.roles \subseteq Roles /\ p.permissions \subseteq Permissions
  BY DEF Serves, Roles, Permissions
<1>2. \/ p.checks = <<>>
      \/ p.checks = <<"jwt">>
      \/ \E c \in Seconds : p.checks = <<"jwt", c>>
      \/ p.checks = <<"optional jwt", "visibility">>
  BY DEF Serves, Seconds
<1> QED
  BY <1>1, <1>2

\* Two checks, one by one.
LEMMA TwoChecks ==
    ASSUME NEW b, NEW c, Checks = <<b, c>>, NEW f
    PROVE  (\A i \in 1..Len(Checks) : Meets(Checks[i], f)) <=>
               Meets(b, f) /\ Meets(c, f)
OBVIOUS

LEMMA Shapes ==
    ASSUME request.case \in Cases
    PROVE  /\ \/ Len(Checks) = 0
              \/ Len(Checks) = 1 /\ Checks[1] = "jwt"
              \/ Len(Checks) = 2 /\ Checks[1] = "jwt" /\ Checks[2] \in Seconds
              \/ /\ Len(Checks) = 2
                 /\ Checks[1] = "optional jwt" /\ Checks[2] = "visibility"
           /\ RequiredRoles \subseteq Roles
           /\ RequiredPermissions \subseteq Permissions
           /\ Len(Checks) \in 0..2
<1>1. Serves(request.case.protection, request.case.rule)
  BY EveryCaseServed
<1>2. /\ \/ Checks = <<>>
         \/ Checks = <<"jwt">>
         \/ \E c \in Seconds : Checks = <<"jwt", c>>
         \/ Checks = <<"optional jwt", "visibility">>
      /\ RequiredRoles \subseteq Roles
      /\ RequiredPermissions \subseteq Permissions
  BY <1>1, ShapeOf DEF Checks, RequiredRoles, RequiredPermissions
<1>3. CASE \E c \in Seconds : Checks = <<"jwt", c>>
  <2>1. PICK c \in Seconds : Checks = <<"jwt", c>>
    BY <1>3
  <2>2. Len(Checks) = 2 /\ Checks[1] = "jwt" /\ Checks[2] = c
    BY <2>1
  <2>3. Len(Checks) \in 0..2
    BY <2>2
  <2> QED
    BY <1>2, <2>2, <2>3
<1>4. CASE Checks = <<"optional jwt", "visibility">>
  <2>1. /\ Len(Checks) = 2
        /\ Checks[1] = "optional jwt" /\ Checks[2] = "visibility"
    BY <1>4
  <2>2. Len(Checks) \in 0..2
    <3>1. Len(Checks) = 2
      BY <2>1
    <3> QED
      BY <3>1
  <2> QED
    BY <1>2, <2>1, <2>2
<1>5. CASE Checks = <<>>
  <2>1. Len(Checks) = 0
    BY <1>5
  <2>2. Len(Checks) \in 0..2
    BY <2>1
  <2> QED
    BY <1>2, <2>1, <2>2
<1>6. CASE Checks = <<"jwt">>
  <2>1. Len(Checks) = 1 /\ Checks[1] = "jwt"
    BY <1>6
  <2>2. Len(Checks) \in 0..2
    BY <2>1
  <2> QED
    BY <1>2, <2>1, <2>2
<1> QED
  BY <1>2, <1>3, <1>4, <1>5, <1>6

\* What the checks are, one by one.
LEMMA MeetsIs ==
    ASSUME NEW f
    PROVE  /\ Meets("jwt", f) <=> IsUser(f)
           /\ Meets("optional jwt", f)
           /\ Meets("authorization", f) <=> EnoughRoles(f) /\ EnoughPermissions(f)
           /\ \A c \in OwnerChecks : Meets(c, f) <=> IsOwner(f)
           /\ Meets("visibility", f) <=>
                 "exists" \in f /\ ("public" \in f \/ (IsUser(f) /\ IsOwner(f)))
           /\ Meets("vendor", f) <=> "vendor" \in f
           /\ Meets("customer", f) <=> Owns(f)
           /\ \A c \in Views :
                 Meets(c, f) <=> "exists" \in f /\ (request.owns \/ "ADMIN" \in f)
BY DEF Meets, OwnerChecks, Views

\* The rules, one by one.
LEMMA EntitledIs ==
    ASSUME NEW f
    PROVE  LET rule == request.case.rule
           IN  /\ rule = "anyone" => Entitled(f)
               /\ rule = "user" => (Entitled(f) <=> IsUser(f))
               /\ rule = "ADMIN" => (Entitled(f) <=> IsUser(f) /\ "ADMIN" \in f)
               /\ rule = "products:read" =>
                     (Entitled(f) <=> IsUser(f) /\ "products:read" \in f)
               /\ rule = "ADMIN and products:read" =>
                     (Entitled(f) <=> IsUser(f) /\ {"ADMIN", "products:read"} \subseteq f)
               /\ rule = "ADMIN or VENDOR" =>
                     (Entitled(f) <=> IsUser(f) /\ Roles \cap f # {})
               /\ rule = "products:read and inventory:adjust" =>
                     (Entitled(f) <=> IsUser(f) /\ Permissions \subseteq f)
               /\ rule = "vendor" => (Entitled(f) <=> IsUser(f) /\ "vendor" \in f)
               /\ rule = "customer" => (Entitled(f) <=> IsUser(f) /\ Owns(f))
               /\ rule = "owner" => (Entitled(f) <=> IsUser(f) /\ IsOwner(f))
               /\ rule = "customer or admin" =>
                     (Entitled(f) <=> /\ IsUser(f) /\ "exists" \in f
                                      /\ request.owns \/ "ADMIN" \in f)
               /\ rule = "visible or owner" =>
                     (Entitled(f) <=> /\ "exists" \in f
                                      /\ "public" \in f \/ (IsUser(f) /\ IsOwner(f)))
BY DEF Entitled

\* A rule asks for what its checks ask for, neither more nor less.
LEMMA RuleIsChecks ==
    ASSUME request.case \in Cases, NEW f
    PROVE  Entitled(f) <=> \A i \in 1..Len(Checks) : Meets(Checks[i], f)
<1>1. PICK p, rule : /\ p = request.case.protection /\ rule = request.case.rule
                     /\ Serves(p, rule)
  BY EveryCaseServed
<1>2. CASE p.checks = <<>> /\ rule = "anyone"
  BY <1>1, <1>2, EntitledIs DEF Checks
<1>3. CASE p.checks = <<"jwt">> /\ rule = "user"
  <2>1. (\A i \in 1..Len(Checks) : Meets(Checks[i], f)) <=> Meets("jwt", f)
    BY <1>1, <1>3 DEF Checks
  <2> QED
    BY <1>1, <1>3, <2>1, EntitledIs, MeetsIs
<1>4. ASSUME NEW c, p.checks = <<"jwt", c>>
      PROVE  (\A i \in 1..Len(Checks) : Meets(Checks[i], f)) <=>
                 IsUser(f) /\ Meets(c, f)
  <2>1. Checks = <<"jwt", c>>
    BY <1>1, <1>4 DEF Checks
  <2> QED
    BY <2>1, TwoChecks, MeetsIs
<1>5. CASE p.checks = <<"jwt", "authorization">>
  <2>1. (\A i \in 1..Len(Checks) : Meets(Checks[i], f)) <=>
            IsUser(f) /\ EnoughRoles(f) /\ EnoughPermissions(f)
    BY <1>4, <1>5, MeetsIs
  <2>2. RequiredRoles = p.roles /\ RequiredPermissions = p.permissions
    BY <1>1 DEF RequiredRoles, RequiredPermissions
  <2>3. \/ p.roles = {"ADMIN"} /\ p.permissions = {} /\ rule = "ADMIN"
        \/ p.roles = {} /\ p.permissions = {"products:read"} /\ rule = "products:read"
        \/ /\ p.roles = {"ADMIN"} /\ p.permissions = {"products:read"}
           /\ rule = "ADMIN and products:read"
        \/ p.roles = Roles /\ p.permissions = {} /\ rule = "ADMIN or VENDOR"
        \/ /\ p.roles = {} /\ p.permissions = Permissions
           /\ rule = "products:read and inventory:adjust"
    <3>1. p.checks[2] = "authorization" /\ p.checks # <<>> /\ p.checks # <<"jwt">>
      BY <1>5
    <3>2. \A c \in {"vendor", "customer"} \cup OwnerChecks \cup Views :
              p.checks # <<"jwt", c>>
      <4>1. "authorization" \notin {"vendor", "customer"} \cup OwnerChecks \cup Views
        BY DEF OwnerChecks, Views
      <4>2. \A c : <<"jwt", c>>[2] = c
        OBVIOUS
      <4> QED
        BY <3>1, <4>1, <4>2
    <3>3. p.checks # <<"optional jwt", "visibility">>
      BY <1>5
    <3> QED
      BY <1>1, <3>1, <3>2, <3>3 DEF Serves
  <2>4. Roles # {}
    BY DEF Roles
  <2> QED
    <3>1. CASE p.roles = {"ADMIN"} /\ p.permissions = {} /\ rule = "ADMIN"
      BY <1>1, <2>1, <2>2, <3>1, EntitledIs DEF EnoughRoles, EnoughPermissions
    <3>2. CASE /\ p.roles = {} /\ p.permissions = {"products:read"}
               /\ rule = "products:read"
      BY <1>1, <2>1, <2>2, <3>2, EntitledIs DEF EnoughRoles, EnoughPermissions
    <3>3. CASE /\ p.roles = {"ADMIN"} /\ p.permissions = {"products:read"}
               /\ rule = "ADMIN and products:read"
      <4>1. /\ EnoughRoles(f) <=> "ADMIN" \in f
            /\ EnoughPermissions(f) <=> "products:read" \in f
        BY <2>2, <3>3 DEF EnoughRoles, EnoughPermissions
      <4>2. Entitled(f) <=> IsUser(f) /\ "ADMIN" \in f /\ "products:read" \in f
        BY <1>1, <3>3, EntitledIs
      <4> QED
        BY <2>1, <4>1, <4>2
    <3>4. CASE p.roles = Roles /\ p.permissions = {} /\ rule = "ADMIN or VENDOR"
      BY <1>1, <2>1, <2>2, <2>4, <3>4, EntitledIs DEF EnoughRoles, EnoughPermissions
    <3>5. CASE /\ p.roles = {} /\ p.permissions = Permissions
               /\ rule = "products:read and inventory:adjust"
      BY <1>1, <2>1, <2>2, <3>5, EntitledIs DEF EnoughRoles, EnoughPermissions
    <3> QED
      BY <2>3, <3>1, <3>2, <3>3, <3>4, <3>5
<1>6. ASSUME NEW c, p.checks = <<"jwt", c>>,
             \/ c = "vendor" /\ rule = "vendor"
             \/ c = "customer" /\ rule = "customer"
             \/ c \in OwnerChecks /\ rule = "owner"
             \/ c \in Views /\ rule = "customer or admin"
      PROVE  Entitled(f) <=> \A i \in 1..Len(Checks) : Meets(Checks[i], f)
  <2>1. (\A i \in 1..Len(Checks) : Meets(Checks[i], f)) <=>
            IsUser(f) /\ Meets(c, f)
    BY <1>4, <1>6
  <2> QED
    BY <1>1, <1>6, <2>1, EntitledIs, MeetsIs
<1>7. CASE p.checks = <<"optional jwt", "visibility">> /\ rule = "visible or owner"
  <2>1. (\A i \in 1..Len(Checks) : Meets(Checks[i], f)) <=>
            Meets("optional jwt", f) /\ Meets("visibility", f)
    <3>1. Checks = <<"optional jwt", "visibility">>
      BY <1>1, <1>7 DEF Checks
    <3> QED
      BY <3>1, TwoChecks
  <2> QED
    BY <1>1, <1>7, <2>1, EntitledIs, MeetsIs
<1> QED
  BY <1>1, <1>2, <1>3, <1>5, <1>6, <1>7 DEF Serves

\* More facts meet what fewer facts meet.
LEMMA MeetsMore ==
    ASSUME NEW f, NEW g, f \subseteq g, NEW check, Meets(check, f),
           check \in {"jwt", "optional jwt", "visibility"} \cup Seconds
    PROVE  Meets(check, g)
<1>1. (IsUser(f) => IsUser(g)) /\ (IsOwner(f) => IsOwner(g))
  BY DEF IsUser, IsOwner, Owns
<1>2. (EnoughRoles(f) => EnoughRoles(g)) /\ (EnoughPermissions(f) => EnoughPermissions(g))
  BY DEF EnoughRoles, EnoughPermissions
<1> QED
  BY <1>1, <1>2 DEF Meets, Owns, Seconds, OwnerChecks, Views

----------------------------------------------------------------------------
\* The checks that were passed were met at some time of the request.
PassedWereMet == \A i \in 1..at - 1 : Meets(Checks[i], ever)

\* What the first check says of the caller.
IdentityIsKnown ==
    /\ identity => IsUser(ever)
    /\ at = 2 /\ Checks[1] = "jwt" => identity
    /\ at = 2 /\ Checks[1] = "optional jwt" /\ ~identity =>
          failed \/ ~IsUser(always)

\* What has been learnt inside a check.
AnswersAreFacts ==
    /\ matched \subseteq ever
    /\ asking = "roles" => RequiredRoles \cap always \subseteq pending \cup matched
    /\ asking = "permissions" =>
          /\ EnoughRoles(ever)
          /\ RequiredPermissions \cap always \subseteq pending \cup matched
    /\ asking \in {"vendor", "owner"} => "ADMIN" \notin always
    /\ asking = "owner" => "vendor" \in ever
    /\ asking # "check" => at = 2 /\ Len(Checks) = 2
    /\ asking # "check" /\ Checks[2] = "visibility" =>
          identity /\ "exists" \in ever /\ "public" \notin always
    /\ asking # "check" /\ Checks[2] \in Views => "exists" \in ever /\ ~request.owns

\* The check that refuses was not met all the time.
RefusalIsDeserved ==
    /\ outcome \in Refusals /\ ~failed =>
          at <= Len(Checks) /\ ~Meets(Checks[at], always)
    /\ outcome = "admitted" => at = Len(Checks) + 1

\* The inductive invariant of Access.
AccessInv ==
    /\ request \in [case : Cases, token : BOOLEAN, owns : BOOLEAN]
    /\ AccessTypeOK
    /\ PassedWereMet
    /\ IdentityIsKnown
    /\ AnswersAreFacts
    /\ RefusalIsDeserved
    /\ RefusalTellsWhy

----------------------------------------------------------------------------
\* The steps.

\* The same request with the same facts asks for the same.
LEMMA SameMeets ==
    ASSUME request' = request, NEW f, NEW g, NEW c
    PROVE  /\ Checks' = Checks /\ RequiredRoles' = RequiredRoles
           /\ RequiredPermissions' = RequiredPermissions
           /\ ever' = f => (Meets(c, ever)' <=> Meets(c, f))
           /\ always' = g => (Meets(c, always)' <=> Meets(c, g))
           /\ ever' = f => (IsUser(ever)' <=> IsUser(f))
           /\ always' = g => (IsUser(always)' <=> IsUser(g))
           /\ ever' = f => (EnoughRoles(ever)' <=> EnoughRoles(f))
<1>1. /\ Checks' = Checks /\ RequiredRoles' = RequiredRoles
      /\ RequiredPermissions' = RequiredPermissions
  BY DEF Checks, RequiredRoles, RequiredPermissions
<1> USE <1>1 DEF Meets, IsUser, IsOwner, EnoughRoles, EnoughPermissions
<1>2. ever' = f => (Meets(c, ever)' <=> Meets(c, f))
  OBVIOUS
<1>3. always' = g => (Meets(c, always)' <=> Meets(c, g))
  OBVIOUS
<1>4. /\ ever' = f => (IsUser(ever)' <=> IsUser(f))
      /\ always' = g => (IsUser(always)' <=> IsUser(g))
      /\ ever' = f => (EnoughRoles(ever)' <=> EnoughRoles(f))
  OBVIOUS
<1> QED
  BY <1>1, <1>2, <1>3, <1>4

\* What holds now has held, and what does not hold now has not held always.
LEMMA HeldFacts ==
    ASSUME AccessTypeOK, NEW a \in Attributes
    PROVE  (a \in held => a \in ever) /\ (a \notin held => a \notin always)
BY DEF AccessTypeOK, FactsOf, Attributes, Roles, Permissions

LEMMA AccessInitInv == AccessInit => AccessInv
<1> SUFFICES ASSUME AccessInit PROVE AccessInv
  OBVIOUS
<1>1. request.case \in Cases
  BY DEF AccessInit
<1>2. Len(Checks) \in 0..2
  BY <1>1, Shapes
<1>3. AccessTypeOK
  <2>1. at \in 1..Len(Checks) + 1 /\ changes \in 0..MaxChanges
    BY <1>2, AccessAssumption DEF AccessInit
  <2> QED
    BY <2>1 DEF AccessInit, AccessTypeOK
<1> QED
  BY <1>1, <1>2, <1>3 DEF AccessInit, AccessInv, PassedWereMet, IdentityIsKnown, AnswersAreFacts,
     RefusalIsDeserved, RefusalTellsWhy, Refusals

\* A step inside a check.
LEMMA InsideInv ==
    ASSUME AccessInv, outcome = "none",
           UNCHANGED <<request, data, failed, at, identity, outcome>>,
           asking' \in {"check", "roles", "permissions", "admin", "vendor", "owner"},
           (pending \cup matched)' \subseteq Roles \cup Permissions,
           AnswersAreFacts'
    PROVE  AccessInv'
<1> USE DEF AccessInv, data
<1>1. AccessTypeOK'
  BY SameMeets DEF AccessTypeOK, FactsOf
<1>2. PassedWereMet'
  BY SameMeets DEF PassedWereMet
<1>3. IdentityIsKnown'
  BY SameMeets DEF IdentityIsKnown
<1>4. RefusalIsDeserved' /\ RefusalTellsWhy'
  BY DEF RefusalIsDeserved, RefusalTellsWhy, Refusals
<1> QED
  BY <1>1, <1>2, <1>3, <1>4

\* Where a request stands among its checks.
LEMMA PlaceFacts ==
    ASSUME AccessInv, at <= Len(Checks)
    PROVE  /\ at + 1 \in 1..Len(Checks) + 1 /\ 1..(at + 1 - 1) = 1..at
           /\ \A i \in 1..at : i \in 1..at - 1 \/ i = at
           /\ at + 1 = 2 => at = 1
           /\ at = 1 \/ (at = 2 /\ Len(Checks) = 2)
<1>1. Len(Checks) \in 0..2
  BY Shapes DEF AccessInv
<1>2. at \in 1..Len(Checks) + 1
  BY DEF AccessInv, AccessTypeOK
<1>3. PICK n \in 0..2 : n = Len(Checks)
  BY <1>1
<1>4. at \in 1..n + 1 /\ at <= n
  BY <1>2, <1>3
<1>5. at \in 1..2 /\ (at = 1 \/ (at = 2 /\ n = 2))
  BY <1>4
<1> QED
  BY <1>3, <1>4, <1>5

\* What the first check has to say of the caller when it is passed.
CallerLearnt ==
    /\ at = 1 /\ Checks[1] = "jwt" => identity'
    /\ at = 1 /\ Checks[1] = "optional jwt" /\ ~identity' =>
          failed' \/ ~IsUser(always)

\* A check that is passed.
LEMMA PassInv ==
    ASSUME AccessInv, outcome = "none", at <= Len(Checks), Pass,
           UNCHANGED <<request, data>>, failed' \in BOOLEAN, failed => failed',
           Meets(Checks[at], ever), identity' \in BOOLEAN,
           identity' => IsUser(ever),
           at = 2 => identity' = identity, CallerLearnt
    PROVE  AccessInv'
<1>a. /\ request.case \in Cases /\ AccessTypeOK /\ PassedWereMet /\ IdentityIsKnown
      /\ AnswersAreFacts /\ RefusalIsDeserved /\ RefusalTellsWhy
  BY DEF AccessInv
<1>b. /\ at' = at + 1 /\ asking' = "check"
      /\ pending' = pending /\ matched' = matched /\ outcome' = outcome
      /\ request' = request /\ held' = held /\ granted' = granted
      /\ ever' = ever /\ always' = always /\ changes' = changes
  BY DEF Pass, data
<1>1. /\ at' \in 1..Len(Checks) + 1 /\ 1..(at' - 1) = 1..at
      /\ \A i \in 1..at : i \in 1..at - 1 \/ i = at
      /\ at' = 2 => at = 1
  BY <1>b, PlaceFacts
<1>2. AccessTypeOK'
  <2>1. Checks' = Checks /\ FactsOf(held, granted)' = FactsOf(held, granted)
    BY <1>b, SameMeets DEF FactsOf
  <2> QED
    BY <1>a, <1>b, <1>1, <2>1 DEF AccessTypeOK
<1>3. PassedWereMet'
  <2>1. \A i \in 1..at : Meets(Checks[i], ever)
    BY <1>a, <1>1 DEF PassedWereMet
  <2>2. \A i \in 1..at : Meets(Checks[i], ever)'
    BY <1>b, <2>1, SameMeets
  <2> QED
    BY <1>1, <2>2 DEF PassedWereMet
<1>4. IdentityIsKnown'
  <2>1. /\ Checks' = Checks
        /\ IsUser(ever)' <=> IsUser(ever)
        /\ IsUser(always)' <=> IsUser(always)
    BY <1>b, SameMeets
  <2> QED
    BY <1>a, <1>b, <1>1, <2>1 DEF IdentityIsKnown, CallerLearnt
<1>5. AnswersAreFacts'
  BY <1>a, <1>b DEF AnswersAreFacts
<1>6. RefusalIsDeserved' /\ RefusalTellsWhy'
  BY <1>a, <1>b DEF RefusalIsDeserved, RefusalTellsWhy, Refusals
<1> QED
  BY <1>b, <1>2, <1>3, <1>4, <1>5, <1>6 DEF AccessInv

\* A check that refuses.
LEMMA RefuseInv ==
    ASSUME AccessInv, outcome = "none", at <= Len(Checks),
           NEW code \in Refusals \cup {"500"}, Refuse(code),
           UNCHANGED <<request, data>>, failed' \in BOOLEAN, failed => failed',
           identity' \in BOOLEAN, identity' => IsUser(ever),
           at = 1 \/ identity' = identity, at = 1 => asking = "check",
           code \in Refusals /\ ~failed' => ~Meets(Checks[at], always),
           code = "401" => ~IsUser(always) \/ failed',
           code = "403" => IsUser(ever),
           code = "404" => \/ "exists" \notin always
                           \/ "public" \notin always /\ (~IsUser(always) \/ failed'),
           code = "500" => failed'
    PROVE  AccessInv'
<1> USE DEF AccessInv, data, Refuse
<1>1. Len(Checks) \in 0..2 /\ at \in 1..Len(Checks)
  <2>1. request.case \in Cases
    OBVIOUS
  <2>2. Len(Checks) \in 0..2
    BY <2>1, Shapes
  <2> QED
    BY <2>2 DEF AccessTypeOK
<1>2. AccessTypeOK'
  BY <1>1, SameMeets DEF AccessTypeOK, FactsOf
<1>3. PassedWereMet'
  BY <1>1, SameMeets DEF PassedWereMet
<1>4. IdentityIsKnown'
  <2>1. /\ Checks' = Checks /\ at' = at
        /\ IsUser(ever)' <=> IsUser(ever)
        /\ IsUser(always)' <=> IsUser(always)
    BY SameMeets
  <2>2. at = 2 => identity' = identity
    OBVIOUS
  <2> QED
    BY <2>1, <2>2 DEF IdentityIsKnown
<1>5. AnswersAreFacts'
  BY <1>1, SameMeets DEF AnswersAreFacts
<1>6. RefusalIsDeserved'
  BY <1>1, SameMeets DEF RefusalIsDeserved, Refusals
<1>7. RefusalTellsWhy'
  BY SameMeets DEF RefusalTellsWhy, Refusals
<1> QED
  BY <1>2, <1>3, <1>4, <1>5, <1>6, <1>7

\* What is known where a request stands.
LEMMA Where ==
    ASSUME AccessInv, NEW check, NEW query, At(check, query)
    PROVE  /\ outcome = "none" /\ at <= Len(Checks) /\ Checks[at] = check /\ asking = query
           /\ check \in {"jwt", "optional jwt"} =>
                 at = 1 /\ Checks[1] = check /\ asking = "check"
           /\ check \in Seconds =>
                 /\ at = 2 /\ Len(Checks) = 2 /\ Checks[2] = check
                 /\ identity /\ IsUser(ever)
           /\ check = "visibility" =>
                 /\ at = 2 /\ Len(Checks) = 2 /\ Checks[2] = check
                 /\ identity => IsUser(ever)
                 /\ ~identity => failed \/ ~IsUser(always)
<1>1. outcome = "none" /\ at <= Len(Checks) /\ Checks[at] = check /\ asking = query
  BY DEF At
<1>2. at = 1 \/ (at = 2 /\ Len(Checks) = 2)
  BY <1>1, PlaceFacts
<1>3. request.case \in Cases /\ IdentityIsKnown /\ AnswersAreFacts
  BY DEF AccessInv
<1>4. \/ Len(Checks) = 0
      \/ Len(Checks) = 1 /\ Checks[1] = "jwt"
      \/ Len(Checks) = 2 /\ Checks[1] = "jwt" /\ Checks[2] \in Seconds
      \/ Len(Checks) = 2 /\ Checks[1] = "optional jwt" /\ Checks[2] = "visibility"
  BY <1>3, Shapes
<1>5. /\ Seconds \cap {"jwt", "optional jwt", "visibility"} = {}
      /\ "visibility" \notin {"jwt", "optional jwt"}
  BY DEF Seconds, OwnerChecks, Views
<1>6. at = 1 => asking = "check"
  BY <1>3 DEF AnswersAreFacts
<1>7. CASE at = 1
  <2>1. Checks[1] \in {"jwt", "optional jwt"}
    <3>1. at <= Len(Checks)
      BY <1>1
    <3>2. Len(Checks) # 0
      BY <1>7, <3>1
    <3> QED
      BY <1>4, <3>2
  <2> QED
    BY <1>1, <1>5, <1>6, <1>7, <2>1
<1>8. CASE at = 2 /\ Len(Checks) = 2 /\ Checks[1] = "jwt" /\ Checks[2] \in Seconds
  <2>1. identity /\ IsUser(ever)
    BY <1>3, <1>8 DEF IdentityIsKnown
  <2> QED
    BY <1>1, <1>5, <1>8, <2>1
<1>9. CASE /\ at = 2 /\ Len(Checks) = 2
           /\ Checks[1] = "optional jwt" /\ Checks[2] = "visibility"
  <2>1. /\ identity => IsUser(ever)
        /\ ~identity => failed \/ ~IsUser(always)
    BY <1>3, <1>9 DEF IdentityIsKnown
  <2> QED
    BY <1>1, <1>5, <1>9, <2>1
<1> QED
  <2>1. CASE at = 2 /\ Len(Checks) = 2
    <3>1. Len(Checks) # 0 /\ Len(Checks) # 1
      BY <2>1
    <3> QED
      BY <1>4, <1>8, <1>9, <2>1, <3>1
  <2> QED
    BY <1>2, <1>7, <2>1

----------------------------------------------------------------------------
\* The caller.

LEMMA AuthenticatedIsUser ==
    ASSUME AccessInv
    PROVE  (Authenticated => IsUser(ever)) /\ (~Authenticated => ~IsUser(always))
<1>1. "active" \in Attributes
  BY DEF Attributes
<1> QED
  BY <1>1, HeldFacts DEF AccessInv, Authenticated, IsUser

LEMMA CheckJwtInv ==
    ASSUME AccessInv, CheckJwt, UNCHANGED <<request, data, failed>>
    PROVE  AccessInv'
<1>1. At("jwt", "check") /\ identity' = Authenticated
  BY DEF CheckJwt
<1>2. /\ outcome = "none" /\ at <= Len(Checks) /\ Checks[at] = "jwt"
      /\ asking = "check" /\ at = 1 /\ Checks[1] = "jwt"
  BY <1>1, Where
<1>3. failed \in BOOLEAN /\ Authenticated \in BOOLEAN
  BY DEF AccessInv, AccessTypeOK, Authenticated
<1>4. Meets("jwt", ever) <=> IsUser(ever)
  BY MeetsIs
<1>5. Meets("jwt", always) <=> IsUser(always)
  BY MeetsIs
<1>6. CASE Authenticated
  <2>1. Pass
    BY <1>6 DEF CheckJwt
  <2>2. CallerLearnt
    BY <1>1, <1>2, <1>6 DEF CallerLearnt
  <2> QED
    BY <1>1, <1>2, <1>3, <1>4, <1>6, <2>1, <2>2, AuthenticatedIsUser, PassInv
<1>7. CASE ~Authenticated
  <2>1. Refuse("401")
    BY <1>7 DEF CheckJwt
  <2> QED
    <3>1. identity' \in BOOLEAN /\ ~identity' /\ ~IsUser(always)
      BY <1>1, <1>3, <1>7, AuthenticatedIsUser
    <3>2. ~Meets(Checks[at], always)
      BY <1>2, <1>5, <3>1
    <3>3. "401" \in Refusals \cup {"500"}
      BY DEF Refusals
    <3> QED
      BY <1>2, <1>3, <2>1, <3>1, <3>2, <3>3, RefuseInv
<1> QED
  BY <1>6, <1>7

LEMMA CheckOptionalJwtInv ==
    ASSUME AccessInv, CheckOptionalJwt, UNCHANGED <<request, data, failed>>
    PROVE  AccessInv'
<1>1. At("optional jwt", "check") /\ identity' = Authenticated /\ Pass
  BY DEF CheckOptionalJwt
<1>2. /\ outcome = "none" /\ at <= Len(Checks) /\ Checks[at] = "optional jwt"
      /\ at = 1 /\ Checks[1] = "optional jwt"
  BY <1>1, Where
<1>3. failed \in BOOLEAN /\ Authenticated \in BOOLEAN
  BY DEF AccessInv, AccessTypeOK, Authenticated
<1>4. Meets("optional jwt", ever)
  BY MeetsIs
<1>5. CallerLearnt
  BY <1>1, <1>2, AuthenticatedIsUser DEF CallerLearnt
<1> QED
  <2>1. identity' \in BOOLEAN /\ (identity' => IsUser(ever))
    BY <1>1, <1>3, AuthenticatedIsUser
  <2>2. at = 2 => identity' = identity
    <3>1. at = 1
      BY <1>2
    <3> QED
      BY <3>1
  <2>3. failed' \in BOOLEAN /\ (failed => failed')
    BY <1>3
  <2> QED
    BY <1>1, <1>2, <1>4, <1>5, <2>1, <2>2, <2>3, PassInv

----------------------------------------------------------------------------
\* AuthorizationGuard.

\* A question, or one of its answers, while the guard decides.
LEMMA AskInv ==
    ASSUME AccessInv, NEW query, At("authorization", query),
           UNCHANGED <<request, data, failed, at, identity, outcome>>,
           asking' \in {"roles", "permissions"},
           (pending \cup matched)' \subseteq Roles \cup Permissions,
           matched' \subseteq ever,
           asking' = "roles" => RequiredRoles \cap always \subseteq (pending \cup matched)',
           asking' = "permissions" =>
               /\ EnoughRoles(ever)
               /\ RequiredPermissions \cap always \subseteq (pending \cup matched)'
    PROVE  AccessInv'
<1>1. /\ outcome = "none" /\ at = 2 /\ Len(Checks) = 2
      /\ Checks[2] = "authorization"
  BY Where DEF Seconds
<1>2. "authorization" # "visibility" /\ "authorization" \notin Views
  BY DEF Views
<1>3. AnswersAreFacts'
  BY <1>1, <1>2, SameMeets DEF AnswersAreFacts, data
<1> QED
  BY <1>1, <1>3, InsideInv

LEMMA AnswerOneInv ==
    ASSUME AccessInv, NEW query \in {"roles", "permissions"},
           At("authorization", query), AnswerOne,
           UNCHANGED <<request, data, failed>>
    PROVE  AccessInv'
<1>1. /\ AccessTypeOK /\ AnswersAreFacts /\ asking = query
  BY Where DEF AccessInv
<1>2. PICK q \in pending :
          /\ pending' = pending \ {q}
          /\ matched' = IF q \in FactsOf(held, granted) THEN matched \cup {q}
                                                        ELSE matched
  BY DEF AnswerOne
<1>3. /\ FactsOf(held, granted) \subseteq ever /\ always \subseteq FactsOf(held, granted)
      /\ pending \cup matched \subseteq Roles \cup Permissions
  BY <1>1 DEF AccessTypeOK
<1>4. matched' \subseteq ever
  BY <1>1, <1>2, <1>3 DEF AnswersAreFacts
<1>5. (pending \cup matched)' \subseteq Roles \cup Permissions
  BY <1>2, <1>3
<1>6. \A x \in always : x \in pending \cup matched => x \in (pending \cup matched)'
  BY <1>2, <1>3
<1>7. asking' = asking /\ UNCHANGED <<at, identity, outcome>>
  BY DEF AnswerOne
<1>8. /\ asking' = "roles" => RequiredRoles \cap always \subseteq (pending \cup matched)'
      /\ asking' = "permissions" =>
            /\ EnoughRoles(ever)
            /\ RequiredPermissions \cap always \subseteq (pending \cup matched)'
  BY <1>1, <1>6, <1>7 DEF AnswersAreFacts
<1> QED
  BY <1>1, <1>4, <1>5, <1>7, <1>8, AskInv

LEMMA EnoughOfMore ==
    ASSUME NEW f, NEW g
    PROVE  /\ RequiredRoles \cap f \subseteq g /\ EnoughRoles(f) => EnoughRoles(g)
           /\ RequiredPermissions \cap f \subseteq g /\ EnoughPermissions(f) =>
                 EnoughPermissions(g)
BY DEF EnoughRoles, EnoughPermissions

LEMMA CheckAuthorizationInv ==
    ASSUME AccessInv, CheckAuthorization, UNCHANGED <<request, data, failed>>
    PROVE  AccessInv'
<1>1. At("authorization", "check") /\ identity' = identity
  BY DEF CheckAuthorization
<1>2. identity
  BY <1>1, Where DEF Seconds
<1>3. Ask("roles", RequiredRoles)
  BY <1>2 DEF CheckAuthorization
<1>4. RequiredRoles \subseteq Roles
  BY Shapes DEF AccessInv
<1>5. /\ asking' = "roles" /\ pending' = RequiredRoles /\ matched' = {}
      /\ UNCHANGED <<at, outcome>>
  BY <1>3 DEF Ask
<1> QED
  BY <1>1, <1>4, <1>5, AskInv

LEMMA CheckRolesInv ==
    ASSUME AccessInv, CheckRoles, UNCHANGED <<request, data, failed>>
    PROVE  AccessInv'
<1>1. At("authorization", "roles")
  BY DEF CheckRoles
<1>2. /\ outcome = "none" /\ at <= Len(Checks) /\ Checks[at] = "authorization"
      /\ asking = "roles" /\ at = 2 /\ identity /\ IsUser(ever)
  BY <1>1, Where DEF Seconds
<1>3. /\ matched \subseteq ever
      /\ RequiredRoles \cap always \subseteq pending \cup matched
      /\ failed \in BOOLEAN /\ RequiredPermissions \subseteq Permissions
  BY <1>2, Shapes DEF AccessInv, AnswersAreFacts, AccessTypeOK
<1>4. CASE AnswerOne
  BY <1>1, <1>4, AnswerOneInv
<1>5. CASE /\ pending = {} /\ identity' = identity /\ EnoughRoles(matched)
           /\ Ask("permissions", RequiredPermissions)
  <2>1. EnoughRoles(ever)
    BY <1>3, <1>5, EnoughOfMore
  <2>2. /\ asking' = "permissions" /\ pending' = RequiredPermissions /\ matched' = {}
        /\ UNCHANGED <<at, outcome>>
    BY <1>5 DEF Ask
  <2> QED
    BY <1>1, <1>3, <1>5, <2>1, <2>2, AskInv
<1>6. CASE /\ pending = {} /\ identity' = identity /\ ~EnoughRoles(matched)
           /\ Refuse("403")
  <2>1. ~EnoughRoles(always)
    BY <1>3, <1>6, EnoughOfMore
  <2>2. ~Meets("authorization", always)
    BY <2>1, MeetsIs
  <2> QED
    BY <1>2, <1>3, <1>6, <2>2, RefuseInv DEF Refusals
<1> QED
  BY <1>4, <1>5, <1>6 DEF CheckRoles

LEMMA CheckPermissionsInv ==
    ASSUME AccessInv, CheckPermissions, UNCHANGED <<request, data, failed>>
    PROVE  AccessInv'
<1>1. At("authorization", "permissions")
  BY DEF CheckPermissions
<1>2. /\ outcome = "none" /\ at <= Len(Checks) /\ Checks[at] = "authorization"
      /\ asking = "permissions" /\ at = 2 /\ identity /\ IsUser(ever)
  BY <1>1, Where DEF Seconds
<1>3. /\ matched \subseteq ever /\ EnoughRoles(ever)
      /\ RequiredPermissions \cap always \subseteq pending \cup matched
      /\ failed \in BOOLEAN
  BY <1>2 DEF AccessInv, AnswersAreFacts, AccessTypeOK
<1>4. CASE AnswerOne
  BY <1>1, <1>4, AnswerOneInv
<1>5. CASE /\ pending = {} /\ identity' = identity /\ EnoughPermissions(matched)
           /\ Pass
  <2>1. EnoughPermissions(ever)
    BY <1>3, <1>5, EnoughOfMore
  <2>2. Meets("authorization", ever)
    BY <1>3, <2>1, MeetsIs
  <2>3. CallerLearnt
    BY <1>2 DEF CallerLearnt
  <2> QED
    BY <1>2, <1>3, <1>5, <2>2, <2>3, PassInv
<1>6. CASE /\ pending = {} /\ identity' = identity /\ ~EnoughPermissions(matched)
           /\ Refuse("403")
  <2>1. ~EnoughPermissions(always)
    BY <1>3, <1>6, EnoughOfMore
  <2>2. ~Meets("authorization", always)
    BY <2>1, MeetsIs
  <2> QED
    BY <1>2, <1>3, <1>6, <2>2, RefuseInv DEF Refusals
<1> QED
  BY <1>4, <1>5, <1>6 DEF CheckPermissions

----------------------------------------------------------------------------
\* Ownership.

\* A query of an ownership check that leads to the next one.
LEMMA ProceedToInv ==
    ASSUME AccessInv, NEW check \in OwnerChecks \cup {"visibility"}, NEW query,
           At(check, query), NEW next \in {"admin", "vendor", "owner"}, ProceedTo(next),
           UNCHANGED <<request, data, failed, identity>>,
           next \in {"vendor", "owner"} => "ADMIN" \notin always,
           next = "owner" => "vendor" \in ever,
           check = "visibility" =>
              identity /\ "exists" \in ever /\ "public" \notin always
    PROVE  AccessInv'
<1>1. /\ outcome = "none" /\ at = 2 /\ Len(Checks) = 2 /\ Checks[2] = check
  BY Where DEF Seconds
<1>2. check \notin Views
  BY DEF Views, OwnerChecks
<1>3. /\ asking' = next /\ UNCHANGED <<at, pending, matched, outcome>>
  BY DEF ProceedTo
<1>4. matched \subseteq ever /\ pending \cup matched \subseteq Roles \cup Permissions
  BY DEF AccessInv, AnswersAreFacts, AccessTypeOK
<1>5. AnswersAreFacts'
  <2>1. /\ Checks' = Checks /\ ever' = ever /\ always' = always
    BY SameMeets DEF data
  <2>2. asking' \notin {"check", "roles", "permissions"}
    BY <1>3
  <2> QED
    BY <1>1, <1>2, <1>3, <1>4, <2>1, <2>2 DEF AnswersAreFacts
<1> QED
  BY <1>1, <1>3, <1>4, <1>5, InsideInv

\* A later check that is passed, or that refuses the caller.
LEMMA SecondPassInv ==
    ASSUME AccessInv, NEW check \in Seconds \cup {"visibility"}, NEW query,
           At(check, query), Pass, UNCHANGED <<request, data, failed, identity>>,
           Meets(check, ever)
    PROVE  AccessInv'
<1>1. /\ outcome = "none" /\ at <= Len(Checks) /\ Checks[at] = check /\ at = 2
      /\ identity => IsUser(ever)
  BY Where
<1>2. failed \in BOOLEAN /\ identity \in BOOLEAN
  BY DEF AccessInv, AccessTypeOK
<1>3. CallerLearnt
  BY <1>1 DEF CallerLearnt
<1> QED
  BY <1>1, <1>2, <1>3, PassInv

LEMMA SecondRefuseInv ==
    ASSUME AccessInv, NEW check \in Seconds \cup {"visibility"}, NEW query,
           At(check, query), Refuse("403"),
           UNCHANGED <<request, data, failed, identity>>,
           identity, ~Meets(check, always)
    PROVE  AccessInv'
<1>1. /\ outcome = "none" /\ at <= Len(Checks) /\ Checks[at] = check /\ at = 2
      /\ IsUser(ever)
  BY Where
<1>2. failed \in BOOLEAN /\ identity \in BOOLEAN
  BY DEF AccessInv, AccessTypeOK
<1>3. "403" \in Refusals \cup {"500"}
  BY DEF Refusals
<1> QED
  BY <1>1, <1>2, <1>3, RefuseInv

LEMMA AskOwnershipInv ==
    ASSUME AccessInv, NEW check \in OwnerChecks \cup {"visibility"},
           AskOwnership(check), UNCHANGED <<request, data, failed>>
    PROVE  AccessInv'
<1>1. PICK query \in {"admin", "vendor", "owner"} : At(check, query)
  BY DEF AskOwnership, AskAdmin, AskVendor, AskOwner
<1>2. /\ asking = query /\ Checks[2] = check
      /\ check \in Seconds \cup {"visibility"}
      /\ check \in OwnerChecks => identity
  BY <1>1, Where DEF Seconds
<1>3. /\ identity
      /\ check = "visibility" => "exists" \in ever /\ "public" \notin always
      /\ asking \in {"vendor", "owner"} => "ADMIN" \notin always
      /\ asking = "owner" => "vendor" \in ever
  BY <1>1, <1>2 DEF AccessInv, AnswersAreFacts
<1>4. IsUser(ever)
  BY <1>3 DEF AccessInv, IdentityIsKnown
<1>5. \A a \in {"ADMIN", "vendor", "exists"} :
          (a \in held => a \in ever) /\ (a \notin held => a \notin always)
  BY HeldFacts DEF AccessInv, Attributes, Roles
<1>6. /\ IsOwner(ever) => Meets(check, ever)
      /\ ~IsOwner(always) => ~Meets(check, always)
  <2>1. CASE check \in OwnerChecks
    BY <2>1, MeetsIs
  <2>2. CASE check = "visibility"
    BY <1>3, <1>4, <2>2, MeetsIs
  <2> QED
    BY <2>1, <2>2
<1>7. CASE AskAdmin(check)
  <2>1. At(check, "admin") /\ identity' = identity
    BY <1>7 DEF AskAdmin
  <2>2. CASE "ADMIN" \in held
    <3>1. Pass /\ IsOwner(ever)
      BY <1>5, <1>7, <2>2 DEF AskAdmin, IsOwner
    <3> QED
      BY <1>2, <1>6, <2>1, <3>1, SecondPassInv
  <2>3. CASE "ADMIN" \notin held
    <3>1. ProceedTo("vendor") /\ "ADMIN" \notin always
      BY <1>5, <1>7, <2>3 DEF AskAdmin
    <3> QED
      BY <1>3, <2>1, <3>1, ProceedToInv
  <2> QED
    BY <2>2, <2>3
<1>8. CASE AskVendor(check)
  <2>1. At(check, "vendor") /\ identity' = identity /\ "ADMIN" \notin always
    BY <1>3, <1>8, Where DEF AskVendor
  <2>2. CASE "vendor" \in held
    <3>1. ProceedTo("owner") /\ "vendor" \in ever
      BY <1>5, <1>8, <2>2 DEF AskVendor
    <3> QED
      BY <1>3, <2>1, <3>1, ProceedToInv
  <2>3. CASE "vendor" \notin held
    <3>1. Refuse("403") /\ ~IsOwner(always)
      BY <1>5, <1>8, <2>1, <2>3 DEF AskVendor, IsOwner
    <3> QED
      BY <1>2, <1>3, <1>6, <2>1, <3>1, SecondRefuseInv
  <2> QED
    BY <2>2, <2>3
<1>9. CASE AskOwner(check)
  <2>1. /\ At(check, "owner") /\ identity' = identity
        /\ "ADMIN" \notin always /\ "vendor" \in ever
    BY <1>3, <1>9, Where DEF AskOwner
  <2>2. CASE OwnResource
    <3>1. Pass /\ IsOwner(ever)
      BY <1>5, <1>9, <2>1, <2>2 DEF AskOwner, OwnResource, IsOwner, Owns
    <3> QED
      BY <1>2, <1>6, <2>1, <3>1, SecondPassInv
  <2>3. CASE ~OwnResource
    <3>1. Refuse("403") /\ ~IsOwner(always)
      BY <1>5, <1>9, <2>1, <2>3 DEF AskOwner, OwnResource, IsOwner, Owns
    <3> QED
      BY <1>2, <1>3, <1>6, <2>1, <3>1, SecondRefuseInv
  <2> QED
    BY <2>2, <2>3
<1> QED
  BY <1>7, <1>8, <1>9 DEF AskOwnership

LEMMA OwnershipGuardInv ==
    ASSUME AccessInv, NEW check \in OwnerChecks, OwnershipGuard(check),
           UNCHANGED <<request, data, failed>>
    PROVE  AccessInv'
<1>1. CASE AskOwnership(check)
  BY <1>1, AskOwnershipInv
<1>2. CASE At(check, "check") /\ identity' = identity /\ identity /\ ProceedTo("admin")
  <2>1. check # "visibility"
    BY DEF OwnerChecks
  <2> QED
    BY <1>2, <2>1, ProceedToInv
<1>3. At(check, "check") => identity
  BY Where DEF Seconds
<1> QED
  BY <1>1, <1>2, <1>3 DEF OwnershipGuard

LEMMA ResolveStreamableInv ==
    ASSUME AccessInv, ResolveStreamable, UNCHANGED <<request, data, failed>>
    PROVE  AccessInv'
<1>1. CASE AskOwnership("visibility")
  BY <1>1, AskOwnershipInv
<1>2. CASE ~AskOwnership("visibility")
  <2>1. At("visibility", "check") /\ identity' = identity
    BY <1>2 DEF ResolveStreamable
  <2>2. /\ outcome = "none" /\ at <= Len(Checks) /\ Checks[at] = "visibility"
        /\ at = 2 /\ (~identity => failed \/ ~IsUser(always))
    BY <2>1, Where
  <2>3. \A a \in {"exists", "public"} :
            (a \in held => a \in ever) /\ (a \notin held => a \notin always)
    BY HeldFacts DEF AccessInv, Attributes
  <2>4. CASE {"exists", "public"} \subseteq held
    <3>1. Pass /\ Meets("visibility", ever)
      BY <1>2, <2>3, <2>4, MeetsIs DEF ResolveStreamable
    <3> QED
      BY <2>1, <3>1, SecondPassInv
  <2>5. CASE "exists" \in held /\ "public" \notin held /\ identity
    <3>1. ProceedTo("admin")
      BY <1>2, <2>5 DEF ResolveStreamable
    <3> QED
      BY <2>1, <2>3, <2>5, <3>1, ProceedToInv
  <2>6. CASE "exists" \notin held \/ ("public" \notin held /\ ~identity)
    <3>1. Refuse("404")
      BY <1>2, <2>6 DEF ResolveStreamable, Hide
    <3>2. \/ "exists" \notin always
          \/ "public" \notin always /\ (~IsUser(always) \/ failed)
      BY <2>2, <2>3, <2>6
    <3>3. ~failed => ~Meets("visibility", always)
      BY <3>2, MeetsIs
    <3>4. "404" \in Refusals \cup {"500"}
      BY DEF Refusals
    <3>5. failed \in BOOLEAN /\ identity \in BOOLEAN
      BY DEF AccessInv, AccessTypeOK
    <3>6. identity => IsUser(ever)
      BY DEF AccessInv, IdentityIsKnown
    <3> QED
      BY <2>1, <2>2, <3>1, <3>2, <3>3, <3>4, <3>5, <3>6, RefuseInv
  <2> QED
    BY <2>4, <2>5, <2>6
<1> QED
  BY <1>1, <1>2

----------------------------------------------------------------------------
\* The checks of the services.

LEMMA CheckVendorInv ==
    ASSUME AccessInv, CheckVendor, UNCHANGED <<request, data, failed>>
    PROVE  AccessInv'
<1>1. /\ At("vendor", "check") /\ identity' = identity
      /\ "vendor" \in Seconds
  BY DEF CheckVendor, Seconds
<1>2. identity
  BY <1>1, Where
<1>3. ("vendor" \in held => "vendor" \in ever)
      /\ ("vendor" \notin held => "vendor" \notin always)
  BY HeldFacts DEF AccessInv, Attributes
<1>4. CASE "vendor" \in held
  <2>1. Pass /\ Meets("vendor", ever)
    BY <1>3, <1>4, MeetsIs DEF CheckVendor
  <2> QED
    BY <1>1, <2>1, SecondPassInv
<1>5. CASE "vendor" \notin held
  <2>1. Refuse("403") /\ ~Meets("vendor", always)
    BY <1>3, <1>5, MeetsIs DEF CheckVendor
  <2> QED
    BY <1>1, <1>2, <2>1, SecondRefuseInv
<1> QED
  BY <1>4, <1>5

LEMMA CheckCustomerInv ==
    ASSUME AccessInv, CheckCustomer, UNCHANGED <<request, data, failed>>
    PROVE  AccessInv'
<1>1. /\ At("customer", "check") /\ identity' = identity
      /\ "customer" \in Seconds
  BY DEF CheckCustomer, Seconds
<1>2. identity
  BY <1>1, Where
<1>0. /\ "exists" \in held => "exists" \in ever
      /\ "exists" \notin held => "exists" \notin always
  BY HeldFacts DEF AccessInv, Attributes
<1>3. CASE OwnResource
  <2>1. Pass /\ Meets("customer", ever)
    BY <1>0, <1>3, MeetsIs DEF CheckCustomer, OwnResource, Owns
  <2> QED
    BY <1>1, <2>1, SecondPassInv
<1>4. CASE ~OwnResource
  <2>1. Refuse("403") /\ ~Meets("customer", always)
    BY <1>0, <1>4, MeetsIs DEF CheckCustomer, OwnResource, Owns
  <2> QED
    BY <1>1, <1>2, <2>1, SecondRefuseInv
<1> QED
  BY <1>3, <1>4

LEMMA OwnOrAdminInv ==
    ASSUME AccessInv, NEW check \in Views, OwnOrAdmin(check),
           UNCHANGED <<request, data, failed>>
    PROVE  AccessInv'
<1>1. PICK query \in {"check", "admin"} : At(check, query)
  BY DEF OwnOrAdmin
<1>2. /\ outcome = "none" /\ at = 2 /\ Len(Checks) = 2 /\ Checks[2] = check
      /\ asking = query /\ identity /\ identity' = identity /\ check \in Seconds
  BY <1>1, Where DEF Seconds, OwnOrAdmin
<1>3. \A a \in {"ADMIN", "exists"} :
          (a \in held => a \in ever) /\ (a \notin held => a \notin always)
  BY HeldFacts DEF AccessInv, Attributes, Roles
<1>4. CASE OwnResource /\ Pass
  <2>1. Meets(check, ever)
    BY <1>3, <1>4, MeetsIs DEF OwnResource
  <2> QED
    BY <1>1, <1>2, <1>4, <2>1, SecondPassInv
<1>5. CASE "exists" \in held /\ ~request.owns /\ ProceedTo("admin")
  <2>1. /\ asking' = "admin" /\ UNCHANGED <<at, pending, matched, outcome>>
    BY <1>5 DEF ProceedTo
  <2>2. matched \subseteq ever /\ pending \cup matched \subseteq Roles \cup Permissions
    BY DEF AccessInv, AnswersAreFacts, AccessTypeOK
  <2>3. check # "visibility"
    BY DEF Views
  <2>4. AnswersAreFacts'
    <3>1. Checks' = Checks /\ ever' = ever /\ always' = always
      BY SameMeets DEF data
    <3> QED
      BY <1>2, <1>3, <1>5, <2>1, <2>2, <2>3, <3>1 DEF AnswersAreFacts
  <2> QED
    BY <1>2, <2>1, <2>2, <2>4, InsideInv
<1>6. CASE asking = "admin" /\ "ADMIN" \in held /\ Pass
  <2>1. "exists" \in ever
    BY <1>2, <1>6 DEF AccessInv, AnswersAreFacts
  <2>2. Meets(check, ever)
    BY <1>3, <1>6, <2>1, MeetsIs
  <2> QED
    BY <1>1, <1>2, <1>6, <2>2, SecondPassInv
<1>7. CASE asking = "admin" /\ "ADMIN" \notin held /\ Refuse("403")
  <2>1. ~request.owns
    BY <1>2, <1>7 DEF AccessInv, AnswersAreFacts
  <2>2. ~Meets(check, always)
    BY <1>3, <1>7, <2>1, MeetsIs
  <2> QED
    BY <1>1, <1>2, <1>7, <2>2, SecondRefuseInv
<1>8. CASE "exists" \notin held /\ Refuse("403")
  <2>1. ~Meets(check, always)
    BY <1>3, <1>8, MeetsIs
  <2> QED
    BY <1>1, <1>2, <1>8, <2>1, SecondRefuseInv
<1> QED
  BY <1>4, <1>5, <1>6, <1>7, <1>8 DEF OwnOrAdmin, OwnResource, At

----------------------------------------------------------------------------
\* The end of the checks, a query that fails, and a change of the data.

LEMMA AdmitInv ==
    ASSUME AccessInv, Admit, UNCHANGED <<request, data, failed>>
    PROVE  AccessInv'
<1>1. /\ at > Len(Checks) /\ outcome' = "admitted"
      /\ UNCHANGED <<at, asking, identity, pending, matched>>
      /\ UNCHANGED <<held, granted, ever, always, changes>>
  BY DEF Admit, data
<1>2. Len(Checks) \in 0..2 /\ at \in 1..Len(Checks) + 1
  BY Shapes DEF AccessInv, AccessTypeOK
<1>3. at = Len(Checks) + 1
  BY <1>1, <1>2
<1>4. AccessTypeOK'
  BY <1>1, SameMeets DEF AccessInv, AccessTypeOK, FactsOf
<1>5. PassedWereMet' /\ IdentityIsKnown' /\ AnswersAreFacts'
  BY <1>1, SameMeets DEF AccessInv, PassedWereMet, IdentityIsKnown, AnswersAreFacts
<1>6. RefusalIsDeserved' /\ RefusalTellsWhy'
  BY <1>1, <1>3, SameMeets DEF RefusalIsDeserved, RefusalTellsWhy, Refusals
<1> QED
  BY <1>4, <1>5, <1>6 DEF AccessInv

LEMMA QueryFailsInv == ASSUME AccessInv, QueryFails PROVE AccessInv'
<1>1. /\ outcome = "none" /\ at <= Len(Checks) /\ failed'
      /\ UNCHANGED <<request, data>> /\ FailQuery
  BY DEF QueryFails
<1>2. At(Checks[at], asking)
  BY <1>1 DEF At
<1>3. /\ failed' \in BOOLEAN /\ identity \in BOOLEAN
      /\ identity => IsUser(ever)
  BY <1>1 DEF QueryFails, AccessInv, AccessTypeOK, IdentityIsKnown
<1>4. CASE Checks[at] = "optional jwt"
  <2>1. identity' = FALSE /\ Pass /\ at = 1
    BY <1>1, <1>2, <1>4, Where DEF FailQuery
  <2>2. Meets(Checks[at], ever)
    BY <1>4, MeetsIs
  <2>3. at # 2
    BY <2>1
  <2>4. CallerLearnt
    BY <1>1, <1>4, <2>1 DEF CallerLearnt
  <2> QED
    BY <1>1, <1>3, <2>1, <2>2, <2>3, <2>4, PassInv
<1>5. CASE Checks[at] # "optional jwt"
  <2>1. PICK code \in {"401", "500"} : Refuse(code) /\ identity' = identity
    BY <1>1, <1>5 DEF FailQuery
  <2>2. at = 1 => asking = "check"
    BY DEF AccessInv, AnswersAreFacts
  <2>3. code \in Refusals \cup {"500"} /\ code \notin {"403", "404"}
    BY <2>1 DEF Refusals
  <2> QED
    BY <1>1, <1>3, <2>1, <2>2, <2>3, RefuseInv
<1> QED
  BY <1>4, <1>5

\* More facts have held, and fewer have always held.
LEMMA ChangeInv == ASSUME AccessInv, Change PROVE AccessInv'
<1>1. /\ outcome = "none" /\ changes < MaxChanges /\ changes' = changes + 1
      /\ request' = request /\ failed' = failed
      /\ UNCHANGED <<at, asking, identity, pending, matched, outcome>>
      /\ ever' = ever \cup FactsOf(held', granted')
      /\ always' = always \cap FactsOf(held', granted')
  BY DEF Change, progress
<1>2. PICK f, g : f = ever' /\ g = always'
  OBVIOUS
<1>3. ever \subseteq f /\ g \subseteq always
  BY <1>1, <1>2
<1>4. held' \subseteq Attributes /\ granted' \subseteq Grants
  <2>1. held \subseteq Attributes /\ granted \subseteq Grants
    BY DEF AccessInv, AccessTypeOK
  <2> QED
    BY <2>1 DEF Change
<1>5. request.case \in Cases /\ PassedWereMet /\ IdentityIsKnown /\ AnswersAreFacts
  BY DEF AccessInv
<1>6. /\ Checks' = Checks /\ RequiredRoles' = RequiredRoles
      /\ RequiredPermissions' = RequiredPermissions
      /\ IsUser(ever)' <=> IsUser(f)
      /\ IsUser(always)' <=> IsUser(g)
      /\ EnoughRoles(ever)' <=> EnoughRoles(f)
      /\ \A c : Meets(c, ever)' <=> Meets(c, f)
  BY <1>1, <1>2, SameMeets
<1>7. /\ IsUser(ever) => IsUser(f)
      /\ IsUser(g) => IsUser(always)
      /\ EnoughRoles(ever) => EnoughRoles(f)
  BY <1>3 DEF IsUser, EnoughRoles
<1>8. AccessTypeOK'
  <2>1. changes \in 0..MaxChanges /\ MaxChanges \in Nat
    BY AccessAssumption DEF AccessInv, AccessTypeOK
  <2>2. changes' \in 0..MaxChanges
    BY <1>1, <2>1
  <2>3. FactsOf(held, granted)' = FactsOf(held', granted')
    BY DEF FactsOf
  <2> QED
    BY <1>1, <1>4, <1>6, <2>2, <2>3 DEF AccessInv, AccessTypeOK
<1>9. PassedWereMet'
  <2>1. \A i \in 1..at - 1 :
            Checks[i] \in {"jwt", "optional jwt", "visibility"} \cup Seconds
    <3>1. Len(Checks) \in 0..2
      BY <1>5, Shapes
    <3>2. at \in 1..Len(Checks) + 1
      BY DEF AccessInv, AccessTypeOK
    <3>3. \A i \in 1..at - 1 : (i = 1 /\ Len(Checks) # 0) \/ (i = 2 /\ Len(Checks) = 2)
      <4>1. PICK n \in 0..2 : n = Len(Checks)
        BY <3>1
      <4>2. \A i \in 1..at - 1 : (i = 1 /\ n # 0) \/ (i = 2 /\ n = 2)
        BY <3>2, <4>1
      <4> QED
        BY <4>1, <4>2
    <3>4. /\ Len(Checks) # 0 => Checks[1] \in {"jwt", "optional jwt"}
          /\ Len(Checks) = 2 => Checks[2] \in {"visibility"} \cup Seconds
      <4>1. CASE Len(Checks) = 0
        BY <4>1
      <4>2. CASE Len(Checks) = 1 /\ Checks[1] = "jwt"
        <5>1. Len(Checks) # 2
          BY <4>2
        <5> QED
          BY <4>2, <5>1
      <4> QED
        BY <1>5, <4>1, <4>2, Shapes
    <3> QED
      BY <3>3, <3>4
  <2>2. \A i \in 1..at - 1 : Meets(Checks[i], f)
    BY <1>3, <1>5, <2>1, MeetsMore DEF PassedWereMet
  <2> QED
    BY <1>1, <1>6, <2>2 DEF PassedWereMet
<1>10. IdentityIsKnown'
  BY <1>1, <1>5, <1>6, <1>7 DEF IdentityIsKnown
<1>11. AnswersAreFacts'
  <2>1. matched' \subseteq ever'
    BY <1>1, <1>5 DEF AnswersAreFacts
  <2>2. /\ asking' = "roles" => (RequiredRoles \cap always \subseteq pending \cup matched)'
        /\ asking' = "permissions" =>
              /\ EnoughRoles(ever)'
              /\ (RequiredPermissions \cap always \subseteq pending \cup matched)'
    BY <1>1, <1>5, <1>6, <1>7 DEF AnswersAreFacts
  <2>3. \A a : (a \notin always => a \notin always') /\ (a \in ever => a \in ever')
    BY <1>1
  <2> QED
    BY <1>1, <1>5, <1>6, <2>1, <2>2, <2>3 DEF AnswersAreFacts
<1>12. RefusalIsDeserved' /\ RefusalTellsWhy'
  BY <1>1 DEF RefusalIsDeserved, RefusalTellsWhy, Refusals
<1> QED
  BY <1>1, <1>8, <1>9, <1>10, <1>11, <1>12 DEF AccessInv

----------------------------------------------------------------------------
LEMMA AccessNextInv == AccessInv /\ [AccessNext]_accessVars => AccessInv'
<1> SUFFICES ASSUME AccessInv, [AccessNext]_accessVars PROVE AccessInv'
  OBVIOUS
<1>1. ASSUME AccessStep PROVE AccessInv'
  <2>1. UNCHANGED <<request, data, failed>>
    BY <1>1 DEF AccessStep
  <2>2. CASE CheckJwt
    BY <2>1, <2>2, CheckJwtInv
  <2>3. CASE CheckOptionalJwt
    BY <2>1, <2>3, CheckOptionalJwtInv
  <2>4. CASE CheckAuthorization
    BY <2>1, <2>4, CheckAuthorizationInv
  <2>5. CASE CheckRoles
    BY <2>1, <2>5, CheckRolesInv
  <2>6. CASE CheckPermissions
    BY <2>1, <2>6, CheckPermissionsInv
  <2>7. CASE \E check \in OwnerChecks : OwnershipGuard(check)
    BY <2>1, <2>7, OwnershipGuardInv
  <2>8. CASE ResolveStreamable
    BY <2>1, <2>8, ResolveStreamableInv
  <2>9. CASE CheckVendor
    BY <2>1, <2>9, CheckVendorInv
  <2>10. CASE CheckCustomer
    BY <2>1, <2>10, CheckCustomerInv
  <2>11. CASE \E check \in Views : OwnOrAdmin(check)
    BY <2>1, <2>11, OwnOrAdminInv
  <2>12. CASE Admit
    BY <2>1, <2>12, AdmitInv
  <2>13. /\ OwnerChecks = {"shop owner", "product owner", "vendor order owner"}
         /\ Views = {"order view", "payment view"}
    BY DEF OwnerChecks, Views
  <2> QED
    BY <1>1, <2>2, <2>3, <2>4, <2>5, <2>6, <2>7, <2>8, <2>9, <2>10, <2>11, <2>12,
       <2>13
       DEF AccessStep, VendorShopOwnershipGuard, ProductOwnershipGuard,
           VendorOrderOwnershipGuard, FindMyOrder, FindPayment
<1>2. CASE QueryFails
  BY <1>2, QueryFailsInv
<1>3. CASE Change
  BY <1>3, ChangeInv
<1>4. CASE UNCHANGED accessVars
  <2>1. /\ UNCHANGED <<request, failed>>
        /\ UNCHANGED <<at, asking, identity, pending, matched, outcome>>
        /\ UNCHANGED <<held, granted, ever, always, changes>>
    BY <1>4 DEF accessVars, data, progress
  <2>2. AccessTypeOK'
    BY <2>1, SameMeets DEF AccessInv, AccessTypeOK, FactsOf
  <2>3. PassedWereMet' /\ IdentityIsKnown' /\ AnswersAreFacts'
    BY <2>1, SameMeets DEF AccessInv, PassedWereMet, IdentityIsKnown, AnswersAreFacts
  <2>4. RefusalIsDeserved'
    BY <2>1, SameMeets DEF AccessInv, RefusalIsDeserved
  <2>5. RefusalTellsWhy'
    BY <2>1, SameMeets DEF AccessInv, RefusalTellsWhy
  <2> QED
    BY <2>1, <2>2, <2>3, <2>4, <2>5 DEF AccessInv
<1> QED
  BY <1>1, <1>2, <1>3, <1>4 DEF AccessNext

\* AccessInv holds at every moment of a request, however the data change.
THEOREM AccessInvariant == AccessSpec => []AccessInv
BY AccessInitInv, AccessNextInv, PTL DEF AccessSpec

\* AccessTypeOK: the data, the place of the request among its checks and the
\* facts it has met keep their types.
THEOREM AccessTypeCorrect == AccessSpec => []AccessTypeOK
<1>1. AccessInv => AccessTypeOK
  BY DEF AccessInv
<1> QED
  BY <1>1, AccessInvariant, PTL

\* Whatever is granted and however often it changes, whoever is let in has met
\* each condition of the route's documented rule during this very request:
\* AuthorizationGuard, the ownership guards and the services' own checks admit
\* nobody by a failing query or by what was lost before.
THEOREM OnlyEntitledEnter == AccessSpec => []AdmittedWasEntitled
<1>1. AccessInv => AdmittedWasEntitled
  <2> SUFFICES ASSUME AccessInv, outcome = "admitted" PROVE Entitled(ever)
    BY DEF AdmittedWasEntitled
  <2>1. request.case \in Cases /\ PassedWereMet /\ at = Len(Checks) + 1
    BY DEF AccessInv, RefusalIsDeserved
  <2>2. Len(Checks) \in 0..2
    BY <2>1, Shapes
  <2>3. 1..at - 1 = 1..Len(Checks)
    BY <2>1, <2>2
  <2>4. \A i \in 1..Len(Checks) : Meets(Checks[i], ever)
    BY <2>1, <2>3 DEF PassedWereMet
  <2> QED
    BY <2>1, <2>4, RuleIsChecks
<1> QED
  BY <1>1, AccessInvariant, PTL

\* Whoever meets the documented rule for as long as the request runs, for a
\* resource that exists as long, is not refused, in whatever order Promise.all
\* is answered, unless a query fails.
THEOREM EntitledEnter == AccessSpec => []EntitledIsAdmitted
<1>1. AccessInv => EntitledIsAdmitted
  <2> SUFFICES ASSUME AccessInv, outcome \in Refusals, ~failed
               PROVE  ~Entitled(always)
    BY DEF EntitledIsAdmitted
  <2>1. /\ request.case \in Cases /\ at <= Len(Checks)
        /\ ~Meets(Checks[at], always)
    BY DEF AccessInv, RefusalIsDeserved
  <2>2. Len(Checks) \in 0..2
    BY <2>1, Shapes
  <2>3. at \in 1..Len(Checks) + 1
    BY DEF AccessInv, AccessTypeOK
  <2>4. at \in 1..Len(Checks)
    BY <2>1, <2>2, <2>3
  <2> QED
    BY <2>1, <2>4, RuleIsChecks
<1> QED
  BY <1>1, AccessInvariant, PTL

\* 401 is told to nobody who is known, 403 to nobody who is not; 404 is told of a
\* product that was missing, and of one that was not public to a caller who was
\* not known throughout; an internal error only when a query has failed.
THEOREM RefusalsAreExplained == AccessSpec => []RefusalTellsWhy
<1>1. AccessInv => RefusalTellsWhy
  BY DEF AccessInv
<1> QED
  BY <1>1, AccessInvariant, PTL

=============================================================================
