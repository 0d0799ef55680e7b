-------------------------- MODULE VaultOAuthProofs --------------------------
(***************************************************************************)
(* Theorems about VaultOAuth, for any number of clients, approvals, tokens *)
(* and handlers in flight, and for any lifetimes.                          *)
(*                                                                         *)
(* Section 1 has type correctness with the foreign keys.  Each of the      *)
(* others has an invariant of its own: section 2 that one approval has one *)
(* session, section 3 about scopes, section 4 about burned families,       *)
(* section 5 about the prune job.                                          *)
(***************************************************************************)
EXTENDS VaultOAuth, TLAPS

-----------------------------------------------------------------------------
(* 1. Type correctness.                                                    *)

(* With sets one entry of a table and keeps the others.                    *)
LEMMA WithFacts ==
    ASSUME NEW f, NEW x, NEW y
    PROVE  /\ DOMAIN With(f, x, y) = DOMAIN f \cup {x}
           /\ With(f, x, y)[x] = y
           /\ \A z \in DOMAIN f \ {x} : With(f, x, y)[z] = f[z]
BY DEF With

(* Setting an entry to a value of the right type keeps a table's type.     *)
LEMMA WithType ==
    ASSUME NEW T, NEW f, f \in [DOMAIN f -> T], NEW x, NEW y \in T
    PROVE  With(f, x, y) \in [DOMAIN With(f, x, y) -> T]
BY DEF With

(* So does removing entries.                                               *)
LEMMA WithoutType ==
    ASSUME NEW T, NEW f, f \in [DOMAIN f -> T], NEW S
    PROVE  /\ Without(f, S) \in [DOMAIN Without(f, S) -> T]
           /\ DOMAIN Without(f, S) = DOMAIN f \ S
           /\ \A z \in DOMAIN f \ S : Without(f, S)[z] = f[z]
BY DEF Without

LEMMA KeepType ==
    ASSUME NEW T, NEW f, f \in [DOMAIN f -> T], NEW S
    PROVE  /\ Keep(f, S) \in [DOMAIN Keep(f, S) -> T]
           /\ DOMAIN Keep(f, S) = DOMAIN f \cap S
           /\ \A z \in DOMAIN f \cap S : Keep(f, S)[z] = f[z]
BY DEF Keep

(* What the constants are.                                                 *)
LEMMA Constant ==
    /\ PendingTTL \in Nat /\ CodeTTL \in Nat /\ AccessTTL \in Nat /\ RefreshTTL \in Nat
    /\ Retention \in Nat /\ MaxTime \in Nat
    /\ Read \in Baseline /\ Review \in Entitlements /\ Baseline \cap Entitlements = {}
    /\ \A S \in Asked : S \subseteq Baseline \cup Entitlements
    /\ NotRevoked \notin Times
BY OAuthAssumption DEF NotRevoked, Times

(* What a request carries in each of its phases.                           *)
LEMMA RequestFields ==
    ASSUME NEW q \in Request
    PROVE  /\ q.pc = "authorize" => q.client \in Clients
           /\ q.pc = "code" => q.nonce \in Nonces
           /\ q.pc = "refresh" => q.token \in Tokens /\ q.scopes \in Scopes
           /\ q.pc \in {"revoke", "consume", "commit"} => q.family \in Families
           /\ q.pc = "revoke" => q.ids \subseteq Tokens
           /\ q.pc \in {"consume", "commit"} => q.locks \subseteq Tokens
           /\ q.pc = "commit" => q.rows \subseteq Tokens
BY DEF Request, Idle

(* Consuming and revoking keep the rows of the two tables.                 *)
LEMMA ConsumedType ==
    ASSUME TypeOK, NEW S
    PROVE  /\ Consumed(S) \in [DOMAIN refresh -> RefreshRow]
           /\ DOMAIN Consumed(S) = DOMAIN refresh
           /\ \A t \in DOMAIN refresh :
                /\ t \in S => Consumed(S)[t] = [refresh[t] EXCEPT !.consumed = TRUE]
                /\ t \notin S => Consumed(S)[t] = refresh[t]
                /\ Consumed(S)[t].family = refresh[t].family
                /\ Consumed(S)[t].scopes = refresh[t].scopes
                /\ Consumed(S)[t].expires = refresh[t].expires
                /\ Consumed(S)[t].consumed = (refresh[t].consumed \/ t \in S)
BY DEF TypeOK, Consumed, RefreshRow

LEMMA RevokedType ==
    ASSUME TypeOK, NEW S
    PROVE  /\ Revoked(S) \in [DOMAIN creds -> Credential]
           /\ DOMAIN Revoked(S) = DOMAIN creds
           /\ \A t \in DOMAIN creds :
                /\ Revoked(S)[t].scopes = creds[t].scopes
                /\ Revoked(S)[t].expires = creds[t].expires
                /\ t \notin S => Revoked(S)[t] = creds[t]
                /\ Revoked(S)[t].revoked = NotRevoked => creds[t].revoked = NotRevoked
                /\ t \in S => Revoked(S)[t].revoked # NotRevoked
                /\ Revoked(S)[t].revoked \in {creds[t].revoked, now}
BY Constant DEF TypeOK, Revoked, Revocable, Credential

LEMMA InitType == Init => TypeOK
BY Constant DEF Init, TypeOK, Referential, Request, Idle, Times

(* A request in one of its phases, and none at all, have a type.           *)
LEMMA GotoType ==
    ASSUME TypeOK, NEW r \in Reqs, NEW q \in Request, Goto(r, q)
    PROVE  req' \in [Reqs -> Request]
BY DEF TypeOK, Goto

LEMMA FinishType ==
    ASSUME TypeOK, NEW r \in Reqs, Finish(r)
    PROVE  req' \in [Reqs -> Request]
BY GotoType DEF Finish, Request

(* The rows of a family are tokens, and so is a burn a request.            *)
LEMMA BurnType ==
    ASSUME TypeOK, NEW r \in Reqs, NEW f \in Families, StartBurn(r, f)
    PROVE  req' \in [Reqs -> Request]
<1>1. InFamily(f) \in SUBSET Tokens
  BY DEF TypeOK, InFamily
<1>2. [pc |-> "revoke", family |-> f, ids |-> InFamily(f)] \in Request
  BY <1>1 DEF Request
<1> QED BY <1>2, GotoType DEF StartBurn

(* What _issue stores has a type, and no reference of it dangles.          *)
LEMMA IssueType ==
    ASSUME TypeOK, NEW f \in Families, NEW t \in Tokens, NEW c \in DOMAIN clients,
           NEW scopes \in Scopes, NEW entitled \in SUBSET Entitlements, NEW spent,
           Issue(f, t, c, scopes, entitled, spent), UNCHANGED <<clients, now>>
    PROVE  /\ grants' \in [DOMAIN grants' -> Grant] /\ DOMAIN grants' \subseteq Families
           /\ refresh' \in [DOMAIN refresh' -> RefreshRow]
           /\ DOMAIN refresh' \subseteq DOMAIN minted'
           /\ creds' \in [DOMAIN creds' -> Credential] /\ DOMAIN creds' \subseteq DOMAIN minted'
           /\ minted' \in [DOMAIN minted' -> Families] /\ DOMAIN minted' \subseteq Tokens
           /\ late' \subseteq Tokens
           /\ \A g \in DOMAIN grants' : grants'[g].client \in DOMAIN clients'
           /\ \A x \in DOMAIN refresh' :
                refresh'[x].family \in DOMAIN grants' /\ x \in DOMAIN creds'
<1> DEFINE authorized == scopes \cap Baseline
           grant == [client |-> c, authorized |-> authorized, entitled |-> entitled]
           pair == [family |-> f, scopes |-> authorized \cup entitled, consumed |-> FALSE,
                    expires |-> now + RefreshTTL]
           cred == [scopes |-> authorized \cup entitled, revoked |-> NotRevoked,
                    expires |-> now + AccessTTL]
<1>1. /\ grants' = With(grants, f, grant) /\ refresh' = With(Consumed(spent), t, pair)
      /\ creds' = With(Revoked(spent), t, cred) /\ minted' = With(minted, t, f)
      /\ late' \subseteq late \cup {t} /\ clients' = clients
  BY DEF Issue
<1>2. grant \in Grant /\ grant.client = c
  BY DEF Grant, TypeOK
<1>3. pair \in RefreshRow /\ pair.family = f
  BY Constant DEF RefreshRow, Scopes, TypeOK, Times
<1>4. cred \in Credential
  BY Constant DEF Credential, Scopes, TypeOK, Times
<1> HIDE DEF grant, pair, cred
<1>5. grants' \in [DOMAIN grants' -> Grant] /\ DOMAIN grants' = DOMAIN grants \cup {f}
  BY <1>1, <1>2, WithType, WithFacts DEF TypeOK
<1>6. /\ refresh' \in [DOMAIN refresh' -> RefreshRow]
      /\ DOMAIN refresh' = DOMAIN refresh \cup {t}
      /\ refresh'[t] = pair
      /\ \A x \in DOMAIN refresh \ {t} : refresh'[x].family = refresh[x].family
  <2> DEFINE rows == Consumed(spent)
  <2>1. /\ rows \in [DOMAIN refresh -> RefreshRow]
        /\ \A x \in DOMAIN refresh : rows[x].family = refresh[x].family
    BY ConsumedType
  <2> HIDE DEF rows
  <2> QED BY <1>1, <1>3, <2>1 DEF With, rows
<1>7. creds' \in [DOMAIN creds' -> Credential] /\ DOMAIN creds' = DOMAIN creds \cup {t}
  <2> DEFINE rows == Revoked(spent)
  <2>1. rows \in [DOMAIN creds -> Credential]
    BY RevokedType
  <2> HIDE DEF rows
  <2> QED BY <1>1, <1>4, <2>1 DEF With, rows
<1>8. minted' \in [DOMAIN minted' -> Families] /\ DOMAIN minted' = DOMAIN minted \cup {t}
  BY <1>1, WithType, WithFacts DEF TypeOK
<1>9. \A g \in DOMAIN grants' : grants'[g].client \in DOMAIN clients'
  BY <1>1, <1>2, <1>5 DEF TypeOK, Referential, With
<1>10. \A x \in DOMAIN refresh' : refresh'[x].family \in DOMAIN grants' /\ x \in DOMAIN creds'
  BY <1>3, <1>5, <1>6, <1>7 DEF TypeOK, Referential
<1> QED BY <1>1, <1>5, <1>6, <1>7, <1>8, <1>9, <1>10 DEF TypeOK

(* Every step keeps the types and the foreign keys.                        *)
LEMMA NextType == TypeOK /\ [Next]_vars => TypeOK'
<1> SUFFICES ASSUME TypeOK, [Next]_vars PROVE TypeOK'
  OBVIOUS
<1> USE Constant
<1>1. CASE UNCHANGED vars
  BY <1>1 DEF vars, TypeOK, Referential
<1>2. ASSUME NEW c \in Clients, Register(c) PROVE TypeOK'
  <2>1. clients' \in [DOMAIN clients' -> Times] /\ DOMAIN clients' = DOMAIN clients \cup {c}
    BY <1>2, WithType, WithFacts DEF Register, TypeOK
  <2> QED BY <1>2, <2>1 DEF Register, TypeOK, Referential, history
<1>3. ASSUME NEW r \in Reqs, req' \in [Reqs -> Request], UNCHANGED <<tables, now, history>>
      PROVE  TypeOK'
  BY <1>3 DEF TypeOK, Referential, tables, history
<1>4. ASSUME NEW r \in Reqs, NEW c \in Clients, BeginAuthorize(r, c) PROVE TypeOK'
  <2>1. [pc |-> "authorize", client |-> c] \in Request
    BY DEF Request
  <2> QED BY <1>3, <1>4, <2>1, GotoType DEF BeginAuthorize
<1>5. ASSUME NEW r \in Reqs, NEW n \in Nonces, NEW S \in Asked, Park(r, n, S) PROVE TypeOK'
  <2>1. req' \in [Reqs -> Request]
    BY <1>5, FinishType DEF Park
  <2>2. CASE UNCHANGED tables
    BY <1>3, <1>5, <2>1, <2>2 DEF Park
  <2>3. CASE ~UNCHANGED tables
    <3> DEFINE row == [client |-> req[r].client, scopes |-> Requested(S, Baseline),
                       expires |-> now + PendingTTL]
    <3>1. /\ req[r].client \in DOMAIN clients /\ S \subseteq Baseline
          /\ pending' = With(pending, n, row)
          /\ UNCHANGED <<clients, codes, grants, refresh, creds, burned, now, history>>
      BY <1>5, <2>3 DEF Park, StillRegistered
    <3>2. row \in Flow(PendingTTL) /\ row.client \in DOMAIN clients
      BY <3>1 DEF Flow, Requested, TypeOK, Times
    <3> HIDE DEF row
    <3>3. /\ pending' \in [DOMAIN pending' -> Flow(PendingTTL)]
          /\ DOMAIN pending' = DOMAIN pending \cup {n}
          /\ \A m \in DOMAIN pending' : pending'[m].client \in DOMAIN clients
      BY <3>1, <3>2 DEF With, TypeOK, Referential
    <3> QED BY <2>1, <3>1, <3>3 DEF TypeOK, Referential, history
  <2> QED BY <2>2, <2>3
<1>6. ASSUME NEW n \in Nonces, NEW ok \in BOOLEAN, Login(n, ok) PROVE TypeOK'
  <2>1. /\ pending' \in [DOMAIN pending' -> Flow(PendingTTL)]
        /\ DOMAIN pending' \subseteq DOMAIN pending
        /\ \A m \in DOMAIN pending' : pending'[m] = pending[m]
    BY <1>6 DEF Login, Without, TypeOK
  <2> DEFINE row == [client |-> pending[n].client, scopes |-> pending[n].scopes,
                     expires |-> now + CodeTTL]
  <2>2. row \in Flow(CodeTTL) /\ row.client \in DOMAIN clients
    BY <1>6 DEF Login, Flow, TypeOK, Referential, Times
  <2>3. codes' = codes \/ codes' = With(codes, n, row)
    BY <1>6 DEF Login
  <2> HIDE DEF row
  <2>4. /\ codes' \in [DOMAIN codes' -> Flow(CodeTTL)] /\ DOMAIN codes' \subseteq Nonces
        /\ \A m \in DOMAIN codes' : codes'[m].client \in DOMAIN clients
    BY <2>2, <2>3 DEF With, TypeOK, Referential
  <2> QED BY <1>6, <2>1, <2>4 DEF Login, TypeOK, Referential
<1>7. ASSUME NEW r \in Reqs, NEW n \in Nonces, LoadCode(r, n) PROVE TypeOK'
  <2>1. [pc |-> "code", nonce |-> n] \in Request
    BY DEF Request
  <2> QED BY <1>3, <1>7, <2>1, GotoType DEF LoadCode
<1>8. ASSUME NEW r \in Reqs, NEW f \in Families, NEW t \in Tokens, ExchangeCode(r, f, t)
      PROVE  TypeOK'
  <2> DEFINE n == req[r].nonce
  <2>1. req' \in [Reqs -> Request] /\ n \in Nonces
    BY <1>8, FinishType, RequestFields DEF ExchangeCode, TypeOK
  <2>2. CASE UNCHANGED <<tables, history>>
    BY <1>3, <1>8, <2>1, <2>2 DEF ExchangeCode
  <2>3. CASE ~UNCHANGED <<tables, history>>
    <3>1. /\ n \in DOMAIN codes /\ codes' = Without(codes, {n})
          /\ Issue(f, t, codes[n].client, codes[n].scopes, {}, {})
          /\ origin' = With(origin, f, n)
          /\ UNCHANGED <<clients, pending, burned, now, approved>>
      BY <1>8, <2>3 DEF ExchangeCode, Redeemable, tables, history
    <3>2. codes[n].client \in DOMAIN clients /\ codes[n].scopes \in Scopes
      BY <3>1 DEF TypeOK, Referential, Flow, Scopes
    <3>3. /\ codes' \in [DOMAIN codes' -> Flow(CodeTTL)] /\ DOMAIN codes' \subseteq DOMAIN codes
          /\ \A m \in DOMAIN codes' : codes'[m] = codes[m]
      BY <3>1 DEF Without, TypeOK
    <3>4. origin' \in [DOMAIN origin' -> Nonces] /\ DOMAIN origin' \subseteq Families
      BY <2>1, <3>1 DEF With, TypeOK
    <3> HIDE DEF n
    <3> QED BY <2>1, <3>1, <3>2, <3>3, <3>4, IssueType DEF TypeOK, Referential
  <2> QED BY <2>2, <2>3
<1>9. ASSUME NEW r \in Reqs, NEW t \in Tokens, NEW S \in Asked, LoadRefresh(r, t, S)
      PROVE  TypeOK'
  <2>1. t \in DOMAIN refresh /\ refresh[t].family \in Families /\ refresh[t].scopes \in Scopes
    BY <1>9 DEF LoadRefresh, TypeOK, RefreshRow
  <2>2. [pc |-> "refresh", token |-> t, scopes |-> Requested(S, refresh[t].scopes)] \in Request
    BY <2>1 DEF Request, Requested, Scopes
  <2>3. req' \in [Reqs -> Request]
    BY <1>9, <2>1, <2>2, GotoType, BurnType DEF LoadRefresh
  <2> QED BY <1>3, <1>9, <2>3 DEF LoadRefresh
<1>10. ASSUME NEW r \in Reqs, NEW t \in Tokens, ExchangeRefresh(r, t) PROVE TypeOK'
  <2> DEFINE old == req[r].token
             f == refresh[old].family
  <2>1. old \in Tokens /\ req[r].scopes \in Scopes
    BY <1>10, RequestFields DEF ExchangeRefresh, TypeOK
  <2>2. CASE Consumable(old)
    <3>1. /\ old \in DOMAIN refresh
          /\ Issue(f, t, grants[f].client, req[r].scopes, grants[f].entitled, {old})
          /\ Finish(r)
          /\ UNCHANGED <<clients, pending, codes, burned, now, origin, approved>>
      BY <1>10, <2>2 DEF ExchangeRefresh, Consumable
    <3>2. /\ f \in Families /\ grants[f].client \in DOMAIN clients
          /\ grants[f].entitled \in SUBSET Entitlements
      BY <3>1 DEF TypeOK, Referential, RefreshRow, Grant
    <3>3. req' \in [Reqs -> Request]
      BY <3>1, FinishType
    <3> HIDE DEF old, f
    <3> QED BY <2>1, <3>1, <3>2, <3>3, IssueType DEF TypeOK, Referential
  <2>3. CASE ~Consumable(old)
    <3>1. /\ UNCHANGED <<tables, now, history>>
          /\ IF old \in DOMAIN refresh /\ refresh[old].consumed THEN StartBurn(r, f)
                                                               ELSE Finish(r)
      BY Zenon, <1>10, <2>3 DEF ExchangeRefresh, history, tables
    <3>2. old \in DOMAIN refresh => f \in Families
      BY DEF TypeOK, RefreshRow
    <3>3. req' \in [Reqs -> Request]
      BY <3>1, <3>2, FinishType, BurnType
    <3> QED BY <1>3, <3>1, <3>3
  <2> QED BY <2>2, <2>3
<1>11. ASSUME NEW r \in Reqs, NEW t \in Tokens, RevokeToken(r, t) PROVE TypeOK'
  <2>1. t \in DOMAIN refresh /\ refresh[t].family \in Families
    BY <1>11 DEF RevokeToken, TypeOK, RefreshRow
  <2> QED BY <1>3, <1>11, <2>1, BurnType DEF RevokeToken
<1>12. ASSUME NEW r \in Reqs, BurnRevoke(r) PROVE TypeOK'
  <2>1. req[r].family \in Families /\ req[r].ids \subseteq Tokens
    BY <1>12, RequestFields DEF BurnRevoke, TypeOK
  <2>2. [pc |-> "consume", family |-> req[r].family,
         locks |-> {t \in req[r].ids : Revocable(t)}] \in Request
    BY <2>1 DEF Request
  <2> QED BY <1>3, <1>12, <2>2, GotoType DEF BurnRevoke
<1>13. ASSUME NEW r \in Reqs, BurnConsume(r) PROVE TypeOK'
  <2>1. req[r].family \in Families /\ req[r].locks \subseteq Tokens
    BY <1>13, RequestFields DEF BurnConsume, TypeOK
  <2>2. FamilyRows(req[r].family) \subseteq Tokens
    BY DEF FamilyRows, InFamily, TypeOK
  <2>3. [pc |-> "commit", family |-> req[r].family, locks |-> req[r].locks,
         rows |-> FamilyRows(req[r].family)] \in Request
    BY <2>1, <2>2 DEF Request
  <2> QED BY <1>3, <1>13, <2>3, GotoType DEF BurnConsume
<1>14. ASSUME NEW r \in Reqs, BurnCommit(r) PROVE TypeOK'
  <2>1. req' \in [Reqs -> Request] /\ req[r].family \in Families
    BY <1>14, FinishType, RequestFields DEF BurnCommit, TypeOK
  <2>2. /\ creds' \in [DOMAIN creds' -> Credential] /\ DOMAIN creds' = DOMAIN creds
        /\ refresh' \in [DOMAIN refresh' -> RefreshRow] /\ DOMAIN refresh' = DOMAIN refresh
        /\ \A t \in DOMAIN refresh : refresh'[t].family = refresh[t].family
    <3>1. creds' = Revoked(req[r].locks) /\ refresh' = Consumed(req[r].rows)
      BY <1>14 DEF BurnCommit
    <3>2. creds' \in [DOMAIN creds -> Credential]
      BY <3>1, RevokedType
    <3>3. /\ refresh' \in [DOMAIN refresh -> RefreshRow]
          /\ \A t \in DOMAIN refresh : refresh'[t].family = refresh[t].family
      <4> DEFINE S == req[r].rows
      <4>1. refresh' = Consumed(S)
        BY <3>1
      <4> HIDE DEF S
      <4>2. /\ Consumed(S) \in [DOMAIN refresh -> RefreshRow]
            /\ \A t \in DOMAIN refresh : Consumed(S)[t].family = refresh[t].family
        BY ConsumedType
      <4> QED BY <4>1, <4>2
    <3> QED BY <3>2, <3>3
  <2> QED BY <1>14, <2>1, <2>2 DEF BurnCommit, TypeOK, Referential, history
<1>15. ASSUME NEW r \in Reqs, Lose(r) PROVE TypeOK'
  BY <1>3, <1>15, FinishType DEF Lose
<1>16. ASSUME NEW t \in Tokens, RevokeCredential(t) PROVE TypeOK'
  <2>1. creds' \in [DOMAIN creds' -> Credential] /\ DOMAIN creds' = DOMAIN creds
    BY <1>16, RevokedType DEF RevokeCredential
  <2> QED BY <1>16, <2>1 DEF RevokeCredential, TypeOK, Referential, history
<1>17. ASSUME NEW f \in Families, NEW E \in SUBSET Entitlements, AdjustEntitlements(f, E)
       PROVE  TypeOK'
  <2> DEFINE S == LiveIn(f)
             scopes == grants[f].authorized \cup E
  <2>1. scopes \in Scopes
    BY <1>17 DEF AdjustEntitlements, TypeOK, Grant, Scopes
  <2>2. /\ grants' \in [DOMAIN grants' -> Grant] /\ DOMAIN grants' = DOMAIN grants
        /\ \A g \in DOMAIN grants : grants'[g].client = grants[g].client
    BY <1>17 DEF AdjustEntitlements, TypeOK, Grant
  <2>3. creds' \in [DOMAIN creds' -> Credential] /\ DOMAIN creds' = DOMAIN creds
    <3>1. creds' = [t \in DOMAIN creds |-> IF t \in S /\ Revocable(t)
                      THEN [creds[t] EXCEPT !.scopes = scopes] ELSE creds[t]]
      BY <1>17 DEF AdjustEntitlements
    <3> HIDE DEF S, scopes
    <3> QED BY <2>1, <3>1 DEF TypeOK, Credential
  <2>4. /\ refresh' \in [DOMAIN refresh' -> RefreshRow] /\ DOMAIN refresh' = DOMAIN refresh
        /\ \A t \in DOMAIN refresh : refresh'[t].family = refresh[t].family
    <3>1. refresh' = Refreshed(S, scopes)
      BY <1>17 DEF AdjustEntitlements
    <3> HIDE DEF S, scopes
    <3> QED BY <2>1, <3>1 DEF TypeOK, RefreshRow, Refreshed
  <2> QED BY <1>17, <2>2, <2>3, <2>4 DEF AdjustEntitlements, TypeOK, Referential, history
<1>18. ASSUME Prune PROVE TypeOK'
  <2> DEFINE stay == {c \in DOMAIN clients : ~Stale(c)}
             kept == {t \in DOMAIN creds : ~LongRevoked(t)}
             Of(rows) == {x \in DOMAIN rows : Unexpired(rows[x]) /\ rows[x].client \in stay}
             families == {f \in DOMAIN grants : grants[f].client \in stay}
             tokens == {t \in kept : t \in DOMAIN refresh /\ Unexpired(refresh[t])
                                                          /\ refresh[t].family \in families}
  <2>1. /\ clients' = Keep(clients, stay) /\ pending' = Keep(pending, Of(pending))
        /\ codes' = Keep(codes, Of(codes)) /\ grants' = Keep(grants, families)
        /\ creds' = Keep(creds, kept) /\ refresh' = Keep(refresh, tokens)
        /\ UNCHANGED <<burned, now, req, history>>
    BY <1>18 DEF Prune
  <2>2. \A n \in Of(pending) : pending[n].client \in stay
    OBVIOUS
  <2>3. \A n \in Of(codes) : codes[n].client \in stay
    OBVIOUS
  <2>4. \A f \in families : grants[f].client \in stay
    OBVIOUS
  <2>5. \A t \in tokens : refresh[t].family \in families /\ t \in kept
    OBVIOUS
  <2>6. stay \subseteq DOMAIN clients /\ kept \subseteq DOMAIN creds /\ families \subseteq DOMAIN grants
    OBVIOUS
  <2> HIDE DEF stay, kept, Of, families, tokens
  <2>7. /\ clients' \in [DOMAIN clients' -> Times] /\ DOMAIN clients' = stay
        /\ pending' \in [DOMAIN pending' -> Flow(PendingTTL)]
        /\ DOMAIN pending' = DOMAIN pending \cap Of(pending)
        /\ codes' \in [DOMAIN codes' -> Flow(CodeTTL)]
        /\ DOMAIN codes' = DOMAIN codes \cap Of(codes)
    BY <2>1, <2>6 DEF Keep, TypeOK
  <2>8. /\ grants' \in [DOMAIN grants' -> Grant] /\ DOMAIN grants' = families
        /\ creds' \in [DOMAIN creds' -> Credential] /\ DOMAIN creds' = kept
        /\ refresh' \in [DOMAIN refresh' -> RefreshRow]
        /\ DOMAIN refresh' = DOMAIN refresh \cap tokens
    BY <2>1, <2>6 DEF Keep, TypeOK
  <2>9. /\ \A n \in DOMAIN pending' : pending'[n] = pending[n]
        /\ \A n \in DOMAIN codes' : codes'[n] = codes[n]
        /\ \A f \in DOMAIN grants' : grants'[f] = grants[f]
        /\ \A t \in DOMAIN refresh' : refresh'[t] = refresh[t]
    BY <2>1 DEF Keep
  <2>10. Referential'
    BY <2>2, <2>3, <2>4, <2>5, <2>7, <2>8, <2>9 DEF Referential
  <2> QED BY <2>1, <2>6, <2>7, <2>8, <2>10 DEF TypeOK, history
<1>19. ASSUME Tick PROVE TypeOK'
  BY <1>19 DEF Tick, TypeOK, Referential, tables, history, Times
<1> QED
  BY <1>1, <1>2, <1>4, <1>5, <1>6, <1>7, <1>8, <1>9, <1>10, <1>11, <1>12, <1>13, <1>14,
     <1>15, <1>16, <1>17, <1>18, <1>19 DEF Next

(* TypeOK, which OAuthFamilies checks: the tables keep their types, and    *)
(* neither the prune job nor a race with it leaves a reference dangling.   *)
THEOREM TypeCorrect == Spec => []TypeOK
BY InitType, NextType, PTL DEF Spec

-----------------------------------------------------------------------------
(* 2. One session per approval.                                            *)

(* A row of refresh tokens belongs to the family its token was minted for, *)
(* and a family was opened by an exchange.                                 *)
RowsInFamily ==
    /\ \A t \in DOMAIN refresh : refresh[t].family = minted[t]
    /\ \A t \in DOMAIN minted : minted[t] \in DOMAIN origin

(* Of the tokens of a family, at most one can be rotated, at most one has  *)
(* a credential that was not revoked, and it is the same one.              *)
OneOfFamily ==
    \A s, t \in DOMAIN minted :
        minted[s] = minted[t] /\ s # t =>
            ~(Live(s) /\ Live(t)) /\ ~(Revocable(s) /\ Revocable(t)) /\ ~(Live(s) /\ Revocable(t))

(* A nonce is parked, or approved and a code, or approved and spent.       *)
NoncesOnce ==
    /\ DOMAIN pending \cap approved = {}
    /\ DOMAIN codes \subseteq approved
    /\ \A f \in DOMAIN origin : origin[f] \in approved \ DOMAIN codes
    /\ \A f, g \in DOMAIN origin : origin[f] = origin[g] => f = g

SessionInv == TypeOK /\ RowsInFamily /\ OneOfFamily /\ NoncesOnce

(* A step in which no token that was minted before comes back to life.     *)
Wanes ==
    \A t \in DOMAIN minted :
        /\ Live(t)' => Live(t)
        /\ Revocable(t)' => Revocable(t)
        /\ t \in DOMAIN refresh' => t \in DOMAIN refresh /\ refresh'[t].family = refresh[t].family

(* A step that mints one more token: for a family that is new, or in the   *)
(* place of a token that was live and is spent by it.                      *)
Mints(f, t) ==
    /\ t \notin DOMAIN minted /\ minted' = With(minted, t, f)
    /\ refresh'[t].family = f
    /\ \/ f \notin DOMAIN origin /\ DOMAIN origin' = DOMAIN origin \cup {f}
       \/ /\ UNCHANGED origin
          /\ \E old \in DOMAIN minted :
                minted[old] = f /\ Live(old) /\ ~Live(old)' /\ ~Revocable(old)'

(* Tables that are kept as they are, while time goes on.                   *)
LEMMA Idles ==
    ASSUME TypeOK, UNCHANGED <<refresh, creds>>, now' \in Times, now <= now'
    PROVE  Wanes
BY DEF Wanes, Live, Revocable, Unexpired, TypeOK, RefreshRow, Times

LEMMA IssueMints ==
    ASSUME TypeOK, RowsInFamily, NEW f \in Families, NEW t, NEW c, NEW scopes, NEW entitled,
           NEW spent \in SUBSET DOMAIN refresh,
           Issue(f, t, c, scopes, entitled, spent), UNCHANGED now
    PROVE  /\ Wanes
           /\ t \notin DOMAIN minted /\ minted' = With(minted, t, f)
           /\ refresh'[t].family = f
           /\ \A s \in spent : s \in DOMAIN minted /\ ~Live(s)' /\ ~Revocable(s)'
<1> DEFINE base == Consumed(spent)
           kept == Revoked(spent)
<1>1. /\ t \notin DOMAIN minted /\ minted' = With(minted, t, f)
      /\ \E pair, cred : /\ refresh' = With(base, t, pair) /\ pair.family = f
                         /\ creds' = With(kept, t, cred)
  BY DEF Issue
<1>2. /\ DOMAIN base = DOMAIN refresh /\ DOMAIN kept = DOMAIN creds
      /\ \A x \in DOMAIN refresh : /\ base[x].family = refresh[x].family
                                   /\ base[x].expires = refresh[x].expires
                                   /\ base[x].consumed = (refresh[x].consumed \/ x \in spent)
      /\ \A x \in DOMAIN creds :
            /\ kept[x].revoked = NotRevoked => creds[x].revoked = NotRevoked
            /\ x \in spent => kept[x].revoked # NotRevoked
  <2>1. /\ DOMAIN Consumed(spent) = DOMAIN refresh
        /\ \A x \in DOMAIN refresh :
              /\ Consumed(spent)[x].family = refresh[x].family
              /\ Consumed(spent)[x].expires = refresh[x].expires
              /\ Consumed(spent)[x].consumed = (refresh[x].consumed \/ x \in spent)
    BY ConsumedType
  <2>2. /\ DOMAIN Revoked(spent) = DOMAIN creds
        /\ \A x \in DOMAIN creds :
              /\ Revoked(spent)[x].revoked = NotRevoked => creds[x].revoked = NotRevoked
              /\ x \in spent => Revoked(spent)[x].revoked # NotRevoked
    BY RevokedType
  <2> QED BY <2>1, <2>2
<1> HIDE DEF base, kept
<1>3. /\ DOMAIN refresh' = DOMAIN refresh \cup {t} /\ DOMAIN creds' = DOMAIN creds \cup {t}
      /\ \A x \in DOMAIN refresh \ {t} : refresh'[x] = base[x]
      /\ \A x \in DOMAIN creds \ {t} : creds'[x] = kept[x]
      /\ refresh'[t].family = f
  BY <1>1, <1>2 DEF With
<1>4. t \notin DOMAIN refresh /\ t \notin DOMAIN creds /\ spent \subseteq DOMAIN minted
  BY <1>1 DEF TypeOK
<1>5. Wanes
  <2> SUFFICES ASSUME NEW x \in DOMAIN minted
               PROVE  /\ Live(x)' => Live(x)
                      /\ Revocable(x)' => Revocable(x)
                      /\ x \in DOMAIN refresh'
                           => x \in DOMAIN refresh /\ refresh'[x].family = refresh[x].family
    BY DEF Wanes
  <2>1. x # t
    BY <1>1
  <2> QED BY <1>2, <1>3, <1>4, <2>1 DEF Live, Revocable, Unexpired
<1>6. \A s \in spent : ~Live(s)' /\ ~Revocable(s)'
  BY <1>2, <1>3, <1>4 DEF Live, Revocable
<1> QED BY <1>1, <1>3, <1>4, <1>5, <1>6

(* Consuming some tokens and revoking some credentials brings none back.   *)
LEMMA SpendingWanes ==
    ASSUME TypeOK, UNCHANGED now, NEW S, NEW R,
           refresh' = Consumed(S), creds' = Revoked(R)
    PROVE  Wanes
<1> DEFINE base == Consumed(S)
           kept == Revoked(R)
<1>1. /\ DOMAIN base = DOMAIN refresh /\ DOMAIN kept = DOMAIN creds
      /\ \A x \in DOMAIN refresh : /\ base[x].family = refresh[x].family
                                   /\ base[x].expires = refresh[x].expires
                                   /\ base[x].consumed = (refresh[x].consumed \/ x \in S)
      /\ \A x \in DOMAIN creds : kept[x].revoked = NotRevoked => creds[x].revoked = NotRevoked
  <2>1. /\ DOMAIN Consumed(S) = DOMAIN refresh
        /\ \A x \in DOMAIN refresh :
              /\ Consumed(S)[x].family = refresh[x].family
              /\ Consumed(S)[x].expires = refresh[x].expires
              /\ Consumed(S)[x].consumed = (refresh[x].consumed \/ x \in S)
    BY ConsumedType
  <2>2. /\ DOMAIN Revoked(R) = DOMAIN creds
        /\ \A x \in DOMAIN creds :
              /\ Revoked(R)[x].revoked = NotRevoked => creds[x].revoked = NotRevoked
              /\ x \in R => Revoked(R)[x].revoked # NotRevoked
    BY RevokedType
  <2> QED BY <2>1, <2>2
<1> HIDE DEF base, kept
<1>2. refresh' = base /\ creds' = kept
  BY DEF base, kept
<1> QED BY <1>1, <1>2 DEF Wanes, Live, Revocable, Unexpired

(* Tokens come to life only by being minted, and every rotation spends the *)
(* token it replaces.                                                      *)
LEMMA Sessions ==
    ASSUME TypeOK, RowsInFamily, [Next]_vars
    PROVE  /\ Wanes
           /\ \/ UNCHANGED <<minted, origin>>
              \/ \E f \in Families, t \in Tokens : Mints(f, t)
<1> DEFINE Goal == /\ Wanes
                   /\ \/ UNCHANGED <<minted, origin>>
                      \/ \E f \in Families, t \in Tokens : Mints(f, t)
<1>0. now \in Times
  BY DEF TypeOK
<1>1. ASSUME UNCHANGED <<refresh, creds, now, minted, origin>> PROVE Goal
  BY <1>0, <1>1, Idles, Constant DEF Times
<1>2. CASE UNCHANGED vars
  BY <1>1, <1>2 DEF vars
<1>3. ASSUME NEW c \in Clients, Register(c) PROVE Goal
  BY <1>1, <1>3 DEF Register, history
<1>4. ASSUME NEW n \in Nonces, NEW ok \in BOOLEAN, Login(n, ok) PROVE Goal
  BY <1>1, <1>4 DEF Login
<1>5. ASSUME NEW r \in Reqs,
             \/ \E c \in Clients : BeginAuthorize(r, c)
             \/ \E n \in Nonces, S \in Asked : Park(r, n, S)
             \/ \E n \in Nonces : LoadCode(r, n)
             \/ \E t \in Tokens, S \in Asked : LoadRefresh(r, t, S)
             \/ \E t \in Tokens : RevokeToken(r, t)
             \/ BurnRevoke(r) \/ BurnConsume(r) \/ Lose(r)
      PROVE  Goal
  <2>1. UNCHANGED <<refresh, creds, now, minted, origin>>
    BY <1>5 DEF BeginAuthorize, Park, LoadCode, LoadRefresh, RevokeToken, BurnRevoke, BurnConsume,
                Lose, tables, history
  <2> QED BY <1>1, <2>1
<1>6. ASSUME NEW r \in Reqs, NEW f \in Families, NEW t \in Tokens, ExchangeCode(r, f, t)
      PROVE  Goal
  <2> DEFINE n == req[r].nonce
  <2>1. CASE UNCHANGED <<tables, origin, minted, late>>
    BY <1>1, <1>6, <2>1 DEF ExchangeCode, tables
  <2>2. CASE ~UNCHANGED <<tables, origin, minted, late>>
    <3>1. /\ Issue(f, t, codes[n].client, codes[n].scopes, {}, {})
          /\ f \notin DOMAIN origin /\ origin' = With(origin, f, n) /\ UNCHANGED now
      BY <1>6, <2>2 DEF ExchangeCode
    <3>2. /\ Wanes
          /\ t \notin DOMAIN minted /\ minted' = With(minted, t, f)
          /\ refresh'[t].family = f
      BY <3>1, IssueMints
    <3>3. DOMAIN origin' = DOMAIN origin \cup {f}
      BY <3>1 DEF With
    <3> QED BY <3>1, <3>2, <3>3 DEF Mints
  <2> QED BY <2>1, <2>2
<1>7. ASSUME NEW r \in Reqs, NEW t \in Tokens, ExchangeRefresh(r, t) PROVE Goal
  <2>1. CASE Consumable(req[r].token)
    <3>1. PICK old \in DOMAIN refresh : old = req[r].token
      BY <2>1 DEF Consumable
    <3>2. PICK f \in Families : f = refresh[old].family
      BY DEF TypeOK, RefreshRow
    <3>3. /\ Live(old) /\ UNCHANGED <<now, origin>>
          /\ Issue(f, t, grants[f].client, req[r].scopes, grants[f].entitled, {old})
      BY <1>7, <2>1, <3>1, <3>2 DEF ExchangeRefresh, Consumable, Live
    <3>4. minted[old] = f /\ old \in DOMAIN minted /\ {old} \in SUBSET DOMAIN refresh
      BY <3>2 DEF TypeOK, RowsInFamily
    <3>5. /\ Wanes
          /\ t \notin DOMAIN minted /\ minted' = With(minted, t, f)
          /\ refresh'[t].family = f
          /\ \A s \in {old} : s \in DOMAIN minted /\ ~Live(s)' /\ ~Revocable(s)'
      BY <3>3, <3>4, IssueMints
    <3>6. Mints(f, t)
      BY <3>3, <3>4, <3>5 DEF Mints
    <3> QED BY <3>2, <3>5, <3>6
  <2>2. CASE ~Consumable(req[r].token)
    BY <1>1, <1>7, <2>2 DEF ExchangeRefresh, tables
  <2> QED BY <2>1, <2>2
<1>8. ASSUME NEW r \in Reqs, BurnCommit(r) PROVE Goal
  <2>1. /\ creds' = Revoked(req[r].locks) /\ refresh' = Consumed(req[r].rows)
        /\ UNCHANGED <<now, minted, origin>>
    BY <1>8 DEF BurnCommit, history
  <2> QED BY <2>1, SpendingWanes
<1>9. ASSUME NEW t \in Tokens, RevokeCredential(t) PROVE Goal
  <2>1. creds' = Revoked({t}) /\ UNCHANGED <<refresh, now, minted, origin>>
    BY <1>9 DEF RevokeCredential, history
  <2>2. /\ DOMAIN creds' = DOMAIN creds
        /\ \A x \in DOMAIN creds : creds'[x].revoked = NotRevoked => creds[x].revoked = NotRevoked
    BY <2>1, RevokedType
  <2> QED BY <2>1, <2>2 DEF Wanes, Live, Revocable, Unexpired
<1>10. ASSUME NEW f \in Families, NEW E \in SUBSET Entitlements, AdjustEntitlements(f, E)
       PROVE  Goal
  <2> DEFINE S == LiveIn(f)
             scopes == grants[f].authorized \cup E
  <2>1. /\ refresh' = Refreshed(S, scopes)
        /\ creds' = [t \in DOMAIN creds |-> IF t \in S /\ Revocable(t)
                       THEN [creds[t] EXCEPT !.scopes = scopes] ELSE creds[t]]
        /\ UNCHANGED <<now, minted, origin>>
    BY <1>10 DEF AdjustEntitlements, history
  <2> HIDE DEF S, scopes
  <2>2. /\ DOMAIN refresh' = DOMAIN refresh
        /\ \A x \in DOMAIN refresh : /\ refresh'[x].family = refresh[x].family
                                     /\ refresh'[x].expires = refresh[x].expires
                                     /\ refresh'[x].consumed = refresh[x].consumed
    BY <2>1 DEF Refreshed, TypeOK, RefreshRow
  <2>3. /\ DOMAIN creds' = DOMAIN creds
        /\ \A x \in DOMAIN creds : creds'[x].revoked = creds[x].revoked
    BY <2>1 DEF TypeOK, Credential
  <2> QED BY <2>1, <2>2, <2>3 DEF Wanes, Live, Revocable, Unexpired
<1>11. ASSUME Prune PROVE Goal
  <2>1. /\ \E A : creds' = Keep(creds, A)
        /\ \E B : refresh' = Keep(refresh, B)
        /\ UNCHANGED <<now, minted, origin>>
    BY <1>11 DEF Prune, history
  <2> QED BY <2>1 DEF Wanes, Live, Revocable, Unexpired, Keep
<1>12. ASSUME Tick PROVE Goal
  <2>1. UNCHANGED <<refresh, creds, minted, origin>> /\ now' \in Times /\ now <= now'
    BY <1>0, <1>12, Constant DEF Tick, tables, history, Times
  <2> QED BY <2>1, Idles
<1> QED
  BY <1>2, <1>3, <1>4, <1>5, <1>6, <1>7, <1>8, <1>9, <1>10, <1>11, <1>12 DEF Next

(* RowsInFamily and OneOfFamily only need what Sessions says of a step.    *)
LEMMA FamilyStep ==
    ASSUME TypeOK, TypeOK', RowsInFamily, OneOfFamily, Wanes,
           \/ UNCHANGED <<minted, origin>>
           \/ \E f \in Families, t \in Tokens : Mints(f, t)
    PROVE  RowsInFamily' /\ OneOfFamily'
<1>1. /\ \A x \in DOMAIN refresh' \cap DOMAIN minted : refresh'[x].family = minted[x]
      /\ DOMAIN refresh' \subseteq DOMAIN minted'
  BY DEF TypeOK, RowsInFamily, Wanes
<1>2. ASSUME NEW x \in DOMAIN minted, NEW y \in DOMAIN minted, minted[x] = minted[y], x # y
      PROVE  /\ ~(Live(x)' /\ Live(y)') /\ ~(Revocable(x)' /\ Revocable(y)')
             /\ ~(Live(x)' /\ Revocable(y)')
  BY <1>2 DEF OneOfFamily, Wanes
<1>3. CASE UNCHANGED <<minted, origin>>
  <2>1. RowsInFamily'
    BY <1>1, <1>3 DEF RowsInFamily
  <2>2. OneOfFamily'
    BY <1>2, <1>3 DEF OneOfFamily
  <2> QED BY <2>1, <2>2
<1>4. ASSUME NEW f \in Families, NEW t \in Tokens, Mints(f, t) PROVE RowsInFamily' /\ OneOfFamily'
  <2>1. /\ t \notin DOMAIN minted /\ DOMAIN minted' = DOMAIN minted \cup {t} /\ minted'[t] = f
        /\ \A x \in DOMAIN minted : minted'[x] = minted[x]
    BY <1>4 DEF Mints, With
  <2>2. f \in DOMAIN origin' /\ DOMAIN origin \subseteq DOMAIN origin'
    BY <1>4 DEF Mints, RowsInFamily
  <2>3. RowsInFamily'
    BY <1>1, <1>4, <2>1, <2>2 DEF RowsInFamily, Mints
  <2>4. ASSUME NEW x \in DOMAIN minted, minted[x] = f
        PROVE  ~Live(x)' /\ ~Revocable(x)'
    <3>1. PICK old \in DOMAIN minted :
             minted[old] = f /\ Live(old) /\ ~Live(old)' /\ ~Revocable(old)'
      BY <1>4, <2>4 DEF Mints, RowsInFamily
    <3>2. CASE x = old
      BY <3>1, <3>2
    <3>3. CASE x # old
      BY <2>4, <3>1, <3>3 DEF OneOfFamily, Wanes
    <3> QED BY <3>2, <3>3
  <2>5. OneOfFamily'
    BY <1>2, <2>1, <2>4 DEF OneOfFamily
  <2> QED BY <2>3, <2>5
<1> QED BY <1>3, <1>4

(* A nonce is parked once, approved once and redeemed once.                *)
LEMMA NonceStep ==
    ASSUME TypeOK, NoncesOnce, [Next]_vars
    PROVE  NoncesOnce'
<1>1. ASSUME UNCHANGED <<pending, codes, approved, origin>> PROVE NoncesOnce'
  BY <1>1 DEF NoncesOnce
<1>2. CASE UNCHANGED vars
  BY <1>1, <1>2 DEF vars
<1>3. ASSUME NEW c \in Clients, Register(c) PROVE NoncesOnce'
  BY <1>1, <1>3 DEF Register, history
<1>4. ASSUME NEW n \in Nonces, NEW ok \in BOOLEAN, Login(n, ok) PROVE NoncesOnce'
  BY <1>4 DEF Login, NoncesOnce, With, Without
<1>5. ASSUME NEW r \in Reqs,
             \/ \E c \in Clients : BeginAuthorize(r, c)
             \/ \E n \in Nonces : LoadCode(r, n)
             \/ \E t \in Tokens, S \in Asked : LoadRefresh(r, t, S)
             \/ \E t \in Tokens : RevokeToken(r, t)
             \/ \E t \in Tokens : ExchangeRefresh(r, t)
             \/ BurnRevoke(r) \/ BurnConsume(r) \/ BurnCommit(r) \/ Lose(r)
      PROVE  NoncesOnce'
  <2>1. UNCHANGED <<pending, codes, approved, origin>>
    BY <1>5 DEF BeginAuthorize, LoadCode, LoadRefresh, RevokeToken, ExchangeRefresh, BurnRevoke,
                BurnConsume, BurnCommit, Lose, tables, history
  <2> QED BY <1>1, <2>1
<1>6. ASSUME NEW r \in Reqs, NEW n \in Nonces, NEW S \in Asked, Park(r, n, S) PROVE NoncesOnce'
  <2>1. CASE UNCHANGED tables
    BY <1>1, <1>6, <2>1 DEF Park, tables, history
  <2>2. CASE ~UNCHANGED tables
    <3>1. /\ n \notin approved /\ UNCHANGED <<codes, approved, origin>>
          /\ DOMAIN pending' = DOMAIN pending \cup {n}
      BY <1>6, <2>2 DEF Park, With, history
    <3> QED BY <3>1 DEF NoncesOnce
  <2> QED BY <2>1, <2>2
<1>7. ASSUME NEW r \in Reqs, NEW f \in Families, NEW t \in Tokens, ExchangeCode(r, f, t)
      PROVE  NoncesOnce'
  <2>1. CASE UNCHANGED <<tables, origin, minted, late>>
    BY <1>1, <1>7, <2>1 DEF ExchangeCode, tables
  <2>2. CASE ~UNCHANGED <<tables, origin, minted, late>>
    <3>1. PICK n \in DOMAIN codes : n = req[r].nonce
      BY <1>7, <2>2 DEF ExchangeCode, Redeemable
    <3>2. /\ f \notin DOMAIN origin /\ origin' = With(origin, f, n)
          /\ codes' = Without(codes, {n}) /\ UNCHANGED <<pending, approved>>
      BY <1>7, <2>2, <3>1 DEF ExchangeCode
    <3> QED BY <3>1, <3>2 DEF NoncesOnce, With, Without
  <2> QED BY <2>1, <2>2
<1>8. ASSUME NEW t \in Tokens, RevokeCredential(t) PROVE NoncesOnce'
  BY <1>1, <1>8 DEF RevokeCredential, history
<1>9. ASSUME NEW f \in Families, NEW E \in SUBSET Entitlements, AdjustEntitlements(f, E)
      PROVE  NoncesOnce'
  BY <1>1, <1>9 DEF AdjustEntitlements, history
<1>10. ASSUME Prune PROVE NoncesOnce'
  <2>1. /\ \E A : pending' = Keep(pending, A)
        /\ \E B : codes' = Keep(codes, B)
        /\ UNCHANGED <<approved, origin>>
    BY <1>10 DEF Prune, history
  <2> QED BY <2>1 DEF NoncesOnce, Keep
<1>11. ASSUME Tick PROVE NoncesOnce'
  BY <1>1, <1>11 DEF Tick, tables, history
<1> QED
  BY <1>2, <1>3, <1>4, <1>5, <1>6, <1>7, <1>8, <1>9, <1>10, <1>11 DEF Next

LEMMA InitSession == Init => SessionInv
<1> SUFFICES ASSUME Init PROVE SessionInv
  OBVIOUS
<1>1. RowsInFamily /\ OneOfFamily /\ NoncesOnce
  BY DEF Init, RowsInFamily, OneOfFamily, NoncesOnce
<1> QED BY <1>1, InitType DEF SessionInv

LEMMA NextSession == SessionInv /\ [Next]_vars => SessionInv'
BY NextType, Sessions, FamilyStep, NonceStep DEF SessionInv

LEMMA SessionInvImplies == SessionInv => OneSessionPerApproval
BY DEF SessionInv, NoncesOnce, OneOfFamily, OneSessionPerApproval, Active

(* OneSessionPerApproval, which OAuthFamilies checks: however exchanges,   *)
(* rotations, replays and burns of a family interleave, an approval of the *)
(* operator gives at most one session, and nothing else gives one.         *)
THEOREM OneSession == Spec => []OneSessionPerApproval
BY InitSession, NextSession, SessionInvImplies, PTL DEF Spec

-----------------------------------------------------------------------------
(* 3. Scopes.                                                              *)

(* An operator entitles a family to review only where it may only read.    *)
EntitledApart ==
    \A f \in DOMAIN grants :
        Review \in grants[f].entitled
            => grants[f].authorized \cup grants[f].entitled \subseteq {Read, Review}

(* A rotation in flight asks, while its token can be rotated, for no more  *)
(* of the baseline than the family's grant has.                            *)
AskedWithin ==
    \A r \in Reqs : req[r].pc = "refresh" =>
        LET t == req[r].token
        IN /\ t \in DOMAIN minted
           /\ Live(t) => req[r].scopes \cap Baseline \subseteq grants[refresh[t].family].authorized

ScopeInv == SessionInv /\ LiveIsProjection /\ ReviewIsSeparate /\ EntitledApart /\ AskedWithin

(* What _issue does to the scopes, token by token.                         *)
LEMMA IssueRows ==
    ASSUME TypeOK, NEW f \in Families, NEW t, NEW c, NEW scopes, NEW entitled, NEW spent,
           Issue(f, t, c, scopes, entitled, spent), UNCHANGED now
    PROVE  LET granted == (scopes \cap Baseline) \cup entitled
           IN /\ DOMAIN grants' = DOMAIN grants \cup {f}
              /\ grants'[f].authorized = scopes \cap Baseline /\ grants'[f].entitled = entitled
              /\ \A g \in DOMAIN grants \ {f} : grants'[g] = grants[g]
              /\ DOMAIN refresh' = DOMAIN refresh \cup {t}
              /\ refresh'[t].family = f /\ refresh'[t].scopes = granted /\ Live(t)'
              /\ \A x \in DOMAIN refresh \ {t} : refresh'[x].scopes = refresh[x].scopes
              /\ DOMAIN creds' = DOMAIN creds \cup {t} /\ creds'[t].scopes = granted
              /\ \A x \in DOMAIN creds \ {t} : creds'[x].scopes = creds[x].scopes
<1> DEFINE base == Consumed(spent)
           kept == Revoked(spent)
           granted == (scopes \cap Baseline) \cup entitled
           grant == [client |-> c, authorized |-> scopes \cap Baseline, entitled |-> entitled]
           pair == [family |-> f, scopes |-> granted, consumed |-> FALSE,
                    expires |-> now + RefreshTTL]
           cred == [scopes |-> granted, revoked |-> NotRevoked, expires |-> now + AccessTTL]
<1>1. /\ grants' = With(grants, f, grant) /\ refresh' = With(base, t, pair)
      /\ creds' = With(kept, t, cred)
  BY DEF Issue
<1>2. /\ DOMAIN base = DOMAIN refresh
      /\ \A x \in DOMAIN refresh : base[x].scopes = refresh[x].scopes
  BY ConsumedType
<1>3. /\ DOMAIN kept = DOMAIN creds
      /\ \A x \in DOMAIN creds : kept[x].scopes = creds[x].scopes
  BY RevokedType
<1>4. /\ pair.family = f /\ pair.scopes = granted /\ ~pair.consumed /\ pair.expires > now
      /\ cred.scopes = granted
      /\ grant.authorized = scopes \cap Baseline /\ grant.entitled = entitled
  BY OAuthAssumption DEF TypeOK, Times
<1> HIDE DEF base, kept, pair, cred, grant, granted
<1>5. /\ DOMAIN grants' = DOMAIN grants \cup {f} /\ grants'[f] = grant
      /\ \A g \in DOMAIN grants \ {f} : grants'[g] = grants[g]
  BY <1>1 DEF With
<1>6. /\ DOMAIN refresh' = DOMAIN refresh \cup {t} /\ refresh'[t] = pair
      /\ \A x \in DOMAIN refresh \ {t} : refresh'[x].scopes = refresh[x].scopes
  BY <1>1, <1>2 DEF With
<1>7. /\ DOMAIN creds' = DOMAIN creds \cup {t} /\ creds'[t] = cred
      /\ \A x \in DOMAIN creds \ {t} : creds'[x].scopes = creds[x].scopes
  BY <1>1, <1>3 DEF With
<1>8. Live(t)'
  BY <1>4, <1>6 DEF Live, Unexpired
<1> QED BY <1>4, <1>5, <1>6, <1>7, <1>8 DEF granted

(* A pair minted with scopes that keep review apart keeps the scopes of    *)
(* every session right: no other token of its family is left alive.        *)
LEMMA IssueScopes ==
    ASSUME SessionInv, SessionInv', LiveIsProjection, ReviewIsSeparate, EntitledApart, AskedWithin,
           Wanes, NEW f \in Families, NEW t, NEW c, NEW scopes, NEW entitled, NEW spent,
           Issue(f, t, c, scopes, entitled, spent), UNCHANGED now,
           entitled \subseteq Entitlements,
           Review \in entitled => (scopes \cap Baseline) \cup entitled \subseteq {Read, Review},
           \A r \in Reqs : req'[r].pc = "refresh" => req'[r] = req[r]
    PROVE  LiveIsProjection' /\ ReviewIsSeparate' /\ EntitledApart' /\ AskedWithin'
<1> DEFINE granted == (scopes \cap Baseline) \cup entitled
<1>1. /\ DOMAIN grants' = DOMAIN grants \cup {f}
      /\ grants'[f].authorized = scopes \cap Baseline /\ grants'[f].entitled = entitled
      /\ \A g \in DOMAIN grants \ {f} : grants'[g] = grants[g]
      /\ DOMAIN refresh' = DOMAIN refresh \cup {t}
      /\ refresh'[t].family = f /\ refresh'[t].scopes = granted /\ Live(t)'
      /\ \A x \in DOMAIN refresh \ {t} : refresh'[x].scopes = refresh[x].scopes
      /\ DOMAIN creds' = DOMAIN creds \cup {t} /\ creds'[t].scopes = granted
      /\ \A x \in DOMAIN creds \ {t} : creds'[x].scopes = creds[x].scopes
  BY IssueRows DEF SessionInv
<1>2. t \notin DOMAIN minted /\ DOMAIN refresh \subseteq DOMAIN minted
  BY DEF Issue, SessionInv, TypeOK
<1>3. ASSUME NEW x \in DOMAIN refresh, Live(x)'
      PROVE  /\ x # t /\ Live(x) /\ refresh'[x].family = refresh[x].family
             /\ refresh[x].family # f /\ refresh[x].family \in DOMAIN grants
  <2>1. x # t /\ x \in DOMAIN minted /\ x \in DOMAIN refresh'
    BY <1>1, <1>2
  <2>2. Live(x) /\ refresh'[x].family = refresh[x].family
    BY <1>3, <2>1 DEF Wanes
  <2>3. ~(minted'[x] = minted'[t])
    BY <1>1, <1>3, <2>1 DEF SessionInv, OneOfFamily, TypeOK
  <2>4. refresh'[x].family # f
    BY <1>1, <2>1, <2>3 DEF SessionInv, RowsInFamily
  <2>5. refresh[x].family \in DOMAIN grants
    BY DEF SessionInv, TypeOK, Referential
  <2> QED BY <2>1, <2>2, <2>4, <2>5
<1> HIDE DEF granted
<1>4. LiveIsProjection'
  <2> SUFFICES ASSUME NEW x \in DOMAIN refresh', Live(x)'
               PROVE  LET g == grants'[refresh'[x].family]
                      IN /\ refresh'[x].scopes = g.authorized \cup g.entitled
                         /\ Revocable(x)' => creds'[x].scopes = refresh'[x].scopes
    BY DEF LiveIsProjection
  <2>1. CASE x = t
    BY <1>1, <2>1 DEF granted
  <2>2. CASE x # t
    <3>1. x \in DOMAIN refresh /\ x \in DOMAIN minted
      BY <1>1, <1>2, <2>2
    <3>2. /\ Live(x) /\ refresh'[x].family = refresh[x].family
          /\ grants'[refresh'[x].family] = grants[refresh[x].family]
          /\ refresh'[x].scopes = refresh[x].scopes
      BY <1>1, <1>3, <3>1
    <3>3. Revocable(x)' => Revocable(x) /\ creds'[x].scopes = creds[x].scopes
      BY <1>1, <2>2, <3>1 DEF Wanes, Revocable
    <3> QED BY <3>1, <3>2, <3>3 DEF LiveIsProjection
  <2> QED BY <2>1, <2>2
<1>5. ReviewIsSeparate'
  <2>1. Review \in granted => granted \subseteq {Read, Review}
    BY Constant DEF granted
  <2> QED BY <1>1, <2>1 DEF ReviewIsSeparate
<1>6. EntitledApart'
  BY <1>1 DEF EntitledApart
<1>7. AskedWithin'
  <2> SUFFICES ASSUME NEW r \in Reqs, req'[r].pc = "refresh"
               PROVE  (LET x == req[r].token
                       IN /\ x \in DOMAIN minted
                          /\ Live(x) => req[r].scopes \cap Baseline
                                           \subseteq grants[refresh[x].family].authorized)'
    BY DEF AskedWithin
  <2>1. req'[r] = req[r] /\ req[r].pc = "refresh"
    OBVIOUS
  <2>2. PICK x \in DOMAIN minted : x = req[r].token
    BY <2>1 DEF AskedWithin
  <2>3. x \in DOMAIN minted'
    BY DEF Issue, With
  <2>4. Live(x)' => x \in DOMAIN refresh
    BY <1>1, <1>2 DEF Live
  <2>5. Live(x)' => req[r].scopes \cap Baseline \subseteq grants'[refresh'[x].family].authorized
    BY <1>1, <1>3, <2>1, <2>2, <2>4 DEF AskedWithin
  <2> QED BY <2>1, <2>2, <2>3, <2>5 DEF Live, Unexpired
<1> QED BY <1>4, <1>5, <1>6, <1>7

(* A step that mints nothing keeps what rotations in flight may ask for,   *)
(* if it changes no grant's authorized scopes and starts no rotation.      *)
LEMMA AskedKept ==
    ASSUME SessionInv, SessionInv', AskedWithin, Wanes, UNCHANGED minted,
           \A g \in DOMAIN grants' : /\ g \in DOMAIN grants
                                      /\ grants'[g].authorized = grants[g].authorized,
           \A r \in Reqs : req'[r].pc = "refresh" => req'[r] = req[r]
    PROVE  AskedWithin'
<1> SUFFICES ASSUME NEW r \in Reqs, req'[r].pc = "refresh"
             PROVE  (LET x == req[r].token
                     IN /\ x \in DOMAIN minted
                        /\ Live(x) => req[r].scopes \cap Baseline
                                         \subseteq grants[refresh[x].family].authorized)'
  BY DEF AskedWithin
<1>1. req'[r] = req[r] /\ req[r].pc = "refresh"
  OBVIOUS
<1>2. PICK x \in DOMAIN minted : x = req[r].token
  BY <1>1 DEF AskedWithin
<1>3. Live(x)' => /\ Live(x) /\ x \in DOMAIN refresh'
                  /\ refresh'[x].family = refresh[x].family
                  /\ refresh'[x].family \in DOMAIN grants'
  BY DEF Wanes, Live, SessionInv, TypeOK, Referential
<1>4. Live(x)' => req[r].scopes \cap Baseline \subseteq grants'[refresh'[x].family].authorized
  BY <1>1, <1>2, <1>3 DEF AskedWithin
<1> QED BY <1>1, <1>2, <1>4 DEF Live, Unexpired

(* Nor does it disturb the scopes of a session, if the rows it keeps keep  *)
(* theirs.                                                                 *)
LEMMA ScopesKept ==
    ASSUME SessionInv, SessionInv', LiveIsProjection, ReviewIsSeparate, EntitledApart, Wanes,
           UNCHANGED minted,
           \A g \in DOMAIN grants' : g \in DOMAIN grants /\ grants'[g] = grants[g],
           \A x \in DOMAIN refresh' :
                x \in DOMAIN refresh /\ refresh'[x].scopes = refresh[x].scopes,
           \A x \in DOMAIN creds' : x \in DOMAIN creds /\ creds'[x].scopes = creds[x].scopes
    PROVE  LiveIsProjection' /\ ReviewIsSeparate' /\ EntitledApart'
<1>1. LiveIsProjection'
  <2> SUFFICES ASSUME NEW x \in DOMAIN refresh', Live(x)'
               PROVE  LET g == grants'[refresh'[x].family]
                      IN /\ refresh'[x].scopes = g.authorized \cup g.entitled
                         /\ Revocable(x)' => creds'[x].scopes = refresh'[x].scopes
    BY DEF LiveIsProjection
  <2>1. x \in DOMAIN refresh /\ x \in DOMAIN minted
    BY DEF SessionInv, TypeOK
  <2>2. Live(x) /\ refresh'[x].family = refresh[x].family
    BY <2>1 DEF Wanes
  <2>3. grants'[refresh'[x].family] = grants[refresh[x].family]
    BY <2>2 DEF SessionInv, TypeOK, Referential
  <2>4. Revocable(x)' => Revocable(x) /\ creds'[x].scopes = creds[x].scopes
    BY <2>1 DEF Wanes, Revocable
  <2> QED BY <2>1, <2>2, <2>3, <2>4 DEF LiveIsProjection
<1>2. ReviewIsSeparate'
  BY DEF ReviewIsSeparate
<1>3. EntitledApart'
  BY DEF EntitledApart
<1> QED BY <1>1, <1>2, <1>3

LEMMA NextScope ==
    ASSUME ScopeInv, [Next]_vars
    PROVE  ScopeInv'
<1> DEFINE Goal == LiveIsProjection' /\ ReviewIsSeparate' /\ EntitledApart' /\ AskedWithin'
<1>1. SessionInv /\ SessionInv' /\ TypeOK
  BY NextSession DEF ScopeInv, SessionInv
<1>2. Wanes
  BY <1>1, Sessions DEF SessionInv
<1>3. ASSUME UNCHANGED minted,
             \A g \in DOMAIN grants' : g \in DOMAIN grants /\ grants'[g] = grants[g],
             \A x \in DOMAIN refresh' :
                  x \in DOMAIN refresh /\ refresh'[x].scopes = refresh[x].scopes,
             \A x \in DOMAIN creds' : x \in DOMAIN creds /\ creds'[x].scopes = creds[x].scopes,
             \A r \in Reqs : req'[r].pc = "refresh" => req'[r] = req[r]
      PROVE  Goal
  BY <1>1, <1>2, <1>3, ScopesKept, AskedKept DEF ScopeInv
<1>4. ASSUME UNCHANGED <<minted, grants, refresh, creds>>,
             \A r \in Reqs : req'[r].pc = "refresh" => req'[r] = req[r]
      PROVE  Goal
  BY <1>3, <1>4
<1>5. ASSUME NEW r \in Reqs, NEW q \in Request, q.pc # "refresh", Goto(r, q)
      PROVE  \A x \in Reqs : req'[x].pc = "refresh" => req'[x] = req[x]
  BY <1>1, <1>5 DEF Goto, TypeOK
<1>6. ASSUME NEW r \in Reqs, Finish(r)
      PROVE  \A x \in Reqs : req'[x].pc = "refresh" => req'[x] = req[x]
  BY <1>5, <1>6 DEF Finish, Idle, Request
<1>7. ASSUME NEW r \in Reqs, NEW f \in Families, StartBurn(r, f)
      PROVE  \A x \in Reqs : req'[x].pc = "refresh" => req'[x] = req[x]
  BY <1>1, <1>7 DEF StartBurn, Goto, TypeOK
<1>8. ASSUME UNCHANGED vars PROVE Goal
  <2>1. UNCHANGED <<minted, grants, refresh, creds, req>>
    BY <1>8 DEF vars
  <2>2. \A r \in Reqs : req'[r] = req[r]
    BY <2>1
  <2> QED BY <1>4, <2>1, <2>2
<1>9. ASSUME NEW c \in Clients, Register(c) PROVE Goal
  BY <1>4, <1>9 DEF Register, history
<1>10. ASSUME NEW n \in Nonces, NEW ok \in BOOLEAN, Login(n, ok) PROVE Goal
  BY <1>4, <1>10 DEF Login
<1>11. ASSUME NEW r \in Reqs, NEW c \in Clients, BeginAuthorize(r, c) PROVE Goal
  <2>1. \A x \in Reqs : req'[x].pc = "refresh" => req'[x] = req[x]
    BY <1>1, <1>11 DEF BeginAuthorize, Goto, TypeOK
  <2> QED BY <1>4, <1>11, <2>1 DEF BeginAuthorize, tables, history
<1>12. ASSUME NEW r \in Reqs, NEW n \in Nonces, NEW S \in Asked, Park(r, n, S) PROVE Goal
  <2>1. UNCHANGED <<minted, grants, refresh, creds>>
    BY <1>12 DEF Park, tables, history
  <2> QED BY <1>4, <1>6, <1>12, <2>1 DEF Park
<1>13. ASSUME NEW r \in Reqs, NEW n \in Nonces, LoadCode(r, n) PROVE Goal
  <2>1. \A x \in Reqs : req'[x].pc = "refresh" => req'[x] = req[x]
    BY <1>1, <1>13 DEF LoadCode, Goto, TypeOK
  <2> QED BY <1>4, <1>13, <2>1 DEF LoadCode, tables, history
<1>14. ASSUME NEW r \in Reqs, NEW f \in Families, NEW t \in Tokens, ExchangeCode(r, f, t)
       PROVE  Goal
  <2>1. \A x \in Reqs : req'[x].pc = "refresh" => req'[x] = req[x]
    BY <1>6, <1>14 DEF ExchangeCode
  <2>2. CASE UNCHANGED <<tables, origin, minted, late>>
    BY <1>4, <2>1, <2>2 DEF tables
  <2>3. CASE ~UNCHANGED <<tables, origin, minted, late>>
    <3>1. PICK n \in DOMAIN codes : n = req[r].nonce
      BY <1>14, <2>3 DEF ExchangeCode, Redeemable
    <3>2. Issue(f, t, codes[n].client, codes[n].scopes, {}, {}) /\ UNCHANGED now
      BY <1>14, <2>3, <3>1 DEF ExchangeCode
    <3> QED BY <1>1, <1>2, <2>1, <3>2, IssueScopes DEF ScopeInv
  <2> QED BY <2>2, <2>3
<1>15. ASSUME NEW r \in Reqs, NEW t \in Tokens, NEW S \in Asked, LoadRefresh(r, t, S)
       PROVE  Goal
  <2>1. t \in DOMAIN refresh /\ refresh[t].family \in Families
    BY <1>1, <1>15 DEF LoadRefresh, TypeOK, RefreshRow
  <2>2. CASE StartBurn(r, refresh[t].family)
    BY <1>4, <1>7, <1>15, <2>1, <2>2 DEF LoadRefresh, tables, history
  <2>3. CASE ~StartBurn(r, refresh[t].family)
    <3> DEFINE asked == Requested(S, refresh[t].scopes)
               q == [pc |-> "refresh", token |-> t, scopes |-> asked]
    <3>1. /\ ~refresh[t].consumed /\ Unexpired(refresh[t]) /\ S \subseteq refresh[t].scopes
          /\ Goto(r, q) /\ UNCHANGED <<tables, now, history>>
      BY <1>15, <2>3 DEF LoadRefresh
    <3>2. t \in DOMAIN minted /\ asked \subseteq refresh[t].scopes
      BY <1>1, <2>1, <3>1 DEF TypeOK, Requested
    <3>3. asked \cap Baseline \subseteq grants[refresh[t].family].authorized
      <4>1. LET g == grants[refresh[t].family]
            IN /\ refresh[t].scopes = g.authorized \cup g.entitled
               /\ g.entitled \subseteq Entitlements
        BY <1>1, <2>1, <3>1 DEF ScopeInv, LiveIsProjection, Live, TypeOK, Referential, Grant
      <4> QED BY <3>2, <4>1, Constant
    <3>4. /\ req' = [req EXCEPT ![r] = q] /\ req \in [Reqs -> Request]
          /\ q.pc = "refresh" /\ q.token = t /\ q.scopes = asked
      BY <1>1, <3>1 DEF Goto, TypeOK
    <3> HIDE DEF q, asked
    <3>5. AskedWithin'
      BY <3>1, <3>2, <3>3, <3>4 DEF AskedWithin, ScopeInv, Live, Unexpired, tables, history
    <3>6. LiveIsProjection' /\ ReviewIsSeparate' /\ EntitledApart'
      BY <3>1 DEF ScopeInv, LiveIsProjection, ReviewIsSeparate, EntitledApart, Live, Revocable,
                  Unexpired, tables, history
    <3> QED BY <3>5, <3>6
  <2> QED BY <2>2, <2>3
<1>16. ASSUME NEW r \in Reqs, NEW t \in Tokens, ExchangeRefresh(r, t) PROVE Goal
  <2>1. CASE Consumable(req[r].token)
    <3>1. PICK old \in DOMAIN refresh : old = req[r].token
      BY <2>1 DEF Consumable
    <3>2. PICK f \in Families : f = refresh[old].family
      BY <1>1 DEF TypeOK, RefreshRow
    <3>3. /\ Live(old) /\ UNCHANGED now /\ Finish(r) /\ req[r].pc = "refresh"
          /\ Issue(f, t, grants[f].client, req[r].scopes, grants[f].entitled, {old})
      BY <1>16, <2>1, <3>1, <3>2 DEF ExchangeRefresh, Consumable, Live
    <3>4. f \in DOMAIN grants /\ grants[f].entitled \subseteq Entitlements
      BY <1>1, <3>2 DEF TypeOK, Referential, Grant
    <3>5. req[r].scopes \cap Baseline \subseteq grants[f].authorized
      BY <3>1, <3>2, <3>3 DEF ScopeInv, AskedWithin
    <3>6. Review \in grants[f].entitled
             => (req[r].scopes \cap Baseline) \cup grants[f].entitled \subseteq {Read, Review}
      BY <3>4, <3>5 DEF ScopeInv, EntitledApart
    <3>7. \A x \in Reqs : req'[x].pc = "refresh" => req'[x] = req[x]
      BY <1>6, <3>3
    <3> QED BY <1>1, <1>2, <3>3, <3>4, <3>6, <3>7, IssueScopes DEF ScopeInv
  <2>2. CASE ~Consumable(req[r].token)
    <3>1. UNCHANGED <<minted, grants, refresh, creds>>
      BY <1>16, <2>2 DEF ExchangeRefresh, tables
    <3>2. Finish(r) \/ \E f \in Families : StartBurn(r, f)
      BY <1>1, <1>16, <2>2 DEF ExchangeRefresh, TypeOK, RefreshRow
    <3> QED BY <1>4, <1>6, <1>7, <3>1, <3>2
  <2> QED BY <2>1, <2>2
<1>17. ASSUME NEW r \in Reqs, NEW t \in Tokens, RevokeToken(r, t) PROVE Goal
  <2>1. refresh[t].family \in Families
    BY <1>1, <1>17 DEF RevokeToken, TypeOK, RefreshRow
  <2> QED BY <1>4, <1>7, <1>17, <2>1 DEF RevokeToken, tables, history
<1>18. ASSUME NEW r \in Reqs, BurnRevoke(r) \/ BurnConsume(r) \/ Lose(r) PROVE Goal
  <2>1. \A x \in Reqs : req'[x].pc = "refresh" => req'[x] = req[x]
    BY <1>1, <1>18 DEF BurnRevoke, BurnConsume, Lose, Finish, Idle, Goto, TypeOK
  <2>2. UNCHANGED <<minted, grants, refresh, creds>>
    BY <1>18 DEF BurnRevoke, BurnConsume, Lose, tables, history
  <2> QED BY <1>4, <2>1, <2>2
<1>19. ASSUME NEW r \in Reqs, BurnCommit(r) PROVE Goal
  <2>1. /\ DOMAIN refresh' = DOMAIN refresh
        /\ \A x \in DOMAIN refresh : refresh'[x].scopes = refresh[x].scopes
    <3>0. PICK S : S = req[r].rows
      OBVIOUS
    <3> DEFINE base == Consumed(S)
    <3>1. /\ DOMAIN base = DOMAIN refresh
          /\ \A x \in DOMAIN refresh : base[x].scopes = refresh[x].scopes
      BY <1>1, ConsumedType
    <3>2. refresh' = base
      BY <1>19, <3>0 DEF BurnCommit
    <3> HIDE DEF base
    <3> QED BY <3>1, <3>2
  <2>2. /\ DOMAIN creds' = DOMAIN creds
        /\ \A x \in DOMAIN creds : creds'[x].scopes = creds[x].scopes
    BY <1>1, <1>19, RevokedType DEF BurnCommit
  <2>3. UNCHANGED <<minted, grants>> /\ Finish(r)
    BY <1>19 DEF BurnCommit, history
  <2> QED BY <1>3, <1>6, <2>1, <2>2, <2>3
<1>20. ASSUME NEW t \in Tokens, RevokeCredential(t) PROVE Goal
  <2>1. /\ DOMAIN creds' = DOMAIN creds
        /\ \A x \in DOMAIN creds : creds'[x].scopes = creds[x].scopes
    BY <1>1, <1>20, RevokedType DEF RevokeCredential
  <2>2. UNCHANGED <<minted, grants, refresh, req>>
    BY <1>20 DEF RevokeCredential, history
  <2> QED BY <1>3, <2>1, <2>2
<1>21. ASSUME NEW f \in Families, NEW E \in SUBSET Entitlements, AdjustEntitlements(f, E)
       PROVE  Goal
  <2> DEFINE S == LiveIn(f)
             scopes == grants[f].authorized \cup E
  <2>1. /\ f \in DOMAIN grants /\ Separated(scopes)
        /\ grants' = [grants EXCEPT ![f].entitled = E]
        /\ refresh' = Refreshed(S, scopes)
        /\ creds' = [t \in DOMAIN creds |-> IF t \in S /\ Revocable(t)
                       THEN [creds[t] EXCEPT !.scopes = scopes] ELSE creds[t]]
        /\ UNCHANGED <<now, minted, req>>
    BY <1>21 DEF AdjustEntitlements, history
  <2>2. \A x \in DOMAIN refresh : x \in S <=> refresh[x].family = f /\ Live(x)
    BY DEF LiveIn, InFamily
  <2>3. Review \in scopes => scopes \subseteq {Read, Review}
    BY <2>1 DEF Separated
  <2>4. /\ DOMAIN grants' = DOMAIN grants
        /\ grants'[f].authorized \cup grants'[f].entitled = scopes /\ grants'[f].entitled = E
        /\ \A g \in DOMAIN grants : grants'[g].authorized = grants[g].authorized
        /\ \A g \in DOMAIN grants \ {f} : grants'[g] = grants[g]
    BY <1>1, <2>1 DEF TypeOK, Grant
  <2> HIDE DEF S, scopes
  <2>5. /\ DOMAIN refresh' = DOMAIN refresh
        /\ \A x \in DOMAIN refresh : /\ refresh'[x].family = refresh[x].family
                                     /\ x \in S => refresh'[x].scopes = scopes
                                     /\ x \notin S => refresh'[x] = refresh[x]
    BY <1>1, <2>1 DEF Refreshed, TypeOK, RefreshRow
  <2>6. /\ DOMAIN creds' = DOMAIN creds
        /\ \A x \in DOMAIN creds :
              /\ creds'[x].revoked = creds[x].revoked
              /\ x \in S /\ Revocable(x) => creds'[x].scopes = scopes
              /\ x \notin S \/ ~Revocable(x) => creds'[x] = creds[x]
    BY <1>1, <2>1 DEF TypeOK, Credential
  <2>7. LiveIsProjection'
    <3> SUFFICES ASSUME NEW x \in DOMAIN refresh', Live(x)'
                 PROVE  LET g == grants'[refresh'[x].family]
                        IN /\ refresh'[x].scopes = g.authorized \cup g.entitled
                           /\ Revocable(x)' => creds'[x].scopes = refresh'[x].scopes
      BY DEF LiveIsProjection
    <3>1. x \in DOMAIN refresh /\ x \in DOMAIN minted
      BY <1>1, <2>5 DEF TypeOK
    <3>2. Live(x) /\ (Revocable(x)' => x \in DOMAIN creds /\ Revocable(x))
      BY <1>2, <3>1 DEF Wanes, Revocable
    <3>3. CASE x \in S
      BY <2>2, <2>4, <2>5, <2>6, <3>1, <3>2, <3>3
    <3>4. CASE x \notin S
      <4>1. refresh[x].family # f /\ refresh[x].family \in DOMAIN grants
        BY <1>1, <2>2, <3>1, <3>2, <3>4 DEF TypeOK, Referential
      <4>2. Revocable(x)' => creds'[x] = creds[x]
        BY <2>6, <3>2, <3>4
      <4> QED BY <2>4, <2>5, <3>1, <3>2, <3>4, <4>1, <4>2 DEF ScopeInv, LiveIsProjection
    <3> QED BY <3>3, <3>4
  <2>8. ReviewIsSeparate'
    BY <2>3, <2>6 DEF ScopeInv, ReviewIsSeparate
  <2>9. EntitledApart'
    BY <2>3, <2>4 DEF ScopeInv, EntitledApart
  <2>10. AskedWithin'
    BY <1>1, <1>2, <2>1, <2>4, AskedKept DEF ScopeInv
  <2> QED BY <2>7, <2>8, <2>9, <2>10
<1>22. ASSUME Prune PROVE Goal
  <2>1. /\ \E A : creds' = Keep(creds, A)
        /\ \E A : refresh' = Keep(refresh, A)
        /\ \E A : grants' = Keep(grants, A)
        /\ UNCHANGED <<minted, req>>
    BY <1>22 DEF Prune, history
  <2>2. /\ \A x \in DOMAIN creds' : x \in DOMAIN creds /\ creds'[x] = creds[x]
        /\ \A x \in DOMAIN refresh' : x \in DOMAIN refresh /\ refresh'[x] = refresh[x]
        /\ \A g \in DOMAIN grants' : g \in DOMAIN grants /\ grants'[g] = grants[g]
    BY <2>1 DEF Keep
  <2> QED BY <1>3, <2>1, <2>2
<1>23. ASSUME Tick PROVE Goal
  BY <1>4, <1>23 DEF Tick, tables, history
<1> HIDE DEF Goal
<1>24. Goal
  BY <1>8, <1>9, <1>10, <1>11, <1>12, <1>13, <1>14, <1>15, <1>16, <1>17, <1>18, <1>19, <1>20,
     <1>21, <1>22, <1>23 DEF Next
<1> QED BY <1>1, <1>24 DEF ScopeInv, Goal

LEMMA InitScope == Init => ScopeInv
<1> SUFFICES ASSUME Init PROVE ScopeInv
  OBVIOUS
<1>1. LiveIsProjection /\ ReviewIsSeparate /\ EntitledApart /\ AskedWithin
  BY DEF Init, LiveIsProjection, ReviewIsSeparate, EntitledApart, AskedWithin, Idle
<1> QED BY <1>1, InitSession DEF ScopeInv

(* LiveIsProjection, which OAuthFamilies checks: what a session may do is  *)
(* at every moment what its grant says, however the rotations of clients   *)
(* and the commands of the operator interleave.                            *)
THEOREM GrantDecides == Spec => []LiveIsProjection
BY InitScope, NextScope, PTL DEF Spec, ScopeInv

(* ReviewIsSeparate, which OAuthFamilies checks: the operator's command is *)
(* the only way to review, and a rotation keeps it apart from writing.     *)
THEOREM ReviewApart == Spec => []ReviewIsSeparate
BY InitScope, NextScope, PTL DEF Spec, ScopeInv

-----------------------------------------------------------------------------
(* 4. Burned families.                                                     *)

BurnPhases == {"revoke", "consume", "commit"}

(* What of its family a burn has not got hold of by now, but for tokens    *)
(* minted meanwhile, was dead already.                                     *)
Covers(r) ==
    LET q == req[r]
    IN /\ q.pc \in BurnPhases => q.family \in DOMAIN origin
       /\ q.pc = "commit" => \A t \in q.rows : t \in DOMAIN minted /\ minted[t] = q.family
       /\ \A t \in DOMAIN minted \ late :
             q.pc \in BurnPhases /\ minted[t] = q.family /\ Live(t) =>
                 /\ q.pc = "revoke" => t \in q.ids
                 /\ q.pc \in {"consume", "commit"} /\ Revocable(t) => t \in q.locks
                 /\ q.pc = "commit" => t \in q.rows

(* A credential does not outlive its refresh token, and works only while   *)
(* that token can be rotated, unless it was minted during a burn.          *)
Partners ==
    /\ \A t \in DOMAIN creds \cap DOMAIN refresh : creds[t].expires <= refresh[t].expires
    /\ \A t \in DOMAIN minted \ late : Active(t) => Live(t)

BurnInv ==
    /\ SessionInv
    /\ burned \subseteq DOMAIN origin
    /\ \A r \in Reqs : Covers(r)
    /\ Partners
    /\ SparedByOverlap

(* A token minted during a burn of its family is late, and so is one that  *)
(* replaces a late one.                                                    *)
MintsLate(f, t) ==
    /\ Mints(f, t)
    /\ late \subseteq late'
    /\ BeingBurned(f) => t \in late'
    /\ \A old \in late \cap DOMAIN minted : minted[old] = f /\ Live(old) => t \in late'

LEMMA LateMints ==
    ASSUME SessionInv, [Next]_vars
    PROVE  \/ UNCHANGED <<minted, late, origin>>
           \/ \E f \in Families, t \in Tokens : MintsLate(f, t)
<1> DEFINE Goal == \/ UNCHANGED <<minted, late, origin>>
                   \/ \E f \in Families, t \in Tokens : MintsLate(f, t)
<1>1. \/ UNCHANGED <<minted, origin>>
      \/ \E f \in Families, t \in Tokens : Mints(f, t)
  BY Sessions DEF SessionInv
<1>2. ASSUME NEW f \in Families, NEW t \in Tokens, NEW spent, t \notin DOMAIN minted,
             minted' = With(minted, t, f),
             late' = IF BeingBurned(f) \/ spent \cap late # {} THEN late \cup {t} ELSE late,
             \A old \in DOMAIN minted : minted[old] = f /\ Live(old) => old \in spent
      PROVE  Goal
  <2>1. PICK g \in Families, u \in Tokens : Mints(g, u)
    BY <1>1, <1>2 DEF With
  <2>2. u = t /\ g = f
    BY <1>2, <2>1 DEF Mints, With
  <2>3. /\ late \subseteq late'
        /\ BeingBurned(f) => t \in late'
        /\ \A old \in late \cap DOMAIN minted : minted[old] = f /\ Live(old) => t \in late'
    BY <1>2
  <2> QED BY <2>1, <2>2, <2>3 DEF MintsLate
<1>3. ASSUME UNCHANGED vars PROVE Goal
  BY <1>3 DEF vars
<1>4. ASSUME NEW r \in Reqs, NEW f \in Families, NEW t \in Tokens, ExchangeCode(r, f, t)
      PROVE  Goal
  <2>1. CASE UNCHANGED <<tables, origin, minted, late>>
    BY <2>1
  <2>2. CASE ~UNCHANGED <<tables, origin, minted, late>>
    <3>1. /\ f \notin DOMAIN origin
          /\ t \notin DOMAIN minted /\ minted' = With(minted, t, f)
          /\ late' = IF BeingBurned(f) \/ {} \cap late # {} THEN late \cup {t} ELSE late
      BY <1>4, <2>2 DEF ExchangeCode, Issue
    <3>2. \A old \in DOMAIN minted : minted[old] # f
      BY <3>1 DEF SessionInv, RowsInFamily
    <3> QED BY <1>2, <3>1, <3>2
  <2> QED BY <2>1, <2>2
<1>5. ASSUME NEW r \in Reqs, NEW t \in Tokens, ExchangeRefresh(r, t) PROVE Goal
  <2>1. CASE Consumable(req[r].token)
    <3>1. PICK old \in DOMAIN refresh : old = req[r].token
      BY <2>1 DEF Consumable
    <3>2. PICK f \in Families : f = refresh[old].family
      BY DEF SessionInv, TypeOK, RefreshRow
    <3>3. /\ Live(old) /\ t \notin DOMAIN minted /\ minted' = With(minted, t, f)
          /\ late' = IF BeingBurned(f) \/ {old} \cap late # {} THEN late \cup {t} ELSE late
      BY <1>5, <2>1, <3>1, <3>2 DEF ExchangeRefresh, Issue, Consumable, Live
    <3>4. old \in DOMAIN minted /\ minted[old] = f
      BY <3>2 DEF SessionInv, TypeOK, RowsInFamily
    <3>5. \A x \in DOMAIN minted : minted[x] = f /\ Live(x) => x \in {old}
      BY <3>3, <3>4 DEF SessionInv, OneOfFamily
    <3> QED BY <1>2, <3>3, <3>5
  <2>2. CASE ~Consumable(req[r].token)
    BY <1>5, <2>2 DEF ExchangeRefresh
  <2> QED BY <2>1, <2>2
<1>6. ASSUME \/ \E c \in Clients : Register(c)
             \/ \E n \in Nonces, ok \in BOOLEAN : Login(n, ok)
             \/ \E r \in Reqs :
                   \/ \E c \in Clients : BeginAuthorize(r, c)
                   \/ \E n \in Nonces, S \in Asked : Park(r, n, S)
                   \/ \E n \in Nonces : LoadCode(r, n)
                   \/ \E t \in Tokens, S \in Asked : LoadRefresh(r, t, S)
                   \/ \E t \in Tokens : RevokeToken(r, t)
                   \/ BurnRevoke(r) \/ BurnConsume(r) \/ BurnCommit(r) \/ Lose(r)
             \/ \E t \in Tokens : RevokeCredential(t)
             \/ \E f \in Families, S \in SUBSET Entitlements : AdjustEntitlements(f, S)
             \/ Prune
             \/ Tick
      PROVE  Goal
  BY <1>6 DEF Register, Login, BeginAuthorize, Park, LoadCode, LoadRefresh, RevokeToken, BurnRevoke,
              BurnConsume, BurnCommit, Lose, RevokeCredential, AdjustEntitlements, Prune, Tick,
              history
<1> HIDE DEF Goal
<1>7. Goal
  BY <1>3, <1>4, <1>5, <1>6 DEF Next
<1> QED BY <1>7 DEF Goal

(* A burn that does nothing now still covers what it covered.              *)
LEMMA CoversKept ==
    ASSUME SessionInv, [Next]_vars, NEW r \in Reqs, Covers(r), req'[r] = req[r]
    PROVE  Covers(r)'
<1>1. Wanes
  BY Sessions DEF SessionInv
<1>2. PICK q : q = req[r]
  OBVIOUS
<1>3. q.pc \in BurnPhases => q.family \in DOMAIN origin
  BY <1>2 DEF Covers
<1> DEFINE Grown == /\ DOMAIN origin \subseteq DOMAIN origin'
                    /\ DOMAIN minted \subseteq DOMAIN minted'
                    /\ \A x \in DOMAIN minted : minted'[x] = minted[x]
                    /\ late \subseteq late'
                    /\ q.pc \in BurnPhases =>
                         \A x \in DOMAIN minted' \ late' :
                            minted'[x] = q.family => x \in DOMAIN minted
<1>4. Grown
  <2>1. CASE UNCHANGED <<minted, late, origin>>
    BY <2>1
  <2>2. ASSUME NEW f \in Families, NEW t \in Tokens, MintsLate(f, t) PROVE Grown
    <3>1. q.pc \in BurnPhases /\ q.family = f => t \in late'
      BY <1>2, <2>2 DEF MintsLate, BeingBurned, BurnPhases
    <3>2. /\ DOMAIN minted' = DOMAIN minted \cup {t} /\ minted'[t] = f
          /\ \A x \in DOMAIN minted : minted'[x] = minted[x]
      BY <2>2 DEF MintsLate, Mints, With
    <3>3. DOMAIN origin \subseteq DOMAIN origin' /\ late \subseteq late'
      BY <2>2 DEF MintsLate, Mints
    <3> QED BY <3>1, <3>2, <3>3
  <2> QED BY <2>1, <2>2, LateMints
<1>5. \A x \in DOMAIN minted : (Live(x)' => Live(x)) /\ (Revocable(x)' => Revocable(x))
  BY <1>1 DEF Wanes
<1>6. q.pc = "commit" => \A t \in q.rows : t \in DOMAIN minted' /\ minted'[t] = q.family
  BY <1>2, <1>4 DEF Covers
<1>7. \A t \in DOMAIN minted' \ late' :
         q.pc \in BurnPhases /\ minted'[t] = q.family /\ Live(t)' =>
             /\ q.pc = "revoke" => t \in q.ids
             /\ q.pc \in {"consume", "commit"} /\ Revocable(t)' => t \in q.locks
             /\ q.pc = "commit" => t \in q.rows
  BY <1>2, <1>4, <1>5 DEF Covers
<1>8. req'[r] = q
  BY <1>2
<1> QED BY <1>3, <1>4, <1>6, <1>7, <1>8 DEF Covers

(* A request that moves is no burn, or begins one with the rows of the     *)
(* family, or takes the next step of one.                                  *)
LEMMA BurnMoves ==
    ASSUME TypeOK, [Next]_vars, NEW r \in Reqs
    PROVE  \/ req'[r] = req[r]
           \/ req'[r].pc \notin BurnPhases
           \/ /\ UNCHANGED <<refresh, creds, now, minted, late, origin>>
              /\ \/ \E t \in DOMAIN refresh :
                      req'[r] = [pc |-> "revoke", family |-> refresh[t].family,
                                 ids |-> InFamily(refresh[t].family)]
                 \/ BurnRevoke(r)
                 \/ BurnConsume(r)
<1> DEFINE Kept == UNCHANGED <<refresh, creds, now, minted, late, origin>>
           Begun == \E t \in DOMAIN refresh :
                       req'[r] = [pc |-> "revoke", family |-> refresh[t].family,
                                  ids |-> InFamily(refresh[t].family)]
           Goal == \/ req'[r] = req[r]
                   \/ req'[r].pc \notin BurnPhases
                   \/ Kept /\ (Begun \/ BurnRevoke(r) \/ BurnConsume(r))
<1>1. ASSUME NEW x \in Reqs, NEW q, Goto(x, q), q.pc \notin BurnPhases PROVE Goal
  BY <1>1 DEF Goto, TypeOK
<1>2. ASSUME NEW x \in Reqs, Finish(x) PROVE Goal
  BY <1>1, <1>2 DEF Finish, Idle, BurnPhases
<1>3. ASSUME NEW x \in Reqs, NEW t \in DOMAIN refresh, StartBurn(x, refresh[t].family), Kept
      PROVE  Goal
  BY <1>3 DEF StartBurn, Goto, TypeOK
<1>4. ASSUME UNCHANGED req PROVE Goal
  BY <1>4
<1>5. ASSUME UNCHANGED vars PROVE Goal
  BY <1>4, <1>5 DEF vars
<1>6. ASSUME \/ \E c \in Clients : Register(c)
             \/ \E n \in Nonces, ok \in BOOLEAN : Login(n, ok)
             \/ \E t \in Tokens : RevokeCredential(t)
             \/ \E f \in Families, S \in SUBSET Entitlements : AdjustEntitlements(f, S)
             \/ Prune
             \/ Tick
      PROVE  Goal
  <2>1. UNCHANGED req
    BY <1>6 DEF Register, Login, RevokeCredential, AdjustEntitlements, Prune, Tick
  <2> QED BY <1>4, <2>1
<1>7. ASSUME NEW x \in Reqs, NEW c \in Clients, BeginAuthorize(x, c) PROVE Goal
  <2>1. Goto(x, [pc |-> "authorize", client |-> c])
    BY <1>7 DEF BeginAuthorize
  <2> QED BY <1>1, <2>1 DEF BurnPhases
<1>8. ASSUME NEW x \in Reqs, NEW n \in Nonces, LoadCode(x, n) PROVE Goal
  <2>1. Goto(x, [pc |-> "code", nonce |-> n])
    BY <1>8 DEF LoadCode
  <2> QED BY <1>1, <2>1 DEF BurnPhases
<1>9. ASSUME NEW x \in Reqs, NEW n \in Nonces, NEW S \in Asked, Park(x, n, S) PROVE Goal
  BY <1>2, <1>9 DEF Park
<1>10. ASSUME NEW x \in Reqs, NEW f \in Families, NEW t \in Tokens, ExchangeCode(x, f, t)
       PROVE  Goal
  BY <1>2, <1>10 DEF ExchangeCode
<1>11. ASSUME NEW x \in Reqs, NEW t \in Tokens, NEW S \in Asked, LoadRefresh(x, t, S) PROVE Goal
  <2>1. Kept /\ t \in DOMAIN refresh
    BY <1>11 DEF LoadRefresh, tables, history
  <2>2. \/ StartBurn(x, refresh[t].family)
        \/ Goto(x, [pc |-> "refresh", token |-> t, scopes |-> Requested(S, refresh[t].scopes)])
    BY <1>11 DEF LoadRefresh
  <2> HIDE DEF Kept, Goal
  <2> QED BY <1>1, <1>3, <2>1, <2>2 DEF BurnPhases
<1>12. ASSUME NEW x \in Reqs, NEW t \in Tokens, ExchangeRefresh(x, t) PROVE Goal
  <2>1. \/ Finish(x)
        \/ req[x].token \in DOMAIN refresh /\ StartBurn(x, refresh[req[x].token].family) /\ Kept
    BY <1>12 DEF ExchangeRefresh, tables
  <2> HIDE DEF Kept, Goal
  <2> QED BY <1>2, <1>3, <2>1
<1>13. ASSUME NEW x \in Reqs, NEW t \in Tokens, RevokeToken(x, t) PROVE Goal
  <2>1. t \in DOMAIN refresh /\ StartBurn(x, refresh[t].family) /\ Kept
    BY <1>13 DEF RevokeToken, tables, history
  <2> HIDE DEF Kept, Goal
  <2> QED BY <1>3, <2>1
<1>14. ASSUME NEW x \in Reqs, BurnRevoke(x) \/ BurnConsume(x) PROVE Goal
  <2>1. Kept
    BY <1>14 DEF BurnRevoke, BurnConsume, tables, history
  <2>2. x # r => req'[r] = req[r]
    BY <1>14 DEF BurnRevoke, BurnConsume, Goto, TypeOK
  <2> QED BY <1>14, <2>1, <2>2
<1>15. ASSUME NEW x \in Reqs, BurnCommit(x) \/ Lose(x) PROVE Goal
  BY <1>2, <1>15 DEF BurnCommit, Lose
<1> HIDE DEF Goal
<1>16. Goal
  BY <1>5, <1>6, <1>7, <1>8, <1>9, <1>10, <1>11, <1>12, <1>13, <1>14, <1>15 DEF Next
<1> QED BY <1>16 DEF Goal

(* Every burn covers its family, from the statement that lists it on.      *)
LEMMA CoversStep ==
    ASSUME SessionInv, [Next]_vars, NEW r \in Reqs, Covers(r)
    PROVE  Covers(r)'
<1>1. CASE req'[r] = req[r]
  BY <1>1, CoversKept
<1>2. CASE req'[r].pc \notin BurnPhases
  BY <1>2 DEF Covers, BurnPhases
<1>3. ASSUME UNCHANGED <<refresh, creds, now, minted, late, origin>>
      PROVE  /\ \A x \in DOMAIN minted : (Live(x)' <=> Live(x)) /\ (Revocable(x)' <=> Revocable(x))
             /\ \A x \in DOMAIN minted \ late : Live(x) => x \in InFamily(minted[x])
  BY <1>3 DEF Live, Revocable, Unexpired, InFamily, SessionInv, RowsInFamily
<1>4. ASSUME UNCHANGED <<refresh, creds, now, minted, late, origin>>, NEW t \in DOMAIN refresh,
             req'[r] = [pc |-> "revoke", family |-> refresh[t].family,
                        ids |-> InFamily(refresh[t].family)]
      PROVE  Covers(r)'
  <2>1. refresh[t].family \in DOMAIN origin
    BY DEF SessionInv, RowsInFamily, TypeOK
  <2> QED BY <1>3, <1>4, <2>1 DEF Covers
<1>5. ASSUME UNCHANGED <<refresh, creds, now, minted, late, origin>>, BurnRevoke(r)
      PROVE  Covers(r)'
  <2>1. /\ req[r].pc = "revoke"
        /\ req'[r] = [pc |-> "consume", family |-> req[r].family,
                      locks |-> {t \in req[r].ids : Revocable(t)}]
    BY <1>5 DEF BurnRevoke, Goto, SessionInv, TypeOK
  <2> QED BY <1>3, <1>5, <2>1 DEF Covers, BurnPhases
<1>6. ASSUME UNCHANGED <<refresh, creds, now, minted, late, origin>>, BurnConsume(r)
      PROVE  Covers(r)'
  <2>1. /\ req[r].pc = "consume"
        /\ req'[r] = [pc |-> "commit", family |-> req[r].family,
                      locks |-> req[r].locks, rows |-> FamilyRows(req[r].family)]
    BY <1>6 DEF BurnConsume, Goto, SessionInv, TypeOK
  <2>2. \A t \in FamilyRows(req[r].family) : t \in DOMAIN minted /\ minted[t] = req[r].family
    BY DEF FamilyRows, InFamily, SessionInv, TypeOK, RowsInFamily
  <2>3. \A t \in DOMAIN minted \ late :
           minted[t] = req[r].family /\ Live(t) => t \in FamilyRows(req[r].family)
    BY <1>3, <1>6 DEF FamilyRows, Live
  <2> QED BY <1>3, <1>6, <2>1, <2>2, <2>3 DEF Covers, BurnPhases
<1> QED BY <1>1, <1>2, <1>4, <1>5, <1>6, BurnMoves DEF SessionInv

(* A new pair lapses in the right order, and the pair it replaces is dead. *)
LEMMA IssuePartners ==
    ASSUME TypeOK, Partners, NEW f, NEW t, NEW c, NEW scopes, NEW entitled, NEW spent,
           Issue(f, t, c, scopes, entitled, spent), UNCHANGED now
    PROVE  Partners'
<1> DEFINE base == Consumed(spent)
           kept == Revoked(spent)
           pair == [family |-> f, scopes |-> (scopes \cap Baseline) \cup entitled,
                    consumed |-> FALSE, expires |-> now + RefreshTTL]
           cred == [scopes |-> (scopes \cap Baseline) \cup entitled, revoked |-> NotRevoked,
                    expires |-> now + AccessTTL]
<1>1. /\ refresh' = With(base, t, pair) /\ creds' = With(kept, t, cred)
      /\ t \notin DOMAIN minted /\ DOMAIN minted' = DOMAIN minted \cup {t} /\ late \subseteq late'
  BY DEF Issue, With
<1>2. /\ DOMAIN base = DOMAIN refresh
      /\ \A x \in DOMAIN refresh : /\ base[x].expires = refresh[x].expires
                                   /\ base[x].consumed = (refresh[x].consumed \/ x \in spent)
  BY ConsumedType
<1>3. /\ DOMAIN kept = DOMAIN creds
      /\ \A x \in DOMAIN creds :
            /\ kept[x].expires = creds[x].expires
            /\ kept[x].revoked = NotRevoked => creds[x].revoked = NotRevoked
            /\ x \in spent => kept[x].revoked # NotRevoked
  BY RevokedType
<1>4. /\ cred.expires <= pair.expires /\ ~pair.consumed /\ pair.expires > now
  BY OAuthAssumption DEF TypeOK, Times
<1> HIDE DEF base, kept, pair, cred
<1>5. /\ DOMAIN refresh' = DOMAIN refresh \cup {t} /\ refresh'[t] = pair
      /\ DOMAIN creds' = DOMAIN creds \cup {t} /\ creds'[t] = cred
      /\ \A x \in DOMAIN refresh \ {t} : refresh'[x] = base[x]
      /\ \A x \in DOMAIN creds \ {t} : creds'[x] = kept[x]
  BY <1>1, <1>2, <1>3 DEF With
<1>6. \A x \in DOMAIN creds' \cap DOMAIN refresh' : creds'[x].expires <= refresh'[x].expires
  BY <1>2, <1>3, <1>4, <1>5 DEF Partners
<1>7. ASSUME NEW x \in DOMAIN minted' \ late', Active(x)' PROVE Live(x)'
  <2>1. CASE x = t
    BY <1>4, <1>5, <2>1 DEF Live, Unexpired
  <2>2. CASE x # t
    <3>1. x \in DOMAIN minted \ late /\ Active(x) /\ x \notin spent
      BY <1>1, <1>3, <1>5, <1>7, <2>2 DEF Active, Revocable, Unexpired
    <3>2. Live(x)
      BY <3>1 DEF Partners
    <3> QED BY <1>2, <1>5, <2>2, <3>1, <3>2 DEF Live, Unexpired
  <2> QED BY <2>1, <2>2
<1> QED BY <1>6, <1>7 DEF Partners

LEMMA PartnersStep ==
    ASSUME BurnInv, [Next]_vars
    PROVE  Partners'
<1>1. TypeOK /\ SessionInv /\ Partners
  BY DEF BurnInv, SessionInv
<1>2. ASSUME UNCHANGED <<refresh, creds, minted, late>>, now <= now', now' \in Nat PROVE Partners'
  <2>1. now \in Nat
    BY <1>1 DEF TypeOK, Times
  <2>2. \A x \in DOMAIN minted \ late : Active(x)' => Active(x) /\ Live(x)
    <3>1. \A x \in DOMAIN creds : creds[x].expires \in Nat
      BY <1>1, Constant DEF TypeOK, Credential
    <3> QED BY <1>1, <1>2, <2>1, <3>1 DEF Partners, Active, Revocable, Unexpired
  <2>3. \A x \in DOMAIN minted \ late : Active(x)' => Live(x)'
    <3>1. /\ \A x \in DOMAIN creds : creds[x].expires \in Nat
          /\ \A x \in DOMAIN refresh : refresh[x].expires \in Nat
      BY <1>1, Constant DEF TypeOK, Credential, RefreshRow
    <3> QED BY <1>1, <1>2, <2>2, <3>1 DEF Partners, Active, Live, Revocable, Unexpired
  <2> QED BY <1>1, <1>2, <2>3 DEF Partners
<1>3. ASSUME UNCHANGED <<refresh, creds, minted, late, now>> PROVE Partners'
  BY <1>1, <1>2, <1>3 DEF TypeOK, Times
<1>4. ASSUME UNCHANGED vars PROVE Partners'
  BY <1>3, <1>4 DEF vars
<1>5. ASSUME \/ \E c \in Clients : Register(c)
             \/ \E n \in Nonces, ok \in BOOLEAN : Login(n, ok)
             \/ \E r \in Reqs :
                   \/ \E c \in Clients : BeginAuthorize(r, c)
                   \/ \E n \in Nonces, S \in Asked : Park(r, n, S)
                   \/ \E n \in Nonces : LoadCode(r, n)
                   \/ \E t \in Tokens, S \in Asked : LoadRefresh(r, t, S)
                   \/ \E t \in Tokens : RevokeToken(r, t)
                   \/ BurnRevoke(r) \/ BurnConsume(r) \/ Lose(r)
      PROVE  Partners'
  <2>1. UNCHANGED <<refresh, creds, minted, late, now>>
    BY <1>5 DEF Register, Login, BeginAuthorize, Park, LoadCode, LoadRefresh, RevokeToken,
                BurnRevoke, BurnConsume, Lose, tables, history
  <2> QED BY <1>3, <2>1
<1>6. ASSUME NEW r \in Reqs, NEW f \in Families, NEW t \in Tokens, ExchangeCode(r, f, t)
      PROVE  Partners'
  <2>1. CASE UNCHANGED <<tables, origin, minted, late>>
    BY <1>3, <1>6, <2>1 DEF ExchangeCode, tables
  <2>2. CASE ~UNCHANGED <<tables, origin, minted, late>>
    <3>1. PICK n : n = req[r].nonce
      OBVIOUS
    <3>2. Issue(f, t, codes[n].client, codes[n].scopes, {}, {}) /\ UNCHANGED now
      BY <1>6, <2>2, <3>1 DEF ExchangeCode
    <3> QED BY <1>1, <3>2, IssuePartners
  <2> QED BY <2>1, <2>2
<1>7. ASSUME NEW r \in Reqs, NEW t \in Tokens, ExchangeRefresh(r, t) PROVE Partners'
  <2>1. CASE Consumable(req[r].token)
    <3>1. PICK old, f : old = req[r].token /\ f = refresh[old].family
      OBVIOUS
    <3>2. /\ Issue(f, t, grants[f].client, req[r].scopes, grants[f].entitled, {old})
          /\ UNCHANGED now
      BY <1>7, <2>1, <3>1 DEF ExchangeRefresh
    <3> QED BY <1>1, <3>2, IssuePartners
  <2>2. CASE ~Consumable(req[r].token)
    BY <1>3, <1>7, <2>2 DEF ExchangeRefresh, tables
  <2> QED BY <2>1, <2>2
<1>8. ASSUME UNCHANGED <<minted, late, now>>,
             \A x \in DOMAIN refresh' :
                x \in DOMAIN refresh /\ refresh'[x].expires = refresh[x].expires,
             \A x \in DOMAIN creds' :
                x \in DOMAIN creds /\ creds'[x].expires = creds[x].expires,
             \A x \in DOMAIN minted \ late : Active(x)' /\ Active(x) /\ Live(x) => Live(x)'
      PROVE  Partners'
  <2>1. \A x \in DOMAIN minted : Active(x)' => Active(x)
    <3>1. Wanes
      BY <1>1, Sessions DEF SessionInv
    <3> QED BY <1>8, <3>1 DEF Wanes, Active, Revocable, Unexpired
  <2> QED BY <1>1, <1>8, <2>1 DEF Partners
<1>9. ASSUME NEW r \in Reqs, BurnCommit(r) PROVE Partners'
  <2>1. PICK rows, locks : rows = req[r].rows /\ locks = req[r].locks
    OBVIOUS
  <2>2. /\ req[r].pc = "commit" /\ refresh' = Consumed(rows) /\ creds' = Revoked(locks)
        /\ UNCHANGED <<minted, late, now>>
    BY <1>9, <2>1 DEF BurnCommit, history
  <2> DEFINE base == Consumed(rows)
             kept == Revoked(locks)
  <2>3. /\ DOMAIN base = DOMAIN refresh
        /\ \A x \in DOMAIN refresh : /\ base[x].expires = refresh[x].expires
                                     /\ base[x].consumed = (refresh[x].consumed \/ x \in rows)
    BY <1>1, ConsumedType
  <2>4. /\ DOMAIN kept = DOMAIN creds
        /\ \A x \in DOMAIN creds : /\ kept[x].expires = creds[x].expires
                                   /\ x \in locks => kept[x].revoked # NotRevoked
    BY <1>1, RevokedType
  <2>5. refresh' = base /\ creds' = kept
    BY <2>2
  <2> HIDE DEF base, kept
  <2>6. ASSUME NEW x \in DOMAIN minted \ late, Active(x)', Active(x), Live(x) PROVE Live(x)'
    <3>1. x \notin locks
      BY <2>4, <2>5, <2>6 DEF Active, Revocable
    <3>2. x \notin rows
      BY <2>1, <2>2, <2>6, <3>1 DEF BurnInv, Covers, BurnPhases, Active
    <3> QED BY <2>2, <2>3, <2>5, <2>6, <3>2 DEF Live, Unexpired
  <2> QED BY <1>8, <2>2, <2>3, <2>4, <2>5, <2>6
<1>10. ASSUME NEW t \in Tokens, RevokeCredential(t) PROVE Partners'
  <2>1. /\ DOMAIN creds' = DOMAIN creds
        /\ \A x \in DOMAIN creds : creds'[x].expires = creds[x].expires
    BY <1>1, <1>10, RevokedType DEF RevokeCredential
  <2>2. UNCHANGED <<refresh, minted, late, now>>
    BY <1>10 DEF RevokeCredential, history
  <2>3. \A x \in DOMAIN minted \ late : Live(x) => Live(x)'
    BY <2>2 DEF Live, Unexpired
  <2> QED BY <1>8, <2>1, <2>2, <2>3
<1>11. ASSUME NEW f \in Families, NEW E \in SUBSET Entitlements, AdjustEntitlements(f, E)
       PROVE  Partners'
  <2>1. \E S, scopes :
           /\ refresh' = Refreshed(S, scopes)
           /\ creds' = [t \in DOMAIN creds |-> IF t \in S /\ Revocable(t)
                          THEN [creds[t] EXCEPT !.scopes = scopes] ELSE creds[t]]
    BY <1>11 DEF AdjustEntitlements
  <2>2. UNCHANGED <<minted, late, now>>
    BY <1>11 DEF AdjustEntitlements, history
  <2>3. /\ DOMAIN refresh' = DOMAIN refresh
        /\ \A x \in DOMAIN refresh : /\ refresh'[x].consumed = refresh[x].consumed
                                     /\ refresh'[x].expires = refresh[x].expires
    BY <1>1, <2>1 DEF Refreshed, TypeOK, RefreshRow
  <2>4. /\ DOMAIN creds' = DOMAIN creds
        /\ \A x \in DOMAIN creds : creds'[x].expires = creds[x].expires
    BY <1>1, <2>1 DEF TypeOK, Credential
  <2>5. \A x \in DOMAIN minted \ late : Live(x) => Live(x)'
    BY <2>2, <2>3 DEF Live, Unexpired
  <2> QED BY <1>8, <2>2, <2>3, <2>4, <2>5
<1>12. ASSUME Prune PROVE Partners'
  <2> DEFINE stay == {c \in DOMAIN clients : ~Stale(c)}
             kept == {t \in DOMAIN creds : ~LongRevoked(t)}
             families == {f \in DOMAIN grants : grants[f].client \in stay}
             tokens == {t \in kept : t \in DOMAIN refresh /\ Unexpired(refresh[t])
                                        /\ refresh[t].family \in families}
  <2>1. /\ creds' = Keep(creds, kept) /\ refresh' = Keep(refresh, tokens)
        /\ UNCHANGED <<minted, late, now>>
    BY <1>12 DEF Prune, history
  <2>2. \A x \in DOMAIN refresh : Live(x) => Unexpired(refresh[x]) /\ refresh[x].family \in families
    <3>1. ASSUME NEW x \in DOMAIN refresh, Live(x) PROVE refresh[x].family \in families
      <4>1. /\ refresh[x].family \in DOMAIN grants
            /\ grants[refresh[x].family].client \in DOMAIN clients
        BY <1>1 DEF TypeOK, Referential
      <4>2. ~Stale(grants[refresh[x].family].client)
        BY <3>1 DEF Stale
      <4> QED BY <4>1, <4>2
    <3> QED BY <3>1 DEF Live
  <2> HIDE DEF families
  <2>3. \A x \in DOMAIN minted \ late : Active(x)' /\ Live(x) => Live(x)'
    BY <2>1, <2>2 DEF Keep, Live, Active, Revocable, Unexpired
  <2>4. /\ \A x \in DOMAIN refresh' :
             x \in DOMAIN refresh /\ refresh'[x].expires = refresh[x].expires
        /\ \A x \in DOMAIN creds' :
             x \in DOMAIN creds /\ creds'[x].expires = creds[x].expires
    BY <2>1 DEF Keep
  <2> QED BY <1>8, <2>1, <2>3, <2>4
<1>13. ASSUME Tick PROVE Partners'
  <2>1. UNCHANGED <<refresh, creds, minted, late>> /\ now' = now + 1 /\ now \in Nat
    BY <1>1, <1>13 DEF Tick, tables, history, TypeOK, Times
  <2> QED BY <1>2, <2>1
<1> QED BY <1>4, <1>5, <1>6, <1>7, <1>9, <1>10, <1>11, <1>12, <1>13 DEF Next

(* What a burn leaves alive of its family was minted while it ran.         *)
LEMMA SparedStep ==
    ASSUME BurnInv, SessionInv', Partners', [Next]_vars
    PROVE  SparedByOverlap' /\ burned' \subseteq DOMAIN origin'
<1>1. SessionInv /\ TypeOK /\ Wanes
  BY Sessions DEF BurnInv, SessionInv
<1>2. \/ UNCHANGED <<minted, late, origin>>
      \/ \E f \in Families, t \in Tokens : MintsLate(f, t)
  BY <1>1, LateMints
<1>3. burned' = burned \/ \E r \in Reqs : BurnCommit(r)
  BY DEF Next, vars, Register, Login, BeginAuthorize, Park, LoadCode, LoadRefresh, ExchangeCode,
         ExchangeRefresh, RevokeToken, BurnRevoke, BurnConsume, Lose, RevokeCredential,
         AdjustEntitlements, Prune, Tick, tables
<1>4. DOMAIN origin \subseteq DOMAIN origin'
  BY <1>2 DEF MintsLate, Mints
<1>5. burned' \subseteq DOMAIN origin'
  <2>1. ASSUME NEW r \in Reqs, BurnCommit(r) PROVE burned' \subseteq DOMAIN origin
    BY <2>1 DEF BurnInv, BurnCommit, Covers, BurnPhases
  <2> QED BY <1>3, <1>4, <2>1 DEF BurnInv
<1>6. SparedByOverlap'
  <2> SUFFICES ASSUME NEW t \in DOMAIN minted', minted'[t] \in burned', t \notin late', Live(t)'
               PROVE  FALSE
    BY DEF SparedByOverlap, Partners
  <2>1. CASE t \notin DOMAIN minted
    <3>1. PICK f \in Families, u \in Tokens : MintsLate(f, u)
      BY <1>2, <2>1
    <3>2. u = t /\ minted'[t] = f
      BY <2>1, <3>1 DEF MintsLate, Mints, With
    <3>3. f \in burned
      <4>1. ASSUME NEW r \in Reqs, BurnCommit(r) PROVE FALSE
        BY <2>1, <4>1 DEF BurnCommit, history
      <4> QED BY <1>3, <3>2, <4>1
    <3>4. PICK old \in DOMAIN minted : minted[old] = f /\ Live(old)
      BY <3>1, <3>3 DEF MintsLate, Mints, BurnInv
    <3>5. old \in late
      BY <3>3, <3>4 DEF BurnInv, SparedByOverlap
    <3> QED BY <3>1, <3>2, <3>4, <3>5 DEF MintsLate
  <2>2. CASE t \in DOMAIN minted
    <3>1. Live(t) /\ t \notin late /\ minted'[t] = minted[t]
      <4>1. late \subseteq late' /\ minted'[t] = minted[t]
        BY <1>2, <2>2 DEF MintsLate, Mints, With
      <4> QED BY <1>1, <2>2, <4>1 DEF Wanes
    <3>2. minted[t] \notin burned
      BY <2>2, <3>1 DEF BurnInv, SparedByOverlap
    <3>3. PICK r \in Reqs : BurnCommit(r) /\ minted[t] = req[r].family
      BY <1>3, <3>1, <3>2 DEF BurnCommit
    <3>4. t \in req[r].rows /\ t \in DOMAIN refresh
      BY <2>2, <3>1, <3>3 DEF BurnCommit, BurnInv, Covers, BurnPhases, Live
    <3>5. PICK rows : rows = req[r].rows
      OBVIOUS
    <3>6. Consumed(rows)[t].consumed
      <4>1. \A x \in DOMAIN refresh :
               Consumed(rows)[x].consumed = (refresh[x].consumed \/ x \in rows)
        BY <1>1, ConsumedType
      <4> QED BY <3>4, <3>5, <4>1
    <3>7. refresh' = Consumed(rows)
      BY <3>3, <3>5 DEF BurnCommit
    <3> QED BY <3>6, <3>7 DEF Live
  <2> QED BY <2>1, <2>2
<1> QED BY <1>5, <1>6

LEMMA InitBurn == Init => BurnInv
<1> SUFFICES ASSUME Init PROVE BurnInv
  OBVIOUS
<1>1. /\ burned \subseteq DOMAIN origin /\ Partners /\ SparedByOverlap
      /\ \A r \in Reqs : Covers(r)
  BY DEF Init, Partners, SparedByOverlap, Covers, BurnPhases, Idle
<1> QED BY <1>1, InitSession DEF BurnInv

LEMMA NextBurn == BurnInv /\ [Next]_vars => BurnInv'
<1> SUFFICES ASSUME BurnInv, [Next]_vars PROVE BurnInv'
  OBVIOUS
<1>1. SessionInv /\ SessionInv'
  BY NextSession DEF BurnInv
<1>2. \A r \in Reqs : Covers(r)'
  BY <1>1, CoversStep DEF BurnInv
<1>3. Partners'
  BY PartnersStep
<1>4. SparedByOverlap' /\ burned' \subseteq DOMAIN origin'
  BY <1>1, <1>3, SparedStep
<1> QED BY <1>1, <1>2, <1>3, <1>4 DEF BurnInv

(* SparedByOverlap, which OAuthFamilies checks: _burn_family leaves alive  *)
(* only what exchanges minted between its statements and its commit.       *)
THEOREM BurnSparesOverlaps == Spec => []SparedByOverlap
<1>1. BurnInv => SparedByOverlap
  BY DEF BurnInv
<1> QED BY <1>1, InitBurn, NextBurn, PTL DEF Spec

-----------------------------------------------------------------------------
(* 5. The prune job.                                                       *)

(* A refresh token lapses no later than its lifetime after its credential  *)
(* was revoked, and no later than that from now.                           *)
Aged ==
    \A t \in DOMAIN refresh :
        /\ refresh[t].expires <= now + RefreshTTL
        /\ t \in DOMAIN creds /\ creds[t].revoked # NotRevoked
              => refresh[t].expires <= creds[t].revoked + RefreshTTL

LEMMA IssueAged ==
    ASSUME TypeOK, Aged, NEW f, NEW t, NEW c, NEW scopes, NEW entitled, NEW spent,
           Issue(f, t, c, scopes, entitled, spent), UNCHANGED now
    PROVE  Aged'
<1> DEFINE base == Consumed(spent)
           kept == Revoked(spent)
           pair == [family |-> f, scopes |-> (scopes \cap Baseline) \cup entitled,
                    consumed |-> FALSE, expires |-> now + RefreshTTL]
           cred == [scopes |-> (scopes \cap Baseline) \cup entitled, revoked |-> NotRevoked,
                    expires |-> now + AccessTTL]
<1>1. refresh' = With(base, t, pair) /\ creds' = With(kept, t, cred)
  BY DEF Issue
<1>2. /\ DOMAIN base = DOMAIN refresh
      /\ \A x \in DOMAIN refresh : base[x].expires = refresh[x].expires
  BY ConsumedType
<1>3. /\ DOMAIN kept = DOMAIN creds
      /\ \A x \in DOMAIN creds : kept[x].revoked \in {creds[x].revoked, now}
  BY RevokedType
<1>4. pair.expires = now + RefreshTTL /\ cred.revoked = NotRevoked
  OBVIOUS
<1> HIDE DEF base, kept, pair, cred
<1>5. /\ DOMAIN refresh' = DOMAIN refresh \cup {t} /\ refresh'[t] = pair
      /\ DOMAIN creds' = DOMAIN creds \cup {t} /\ creds'[t] = cred
      /\ \A x \in DOMAIN refresh \ {t} : refresh'[x] = base[x]
      /\ \A x \in DOMAIN creds \ {t} : creds'[x] = kept[x]
  BY <1>1, <1>2, <1>3 DEF With
<1>6. now + RefreshTTL <= now + RefreshTTL
  BY Constant DEF TypeOK, Times
<1>7. ASSUME NEW x \in DOMAIN refresh \ {t}
      PROVE  /\ refresh'[x].expires <= now' + RefreshTTL
             /\ x \in DOMAIN creds' /\ creds'[x].revoked # NotRevoked
                   => refresh'[x].expires <= creds'[x].revoked + RefreshTTL
  BY <1>2, <1>3, <1>5 DEF Aged
<1> QED BY <1>4, <1>5, <1>6, <1>7 DEF Aged

LEMMA AgedStep ==
    ASSUME TypeOK, Aged, [Next]_vars
    PROVE  Aged'
<1>1. ASSUME now' \in Nat, now <= now',
             \A x \in DOMAIN refresh' :
                x \in DOMAIN refresh /\ refresh'[x].expires = refresh[x].expires,
             \A x \in DOMAIN creds' :
                x \in DOMAIN creds /\ creds'[x].revoked \in {creds[x].revoked, now}
      PROVE  Aged'
  <2>1. now \in Nat /\ RefreshTTL \in Nat
    BY Constant DEF TypeOK, Times
  <2>2. \A x \in DOMAIN refresh : refresh[x].expires \in Nat
    BY <2>1 DEF TypeOK, RefreshRow
  <2>3. \A x \in DOMAIN refresh' : refresh'[x].expires <= now' + RefreshTTL
    BY <1>1, <2>1, <2>2 DEF Aged
  <2>4. ASSUME NEW x \in DOMAIN refresh', x \in DOMAIN creds', creds'[x].revoked # NotRevoked
        PROVE  refresh'[x].expires <= creds'[x].revoked + RefreshTTL
    BY <1>1, <2>4 DEF Aged
  <2> QED BY <2>3, <2>4 DEF Aged
<1>2. now \in Nat /\ now <= now
  BY DEF TypeOK, Times
<1>3. ASSUME UNCHANGED <<refresh, creds, now>> PROVE Aged'
  BY <1>3 DEF Aged
<1>4. ASSUME UNCHANGED vars PROVE Aged'
  BY <1>3, <1>4 DEF vars
<1>5. ASSUME \/ \E c \in Clients : Register(c)
             \/ \E n \in Nonces, ok \in BOOLEAN : Login(n, ok)
             \/ \E r \in Reqs :
                   \/ \E c \in Clients : BeginAuthorize(r, c)
                   \/ \E n \in Nonces, S \in Asked : Park(r, n, S)
                   \/ \E n \in Nonces : LoadCode(r, n)
                   \/ \E t \in Tokens, S \in Asked : LoadRefresh(r, t, S)
                   \/ \E t \in Tokens : RevokeToken(r, t)
                   \/ BurnRevoke(r) \/ BurnConsume(r) \/ Lose(r)
      PROVE  Aged'
  <2>1. UNCHANGED <<refresh, creds, now>>
    BY <1>5 DEF Register, Login, BeginAuthorize, Park, LoadCode, LoadRefresh, RevokeToken,
                BurnRevoke, BurnConsume, Lose, tables
  <2> QED BY <1>3, <2>1
<1>6. ASSUME NEW r \in Reqs, NEW f \in Families, NEW t \in Tokens, ExchangeCode(r, f, t)
      PROVE  Aged'
  <2>1. CASE UNCHANGED <<tables, origin, minted, late>>
    BY <1>3, <1>6, <2>1 DEF ExchangeCode, tables
  <2>2. CASE ~UNCHANGED <<tables, origin, minted, late>>
    <3>1. PICK n : n = req[r].nonce
      OBVIOUS
    <3>2. Issue(f, t, codes[n].client, codes[n].scopes, {}, {}) /\ UNCHANGED now
      BY <1>6, <2>2, <3>1 DEF ExchangeCode
    <3> QED BY <3>2, IssueAged
  <2> QED BY <2>1, <2>2
<1>7. ASSUME NEW r \in Reqs, NEW t \in Tokens, ExchangeRefresh(r, t) PROVE Aged'
  <2>1. CASE Consumable(req[r].token)
    <3>1. PICK old, f : old = req[r].token /\ f = refresh[old].family
      OBVIOUS
    <3>2. /\ Issue(f, t, grants[f].client, req[r].scopes, grants[f].entitled, {old})
          /\ UNCHANGED now
      BY <1>7, <2>1, <3>1 DEF ExchangeRefresh
    <3> QED BY <3>2, IssueAged
  <2>2. CASE ~Consumable(req[r].token)
    BY <1>3, <1>7, <2>2 DEF ExchangeRefresh, tables
  <2> QED BY <2>1, <2>2
<1>8. ASSUME NEW r \in Reqs, BurnCommit(r) PROVE Aged'
  <2>1. PICK rows, locks : rows = req[r].rows /\ locks = req[r].locks
    OBVIOUS
  <2> DEFINE base == Consumed(rows)
             kept == Revoked(locks)
  <2>2. refresh' = base /\ creds' = kept /\ UNCHANGED now
    BY <1>8, <2>1 DEF BurnCommit
  <2>3. /\ DOMAIN base = DOMAIN refresh
        /\ \A x \in DOMAIN refresh : base[x].expires = refresh[x].expires
    BY ConsumedType
  <2>4. /\ DOMAIN kept = DOMAIN creds
        /\ \A x \in DOMAIN creds : kept[x].revoked \in {creds[x].revoked, now}
    BY RevokedType
  <2> HIDE DEF base, kept
  <2> QED BY <1>1, <1>2, <2>2, <2>3, <2>4
<1>9. ASSUME NEW t \in Tokens, RevokeCredential(t) PROVE Aged'
  <2>1. /\ DOMAIN creds' = DOMAIN creds
        /\ \A x \in DOMAIN creds : creds'[x].revoked \in {creds[x].revoked, now}
    BY <1>9, RevokedType DEF RevokeCredential
  <2>2. UNCHANGED <<refresh, now>>
    BY <1>9 DEF RevokeCredential
  <2> QED BY <1>1, <1>2, <2>1, <2>2
<1>10. ASSUME NEW f \in Families, NEW E \in SUBSET Entitlements, AdjustEntitlements(f, E)
       PROVE  Aged'
  <2>1. /\ \E S, scopes :
             /\ refresh' = Refreshed(S, scopes)
             /\ creds' = [t \in DOMAIN creds |-> IF t \in S /\ Revocable(t)
                            THEN [creds[t] EXCEPT !.scopes = scopes] ELSE creds[t]]
        /\ UNCHANGED now
    BY <1>10 DEF AdjustEntitlements
  <2>2. /\ DOMAIN refresh' = DOMAIN refresh
        /\ \A x \in DOMAIN refresh : refresh'[x].expires = refresh[x].expires
    BY <2>1 DEF Refreshed, TypeOK, RefreshRow
  <2>3. /\ DOMAIN creds' = DOMAIN creds
        /\ \A x \in DOMAIN creds : creds'[x].revoked = creds[x].revoked
    BY <2>1 DEF TypeOK, Credential
  <2> QED BY <1>1, <1>2, <2>1, <2>2, <2>3
<1>11. ASSUME Prune PROVE Aged'
  <2>1. /\ \E A : creds' = Keep(creds, A)
        /\ \E B : refresh' = Keep(refresh, B)
        /\ UNCHANGED now
    BY <1>11 DEF Prune
  <2> QED BY <1>1, <1>2, <2>1 DEF Keep
<1>12. ASSUME Tick PROVE Aged'
  <2>1. UNCHANGED <<refresh, creds>> /\ now' \in Nat /\ now <= now'
    BY <1>2, <1>12 DEF Tick, tables
  <2> QED BY <1>1, <2>1
<1> QED
  BY <1>4, <1>5, <1>6, <1>7, <1>8, <1>9, <1>10, <1>11, <1>12 DEF Next

(* One step forgets nothing that is needed.                                *)
LEMMA ForgetsStep ==
    ASSUME TypeOK, Aged, Next
    PROVE  /\ \A n \in DOMAIN codes \ DOMAIN codes' :
                Unexpired(codes[n]) => \E f \in DOMAIN origin' : origin'[f] = n
           /\ \A t \in DOMAIN refresh \ DOMAIN refresh' :
                /\ ~Live(t)
                /\ Unexpired(refresh[t]) => grants[refresh[t].family].client \notin DOMAIN clients'
<1> DEFINE Codes == \A n \in DOMAIN codes \ DOMAIN codes' :
                       Unexpired(codes[n]) => \E f \in DOMAIN origin' : origin'[f] = n
           Evidence == \A t \in DOMAIN refresh \ DOMAIN refresh' :
                /\ ~Live(t)
                /\ Unexpired(refresh[t]) => grants[refresh[t].family].client \notin DOMAIN clients'
<1>1. ASSUME DOMAIN codes \subseteq DOMAIN codes', DOMAIN refresh \subseteq DOMAIN refresh'
      PROVE  Codes /\ Evidence
  BY <1>1
<1>2. ASSUME \/ \E c \in Clients : Register(c)
             \/ \E r \in Reqs :
                   \/ \E c \in Clients : BeginAuthorize(r, c)
                   \/ \E n \in Nonces, S \in Asked : Park(r, n, S)
                   \/ \E n \in Nonces : LoadCode(r, n)
                   \/ \E t \in Tokens, S \in Asked : LoadRefresh(r, t, S)
                   \/ \E t \in Tokens : RevokeToken(r, t)
                   \/ BurnRevoke(r) \/ BurnConsume(r) \/ Lose(r)
             \/ \E t \in Tokens : RevokeCredential(t)
             \/ Tick
      PROVE  Codes /\ Evidence
  <2>1. UNCHANGED <<codes, refresh>>
    BY <1>2 DEF Register, BeginAuthorize, Park, LoadCode, LoadRefresh, RevokeToken, BurnRevoke,
                BurnConsume, Lose, RevokeCredential, Tick, tables
  <2> QED BY <1>1, <2>1
<1>3. ASSUME NEW n \in Nonces, NEW ok \in BOOLEAN, Login(n, ok) PROVE Codes /\ Evidence
  <2>1. DOMAIN codes \subseteq DOMAIN codes' /\ UNCHANGED refresh
    BY <1>3 DEF Login, With
  <2> QED BY <1>1, <2>1
<1>4. ASSUME NEW r \in Reqs, NEW f \in Families, NEW t \in Tokens, ExchangeCode(r, f, t)
      PROVE  Codes /\ Evidence
  <2>1. CASE UNCHANGED <<tables, origin, minted, late>>
    BY <1>1, <2>1 DEF tables
  <2>2. CASE ~UNCHANGED <<tables, origin, minted, late>>
    <3>1. PICK n : n = req[r].nonce
      OBVIOUS
    <3>2. /\ Issue(f, t, codes[n].client, codes[n].scopes, {}, {})
          /\ origin' = With(origin, f, n) /\ codes' = Without(codes, {n})
      BY <1>4, <2>2, <3>1 DEF ExchangeCode
    <3>3. Codes
      BY <3>2 DEF With, Without
    <3>4. DOMAIN refresh \subseteq DOMAIN refresh'
      BY <3>2 DEF Issue, With, Consumed
    <3> QED BY <3>3, <3>4
  <2> QED BY <2>1, <2>2
<1>5. ASSUME NEW r \in Reqs, NEW t \in Tokens, ExchangeRefresh(r, t) PROVE Codes /\ Evidence
  <2>1. CASE Consumable(req[r].token)
    <3>1. PICK old, f : old = req[r].token /\ f = refresh[old].family
      OBVIOUS
    <3>2. /\ Issue(f, t, grants[f].client, req[r].scopes, grants[f].entitled, {old})
          /\ UNCHANGED codes
      BY <1>5, <2>1, <3>1 DEF ExchangeRefresh
    <3>3. DOMAIN refresh \subseteq DOMAIN refresh'
      BY <3>2 DEF Issue, With, Consumed
    <3> QED BY <1>1, <3>2, <3>3
  <2>2. CASE ~Consumable(req[r].token)
    BY <1>1, <1>5, <2>2 DEF ExchangeRefresh, tables
  <2> QED BY <2>1, <2>2
<1>6. ASSUME NEW r \in Reqs, BurnCommit(r) PROVE Codes /\ Evidence
  BY <1>1, <1>6 DEF BurnCommit, Consumed
<1>7. ASSUME NEW f \in Families, NEW E \in SUBSET Entitlements, AdjustEntitlements(f, E)
      PROVE  Codes /\ Evidence
  BY <1>1, <1>7 DEF AdjustEntitlements, Refreshed
<1>8. ASSUME Prune PROVE Codes /\ Evidence
  <2> DEFINE stay == {c \in DOMAIN clients : ~Stale(c)}
             kept == {t \in DOMAIN creds : ~LongRevoked(t)}
             open == {n \in DOMAIN codes : Unexpired(codes[n]) /\ codes[n].client \in stay}
             families == {f \in DOMAIN grants : grants[f].client \in stay}
             tokens == {t \in kept : t \in DOMAIN refresh /\ Unexpired(refresh[t])
                                        /\ refresh[t].family \in families}
  <2>1. /\ clients' = Keep(clients, stay) /\ codes' = Keep(codes, open)
        /\ refresh' = Keep(refresh, tokens)
    BY <1>8 DEF Prune
  <2>2. DOMAIN clients' \subseteq stay /\ DOMAIN codes' = open
    BY <2>1 DEF Keep
  <2>3. Codes
    BY <2>2 DEF Stale, TypeOK, Referential
  <2>4. ASSUME NEW t \in DOMAIN refresh, t \in DOMAIN creds, Unexpired(refresh[t])
        PROVE  t \in kept
    <3>1. /\ refresh[t].expires \in Nat /\ now \in Nat /\ now < refresh[t].expires
          /\ RefreshTTL \in Nat /\ Retention \in Nat /\ RefreshTTL <= Retention
      BY <2>4, OAuthAssumption DEF TypeOK, RefreshRow, Times, Unexpired
    <3>2. creds[t].revoked # NotRevoked
             => creds[t].revoked \in Nat /\ refresh[t].expires <= creds[t].revoked + RefreshTTL
      BY <2>4, Constant DEF TypeOK, Credential, Times, Aged
    <3>3. ~LongRevoked(t)
      BY <3>1, <3>2 DEF LongRevoked
    <3> QED BY <2>4, <3>3
  <2>5. ASSUME NEW t \in DOMAIN refresh \ DOMAIN refresh', Unexpired(refresh[t])
        PROVE  grants[refresh[t].family].client \notin stay
    <3>1. t \in DOMAIN creds /\ refresh[t].family \in DOMAIN grants
      BY DEF TypeOK, Referential
    <3>2. t \in kept /\ t \notin tokens
      BY <2>1, <2>4, <2>5, <3>1 DEF Keep
    <3> QED BY <2>5, <3>1, <3>2
  <2>6. ASSUME NEW t \in DOMAIN refresh, Live(t)
        PROVE  grants[refresh[t].family].client \in stay
    <3>1. grants[refresh[t].family].client \in DOMAIN clients
      BY DEF TypeOK, Referential
    <3>2. ~Stale(grants[refresh[t].family].client)
      BY <2>6 DEF Stale
    <3> QED BY <3>1, <3>2
  <2>7. \A t \in DOMAIN refresh : Live(t) => Unexpired(refresh[t])
    BY DEF Live
  <2> HIDE DEF stay, kept, open, families, tokens
  <2>8. Evidence
    BY <2>2, <2>5, <2>6, <2>7
  <2> QED BY <2>3, <2>8
<1> HIDE DEF Codes, Evidence
<1>9. Codes /\ Evidence
  BY <1>2, <1>3, <1>4, <1>5, <1>6, <1>7, <1>8 DEF Next
<1> QED BY <1>9 DEF Codes, Evidence

(* NothingNeededIsForgotten, which OAuthFamilies checks: whatever happens  *)
(* while prune() decides what is stale, it deletes no code or token that   *)
(* can still be used, nor the evidence of a replay.                        *)
THEOREM NothingForgotten == Spec => NothingNeededIsForgotten
<1>1. Init => Aged
  BY DEF Init, Aged
<1>2. TypeOK /\ Aged /\ [Next]_vars => TypeOK' /\ Aged'
  BY NextType, AgedStep
<1>3. TypeOK /\ Aged /\ [Next]_vars =>
         [/\ \A n \in DOMAIN codes \ DOMAIN codes' :
               Unexpired(codes[n]) => \E f \in DOMAIN origin' : origin'[f] = n
          /\ \A t \in DOMAIN refresh \ DOMAIN refresh' :
               /\ ~Live(t)
               /\ Unexpired(refresh[t])
                    => grants[refresh[t].family].client \notin DOMAIN clients']_vars
  BY ForgetsStep
<1> QED BY <1>1, <1>2, <1>3, InitType, PTL DEF Spec, NothingNeededIsForgotten

=============================================================================
