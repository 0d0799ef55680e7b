----------------------------- MODULE VaultOAuth -----------------------------
(***************************************************************************)
(* The vault's authorization server (app/vault/oauth.py, oauth_routes.py,  *)
(* the OAuth repositories of repository.py), the commands of               *)
(* issue_vault_credential.py that touch an OAuth family, and the job of    *)
(* prune_vault_oauth.py.                                                   *)
(*                                                                         *)
(* A client registers, parks an authorization, the operator approves it, a *)
(* code is minted and exchanged for an access credential and a refresh     *)
(* token, and the refresh token is rotated for the next pair.  One token   *)
(* here is one such pair: a vault_oauth_refresh_tokens row and the         *)
(* vault_agent_credentials row it renews.  The pairs that descend from one *)
(* approval are a family, and a family is burned when its client revokes a *)
(* token or shows one that was rotated already.                            *)
(*                                                                         *)
(* A transaction is one action, except the burning of a family: it takes   *)
(* no lock on the family, so each of its statements sees what the others   *)
(* committed before it (READ COMMITTED), and is an action of its own.      *)
(*                                                                         *)
(* A definition named ...Mutant is a way the one it precedes could be      *)
(* wrong; nothing refers to it.                                            *)
(***************************************************************************)
EXTENDS Integers, FiniteSets

CONSTANTS
    Clients,        \* vault_oauth_clients.client_id
    Nonces,         \* parked authorizations, and the codes minted for them
    Families,       \* vault_oauth_grants.family_id
    Tokens,         \* refresh token and access credential, minted together
    Reqs,           \* requests in flight
    Baseline,       \* OAUTH_BASELINE_SCOPES
    Entitlements,   \* OAUTH_OPERATOR_ENTITLEMENT_SCOPES
    Read, Review,   \* the two scopes the operator command singles out
    Asked,          \* sets of scopes a client may ask for, {} when it names none
    PendingTTL, CodeTTL, AccessTTL, RefreshTTL,     \* lifetimes, in ticks
    Retention,      \* --retention-days of the prune job
    MaxTime         \* bound: the last instant explored

ASSUME OAuthAssumption ==
    /\ Baseline \cap Entitlements = {}
    /\ Read \in Baseline /\ Review \in Entitlements
    /\ Asked \subseteq SUBSET (Baseline \cup Entitlements)
    /\ {PendingTTL, CodeTTL, AccessTTL, RefreshTTL, Retention} \subseteq Nat \ {0}
    /\ AccessTTL <= RefreshTTL /\ RefreshTTL <= Retention
    /\ MaxTime \in Nat

VARIABLES
    clients,    \* registrations: client -> when it registered
    pending,    \* vault_oauth_pending_authorizations: nonce -> row
    codes,      \* vault_oauth_authorization_codes: nonce -> row
    grants,     \* vault_oauth_grants: family -> row
    refresh,    \* vault_oauth_refresh_tokens: token -> row
    creds,      \* vault_agent_credentials: token -> row
    burned,     \* families an audit event says were revoked or replayed
    now,        \* the database's clock
    req,        \* the handlers
    approved,   \* history: nonces the operator approved
    origin,     \* history: family -> the nonce it was opened for
    minted,     \* history: token -> its family
    late        \* history: tokens minted while their family was being burned,
                \* and those they were rotated into

vars == <<clients, pending, codes, grants, refresh, creds, burned, now, req,
          approved, origin, minted, late>>
tables == <<clients, pending, codes, grants, refresh, creds, burned>>
history == <<approved, origin, minted, late>>

-----------------------------------------------------------------------------
Idle == [pc |-> "idle"]
Goto(r, q) == req' = [req EXCEPT ![r] = q]
Finish(r) == Goto(r, Idle)

Without(f, S) == [x \in DOMAIN f \ S |-> f[x]]
With(f, x, y) == [z \in DOMAIN f \cup {x} |-> IF z = x THEN y ELSE f[z]]
Keep(f, S) == [x \in DOMAIN f \cap S |-> f[x]]

Unexpired(row) == row.expires > now

(* The rows a rotation or an operator may still act on.                    *)
Live(t) == t \in DOMAIN refresh /\ ~refresh[t].consumed /\ Unexpired(refresh[t])
(* VaultCredential.is_active; a credential that is not revoked has no time *)
(* of revocation.                                                          *)
NotRevoked == -1
Revocable(t) == t \in DOMAIN creds /\ creds[t].revoked = NotRevoked
Active(t) == Revocable(t) /\ Unexpired(creds[t])

(* credential_ids_in_family, and the rows of a family.                     *)
InFamily(f) == {t \in DOMAIN refresh : refresh[t].family = f}
LiveIn(f) == {t \in InFamily(f) : Live(t)}

(* The credentials a burn has updated and not committed.                   *)
Burning(r) == req[r].pc \in {"consume", "commit"}
Locked == UNION {req[r].locks : r \in {q \in Reqs : Burning(q)}}

Init ==
    /\ clients = << >> /\ pending = << >> /\ codes = << >>
    /\ grants = << >> /\ refresh = << >> /\ creds = << >>
    /\ burned = {} /\ now = 0
    /\ req = [r \in Reqs |-> Idle]
    /\ approved = {} /\ origin = << >> /\ minted = << >> /\ late = {}

-----------------------------------------------------------------------------
(* From registration to a code.                                            *)

(* register_client; a second registration leaves the first one's age.      *)
Register(c) ==
    /\ c \notin DOMAIN clients
    /\ clients' = With(clients, c, now)
    /\ UNCHANGED <<pending, codes, grants, refresh, creds, burned, now, req, history>>

(* GET /authorize, first transaction: the SDK loads the client.            *)
BeginAuthorize(r, c) ==
    /\ req[r] = Idle
    /\ c \in DOMAIN clients
    /\ Goto(r, [pc |-> "authorize", client |-> c])
    /\ UNCHANGED <<tables, now, history>>

Requested(S, default) == IF S = {} THEN default ELSE S

(* authorize, under the client lock: the registration is read again.  The  *)
(* scopes are the SDK's to check, and the baseline when there are none.    *)
StillRegisteredMutant(c) == TRUE
StillRegistered(c) == c \in DOMAIN clients
Park(r, n, S) ==
    /\ req[r].pc = "authorize"
    /\ Finish(r)
    /\ LET c == req[r].client
       IN \/ ~StillRegistered(c) /\ UNCHANGED tables
          \/ /\ StillRegistered(c)
             /\ n \notin DOMAIN pending \cup approved
             /\ S \subseteq Baseline
             /\ pending' = With(pending, n, [client |-> c, scopes |-> Requested(S, Baseline),
                                             expires |-> now + PendingTTL])
             /\ UNCHANGED <<clients, codes, grants, refresh, creds, burned>>
    /\ UNCHANGED <<now, history>>

(* login_submit and google_login_callback, from the transaction of         *)
(* _redeem_and_mint on: what they read before it is read again there.      *)
(* Whatever the verdict on the operator, the nonce is spent.               *)
Login(n, verified) ==
    /\ n \in DOMAIN pending /\ Unexpired(pending[n])
    /\ pending' = Without(pending, {n})
    /\ codes' = IF verified
                  THEN With(codes, n, [client |-> pending[n].client,
                                       scopes |-> pending[n].scopes,
                                       expires |-> now + CodeTTL])
                  ELSE codes
    /\ approved' = IF verified THEN approved \cup {n} ELSE approved
    /\ UNCHANGED <<clients, grants, refresh, creds, burned, now, req, origin, minted, late>>

-----------------------------------------------------------------------------
(* The token endpoint.                                                     *)

(* load_authorization_code: the code is not spent yet.                     *)
LoadCode(r, n) ==
    /\ req[r] = Idle
    /\ n \in DOMAIN codes /\ Unexpired(codes[n])
    /\ Goto(r, [pc |-> "code", nonce |-> n])
    /\ UNCHANGED <<tables, now, history>>

Consumed(S) == [t \in DOMAIN refresh |->
                   IF t \in S THEN [refresh[t] EXCEPT !.consumed = TRUE] ELSE refresh[t]]
Revoked(S) == [t \in DOMAIN creds |->
                  IF t \in S /\ Revocable(t) THEN [creds[t] EXCEPT !.revoked = now] ELSE creds[t]]

BeingBurned(f) ==
    \E r \in Reqs : req[r].pc \in {"revoke", "consume", "commit"} /\ req[r].family = f

(* _issue: the grant keeps the scopes consented to, the new pair holds     *)
(* these and what the operator entitled the family to, and the pair it     *)
(* replaces, if any, is spent.                                             *)
Issue(f, t, c, scopes, entitled, spent) ==
    LET authorized == scopes \cap Baseline
        granted == authorized \cup entitled
    IN /\ t \notin DOMAIN minted
       /\ grants' = With(grants, f, [client |-> c, authorized |-> authorized,
                                     entitled |-> entitled])
       /\ refresh' = With(Consumed(spent), t,
                          [family |-> f, scopes |-> granted, consumed |-> FALSE,
                           expires |-> now + RefreshTTL])
       /\ creds' = With(Revoked(spent), t,
                        [scopes |-> granted, revoked |-> NotRevoked,
                         expires |-> now + AccessTTL])
       /\ minted' = With(minted, t, f)
       /\ late' = IF BeingBurned(f) \/ spent \cap late # {} THEN late \cup {t} ELSE late

(* exchange_authorization_code: redeemed by the statement that deletes it. *)
Redeemable(n) == n \in DOMAIN codes /\ Unexpired(codes[n])
ExchangeCode(r, f, t) ==
    /\ req[r].pc = "code"
    /\ Finish(r)
    /\ LET n == req[r].nonce
       IN \/ /\ ~Redeemable(n)
             /\ UNCHANGED <<tables, origin, minted, late>>
          \/ /\ Redeemable(n)
             /\ f \notin DOMAIN origin
             /\ codes' = Without(codes, {n})
             /\ Issue(f, t, codes[n].client, codes[n].scopes, {}, {})
             /\ origin' = With(origin, f, n)
             /\ UNCHANGED <<clients, pending, burned>>
    /\ UNCHANGED <<now, approved>>

(* What credential_ids_in_family returns to a burn that starts.            *)
StartBurn(r, f) == Goto(r, [pc |-> "revoke", family |-> f, ids |-> InFamily(f)])

(* load_refresh_token: a token that was rotated already burns the family;  *)
(* an expired one is refused by the SDK, and so is a wider set of scopes.  *)
LoadRefresh(r, t, S) ==
    /\ req[r] = Idle
    /\ t \in DOMAIN refresh
    /\ \/ refresh[t].consumed /\ StartBurn(r, refresh[t].family)
       \/ /\ ~refresh[t].consumed /\ Unexpired(refresh[t])
          /\ S \subseteq refresh[t].scopes
          /\ Goto(r, [pc |-> "refresh", token |-> t,
                      scopes |-> Requested(S, refresh[t].scopes)])
    /\ UNCHANGED <<tables, now, history>>

(* exchange_refresh_token: the first to consume the token rotates it; for  *)
(* another the miss is a replay when the row says so.  The rotation waits  *)
(* for the credential while a burn holds it.                               *)
ConsumableMutant(t) == t \in DOMAIN refresh /\ Unexpired(refresh[t])
Consumable(t) == t \in DOMAIN refresh /\ ~refresh[t].consumed /\ Unexpired(refresh[t])
ExchangeRefresh(r, t) ==
    /\ req[r].pc = "refresh"
    /\ LET old == req[r].token
           f == refresh[old].family
       IN \/ /\ Consumable(old) /\ old \notin Locked
             /\ Issue(f, t, grants[f].client, req[r].scopes, grants[f].entitled, {old})
             /\ Finish(r)
             /\ UNCHANGED <<clients, pending, codes, burned, origin>>
          \/ /\ ~Consumable(old)
             /\ IF old \in DOMAIN refresh /\ refresh[old].consumed
                  THEN StartBurn(r, f)
                  ELSE Finish(r)
             /\ UNCHANGED <<tables, origin, minted, late>>
    /\ UNCHANGED <<now, approved>>

-----------------------------------------------------------------------------
(* Revocation.                                                             *)

(* revoke_token, with a refresh token or with an access token that still   *)
(* works; either names its family.                                         *)
RevokeToken(r, t) ==
    /\ req[r] = Idle
    /\ t \in DOMAIN refresh
    /\ StartBurn(r, refresh[t].family)
    /\ UNCHANGED <<tables, now, history>>

(* _burn_family: revoke what was listed, ...                               *)
BurnRevoke(r) ==
    /\ req[r].pc = "revoke"
    /\ Goto(r, [pc |-> "consume", family |-> req[r].family,
                locks |-> {t \in req[r].ids : Revocable(t)}])
    /\ UNCHANGED <<tables, now, history>>

(* ... consume what the family holds when this statement starts, ...       *)
FamilyRowsMutant(f) == {}
FamilyRows(f) == {t \in InFamily(f) : ~refresh[t].consumed}
BurnConsume(r) ==
    /\ req[r].pc = "consume"
    /\ Goto(r, [pc |-> "commit", family |-> req[r].family,
                locks |-> req[r].locks, rows |-> FamilyRows(req[r].family)])
    /\ UNCHANGED <<tables, now, history>>

(* ... and commit, after any rotation the last statement had to wait for.  *)
BurnCommit(r) ==
    /\ req[r].pc = "commit"
    /\ creds' = Revoked(req[r].locks)
    /\ refresh' = Consumed(req[r].rows)
    /\ burned' = burned \cup {req[r].family}
    /\ Finish(r)
    /\ UNCHANGED <<clients, pending, codes, grants, now, history>>

-----------------------------------------------------------------------------
(* The operator.                                                           *)

(* issue_vault_credential revoke, on the credential of a pair: its refresh *)
(* token is left as it is.                                                 *)
RevokeCredential(t) ==
    /\ Revocable(t) /\ t \notin Locked
    /\ creds' = Revoked({t})
    /\ UNCHANGED <<clients, pending, codes, grants, refresh, burned, now, req, history>>

(* grant-oauth and revoke-oauth-scope: adjust_entitlements, rolled back    *)
(* when review would be held with anything but read.                       *)
SeparatedMutant(scopes) == Review \in scopes => Read \in scopes
Separated(scopes) == Review \in scopes => scopes = {Read, Review}
RefreshedMutant(S, scopes) == refresh
Refreshed(S, scopes) == [t \in DOMAIN refresh |->
    IF t \in S THEN [refresh[t] EXCEPT !.scopes = scopes] ELSE refresh[t]]
AdjustEntitlements(f, entitled) ==
    /\ f \in DOMAIN grants
    /\ LiveIn(f) # {} /\ LiveIn(f) \cap Locked = {}
    /\ grants[f].entitled # entitled
    /\ LET scopes == grants[f].authorized \cup entitled
           S == LiveIn(f)
       IN /\ Separated(scopes)
          /\ grants' = [grants EXCEPT ![f].entitled = entitled]
          /\ creds' = [t \in DOMAIN creds |->
                         IF t \in S /\ Revocable(t) THEN [creds[t] EXCEPT !.scopes = scopes]
                                                    ELSE creds[t]]
          /\ refresh' = Refreshed(S, scopes)
    /\ UNCHANGED <<clients, pending, codes, burned, now, req, history>>

(* _stale_conditions                                                       *)
StaleMutant(c) ==
    /\ clients[c] < now - Retention
    /\ \A t \in DOMAIN refresh : Live(t) => grants[refresh[t].family].client # c
    /\ \A n \in DOMAIN pending : Unexpired(pending[n]) => pending[n].client # c
Stale(c) ==
    /\ clients[c] < now - Retention
    /\ \A t \in DOMAIN refresh : Live(t) => grants[refresh[t].family].client # c
    /\ \A n \in DOMAIN pending : Unexpired(pending[n]) => pending[n].client # c
    /\ \A n \in DOMAIN codes : Unexpired(codes[n]) => codes[n].client # c

(* _stale_oauth_credentials                                                *)
LongRevoked(t) == creds[t].revoked # NotRevoked /\ creds[t].revoked < now - Retention

(* prune: one transaction; what refers to a row it deletes goes with it,   *)
(* and it waits for the rows a burn holds.                                 *)
Prune ==
    /\ \A r \in Reqs : ~Burning(r)
    /\ LET stay == {c \in DOMAIN clients : ~Stale(c)}
           kept == {t \in DOMAIN creds : ~LongRevoked(t)}
           Of(rows) == {x \in DOMAIN rows : Unexpired(rows[x]) /\ rows[x].client \in stay}
           families == {f \in DOMAIN grants : grants[f].client \in stay}
       IN /\ clients' = Keep(clients, stay)
          /\ pending' = Keep(pending, Of(pending))
          /\ codes' = Keep(codes, Of(codes))
          /\ grants' = Keep(grants, families)
          /\ creds' = Keep(creds, kept)
          /\ refresh' = Keep(refresh, {t \in kept : t \in DOMAIN refresh
                                          /\ Unexpired(refresh[t])
                                          /\ refresh[t].family \in families})
    /\ UNCHANGED <<burned, now, req, history>>

(* A transaction is rolled back, by a failure or as a victim of a          *)
(* deadlock, or the process dies before the handler's next one.            *)
Lose(r) ==
    /\ req[r] # Idle
    /\ Finish(r)
    /\ UNCHANGED <<tables, now, history>>

Tick ==
    /\ now < MaxTime
    /\ now' = now + 1
    /\ UNCHANGED <<tables, req, history>>

Next ==
    \/ \E c \in Clients : Register(c)
    \/ \E r \in Reqs :
        \/ \E c \in Clients : BeginAuthorize(r, c)
        \/ \E n \in Nonces, S \in Asked : Park(r, n, S)
        \/ \E n \in Nonces : LoadCode(r, n)
        \/ \E f \in Families, t \in Tokens : ExchangeCode(r, f, t)
        \/ \E t \in Tokens, S \in Asked : LoadRefresh(r, t, S)
        \/ \E t \in Tokens : ExchangeRefresh(r, t) \/ RevokeToken(r, t)
        \/ BurnRevoke(r) \/ BurnConsume(r) \/ BurnCommit(r)
        \/ Lose(r)
    \/ \E n \in Nonces, ok \in BOOLEAN : Login(n, ok)
    \/ \E t \in Tokens : RevokeCredential(t)
    \/ \E f \in Families, S \in SUBSET Entitlements : AdjustEntitlements(f, S)
    \/ Prune
    \/ Tick

Spec == Init /\ [][Next]_vars

-----------------------------------------------------------------------------
(* Properties.                                                             *)

Times == 0..MaxTime
Scopes == SUBSET (Baseline \cup Entitlements)
Flow(ttl) == [client : Clients, scopes : SUBSET Baseline, expires : 0..(MaxTime + ttl)]
Grant == [client : Clients, authorized : SUBSET Baseline, entitled : SUBSET Entitlements]
RefreshRow == [family : Families, scopes : Scopes, consumed : BOOLEAN,
               expires : 0..(MaxTime + RefreshTTL)]
Credential == [scopes : Scopes, revoked : Times \cup {NotRevoked},
               expires : 0..(MaxTime + AccessTTL)]
Request ==
    {Idle}
    \cup [pc : {"authorize"}, client : Clients]
    \cup [pc : {"code"}, nonce : Nonces]
    \cup [pc : {"refresh"}, token : Tokens, scopes : Scopes]
    \cup [pc : {"revoke"}, family : Families, ids : SUBSET Tokens]
    \cup [pc : {"consume"}, family : Families, locks : SUBSET Tokens]
    \cup [pc : {"commit"}, family : Families, locks : SUBSET Tokens, rows : SUBSET Tokens]

(* The foreign keys of the schema: no row of the flow outlives its client, *)
(* no refresh token its grant or its credential.                           *)
Referential ==
    /\ \A n \in DOMAIN pending : pending[n].client \in DOMAIN clients
    /\ \A n \in DOMAIN codes : codes[n].client \in DOMAIN clients
    /\ \A f \in DOMAIN grants : grants[f].client \in DOMAIN clients
    /\ \A t \in DOMAIN refresh : refresh[t].family \in DOMAIN grants /\ t \in DOMAIN creds

(* The tables hold what the schema says, foreign keys included.            *)
TypeOK ==
    /\ clients \in [DOMAIN clients -> Times] /\ DOMAIN clients \subseteq Clients
    /\ pending \in [DOMAIN pending -> Flow(PendingTTL)] /\ DOMAIN pending \subseteq Nonces
    /\ codes \in [DOMAIN codes -> Flow(CodeTTL)] /\ DOMAIN codes \subseteq Nonces
    /\ grants \in [DOMAIN grants -> Grant] /\ DOMAIN grants \subseteq Families
    /\ refresh \in [DOMAIN refresh -> RefreshRow] /\ DOMAIN refresh \subseteq DOMAIN minted
    /\ creds \in [DOMAIN creds -> Credential] /\ DOMAIN creds \subseteq DOMAIN minted
    /\ burned \subseteq Families /\ now \in Times
    /\ req \in [Reqs -> Request]
    /\ approved \subseteq Nonces
    /\ origin \in [DOMAIN origin -> Nonces] /\ DOMAIN origin \subseteq Families
    /\ minted \in [DOMAIN minted -> Families] /\ DOMAIN minted \subseteq Tokens
    /\ late \subseteq Tokens
    /\ Referential

(* An approval of the operator opens at most one session, and nothing else *)
(* opens one: of all the tokens that descend from it, rotated by whoever   *)
(* holds them, at most one can be rotated and at most one credential works.*)
OneSessionPerApproval ==
    /\ \A f, g \in DOMAIN origin : origin[f] = origin[g] => f = g
    /\ \A f \in DOMAIN origin : origin[f] \in approved
    /\ \A s, t \in DOMAIN minted :
          minted[s] = minted[t] /\ s # t => ~(Live(s) /\ Live(t)) /\ ~(Active(s) /\ Active(t))

(* What a session may do is what its client was consented and its operator *)
(* entitled, however rotations and the operator's commands interleave.     *)
LiveIsProjection ==
    \A t \in DOMAIN refresh : Live(t) =>
        LET g == grants[refresh[t].family]
        IN /\ refresh[t].scopes = g.authorized \cup g.entitled
           /\ Revocable(t) => creds[t].scopes = refresh[t].scopes

(* A credential that may review may read, at most: no order of grants and  *)
(* narrowing rotations mixes reviewing with writing.                       *)
ReviewIsSeparate ==
    \A t \in DOMAIN creds :
        Review \in creds[t].scopes => creds[t].scopes \subseteq {Read, Review}

(* Once a family is burned, only a rotation that ran during the burn can   *)
(* have left something of it working.                                      *)
SparedByOverlap ==
    \A t \in DOMAIN minted : minted[t] \in burned /\ (Live(t) \/ Active(t)) => t \in late

(* "Revoke every credential in a rotation chain and consume its tokens."   *)
BurnedIsDead ==
    \A t \in DOMAIN minted : minted[t] \in burned => ~Live(t) /\ ~Active(t)

(* The job forgets nothing that is still needed: not a code a client may   *)
(* exchange, not a token it may rotate, not the evidence of a replay while *)
(* its client is there to show it.                                         *)
NothingNeededIsForgotten ==
    [][/\ \A n \in DOMAIN codes \ DOMAIN codes' :
            Unexpired(codes[n]) => \E f \in DOMAIN origin' : origin'[f] = n
       /\ \A t \in DOMAIN refresh \ DOMAIN refresh' :
            /\ ~Live(t)
            /\ Unexpired(refresh[t])
                 => grants[refresh[t].family].client \notin DOMAIN clients']_vars

=============================================================================
