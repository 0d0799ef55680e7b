------------------------------ MODULE Accounts ------------------------------
(***************************************************************************)
(* Accounts, identities and sessions of the leaderboard service            *)
(* (app/auth_routes.py, app/auth.py, app/auth_identities.py): guest,       *)
(* registered and Steam accounts, claiming and linking, access tokens that *)
(* are never stored, and refresh tokens that are rotated on use.           *)
(*                                                                         *)
(* Every handler is a sequence of transactions; a request record keeps     *)
(* what the handler read in the earlier ones.  User names are left out:    *)
(* a name already taken is a refusal like any other.                       *)
(*                                                                         *)
(* A definition named ...Mutant is a way the one it precedes could be      *)
(* wrong; nothing refers to it.                                            *)
(***************************************************************************)
EXTENDS Integers, FiniteSets

CONSTANTS
    Ids,         \* users.id
    Emails,      \* subjects of the native identity provider
    SteamIds,    \* subjects of the Steam identity provider
    Tokens,      \* refresh tokens
    Reqs,        \* requests in flight
    AccessTTL,   \* ACCESS_TOKEN_EXPIRE_MINUTES
    RefreshTTL,  \* REFRESH_TOKEN_EXPIRE_DAYS
    MaxTime      \* bound: the last instant explored

NoEmail == "no email"

ASSUME AccountsAssumption ==
    /\ NoEmail \notin Emails
    /\ AccessTTL \in Nat \ {0} /\ RefreshTTL \in Nat \ {0} /\ MaxTime \in Nat

VARIABLES
    time,
    accounts,    \* users: id -> row
    taken,       \* the ids the sequence has handed out
    identities,  \* auth_identities: <<provider, subject>> -> user id
    refresh,     \* refresh_tokens: token -> row
    issued,      \* every refresh token ever generated
    access,      \* access tokens in the hands of clients
    req,         \* the handlers
    delivered,   \* history: refresh tokens a client has received
    ended        \* history: the sessions a logout has ended -> the instant it did

vars == <<time, accounts, taken, identities, refresh, issued, access, req,
          delivered, ended>>

-----------------------------------------------------------------------------
Native(e) == <<"ubear", e>>
Steam(s) == <<"steam", s>>
Subjects == {Native(e) : e \in Emails} \cup {Steam(s) : s \in SteamIds}

Idle == [pc |-> "idle"]
Goto(r, q) == req' = [req EXCEPT ![r] = q]
Refuse(r) == Goto(r, Idle)

Without(f, S) == [x \in DOMAIN f \ S |-> f[x]]
With(f, x, y) == [z \in DOMAIN f \cup {x} |-> IF z = x THEN y ELSE f[z]]

(* create_access_token: the claims, the deadline and (history) the session *)
(* the token was signed for, which its payload does not name.              *)
AccessToken(u, guest, session, exp) ==
    [user |-> u, guest |-> guest, session |-> session, exp |-> exp]
Fresh(u, guest, session) == AccessToken(u, guest, session, time + AccessTTL)

(* require_user                                                            *)
Authorized(a) == a \in access /\ a.exp > time

(* The access token is signed before the refresh token is created.         *)
Issuing(u, guest) ==
    [pc |-> "issue", user |-> u, guest |-> guest, exp |-> time + AccessTTL]

-----------------------------------------------------------------------------
Init ==
    /\ time = 0
    /\ accounts = << >> /\ taken = {}
    /\ identities = << >>
    /\ refresh = << >> /\ issued = {}
    /\ access = {}
    /\ req = [r \in Reqs |-> Idle]
    /\ delivered = {} /\ ended = << >>

sessions == <<refresh, issued, access, delivered, ended>>
people == <<accounts, taken, identities>>

(* INSERT INTO users, in every handler that creates an account.            *)
NewAccount(u, guest, email) ==
    /\ u \notin taken
    /\ taken' = taken \cup {u}
    /\ accounts' = With(accounts, u, [guest |-> guest, email |-> email])

(* POST /guest, first transaction.                                         *)
GuestLogin(r, u) ==
    /\ req[r] = Idle
    /\ NewAccount(u, TRUE, NoEmail)
    /\ Goto(r, Issuing(u, TRUE))
    /\ UNCHANGED <<time, identities, sessions>>

(* POST /register: the user and its identity in one transaction, refused   *)
(* by either unique constraint.                                            *)
Register(r, u, e) ==
    /\ req[r] = Idle
    /\ Native(e) \notin DOMAIN identities
    /\ \A v \in DOMAIN accounts : accounts[v].email # e
    /\ NewAccount(u, FALSE, e)
    /\ identities' = With(identities, Native(e), u)
    /\ Goto(r, Issuing(u, FALSE))
    /\ UNCHANGED <<time, sessions>>

(* POST /login: an account with a password, that is, with an email.        *)
Login(r, u) ==
    /\ req[r] = Idle
    /\ u \in DOMAIN accounts /\ accounts[u].email # NoEmail
    /\ Goto(r, Issuing(u, accounts[u].guest))
    /\ UNCHANGED <<time, people, sessions>>

(* POST /steam/login.  find_user_by_auth_identity is one transaction ...   *)
SteamLogin(r, s) ==
    /\ req[r] = Idle
    /\ Goto(r, [pc |-> "find", steam |-> s])
    /\ UNCHANGED <<time, people, sessions>>

FindIdentity(r) ==
    /\ req[r].pc = "find"
    /\ LET i == Steam(req[r].steam)
       IN Goto(r, IF i \in DOMAIN identities
                    THEN Issuing(identities[i], accounts[identities[i]].guest)
                    ELSE [req[r] EXCEPT !.pc = "create"])
    /\ UNCHANGED <<time, people, sessions>>

(* ... and resolve_auth_identity_login creates the account in another; if  *)
(* the identity was inserted since, the user row rolls back with it and    *)
(* the winner's account is looked up.                                      *)
CreateFromIdentity(r, u) ==
    /\ req[r].pc = "create"
    /\ LET i == Steam(req[r].steam)
       IN \/ /\ i \in DOMAIN identities
             /\ Goto(r, [req[r] EXCEPT !.pc = "find"])
             /\ UNCHANGED people
          \/ /\ i \notin DOMAIN identities
             /\ NewAccount(u, FALSE, NoEmail)
             /\ identities' = With(identities, i, u)
             /\ Goto(r, Issuing(u, FALSE))
    /\ UNCHANGED <<time, sessions>>

(* POST /steam/link: attach_auth_identity_to_user in one transaction.  An  *)
(* identity owned by another account rolls the upgrade of the guest back.  *)
SteamLink(r, a, s) ==
    /\ req[r] = Idle
    /\ Authorized(a)
    /\ Goto(r, [pc |-> "attach", user |-> a.user, steam |-> s])
    /\ UNCHANGED <<time, people, sessions>>

OwnedByAnotherMutant(i, u) == FALSE
OwnedByAnother(i, u) == i \in DOMAIN identities /\ identities[i] # u
Upgraded(u) == [accounts EXCEPT ![u].guest = FALSE]

AttachIdentity(r) ==
    /\ req[r].pc = "attach"
    /\ LET u == req[r].user
           i == Steam(req[r].steam)
           conflict == OwnedByAnother(i, u)
       IN \/ /\ u \notin DOMAIN accounts \/ conflict
             /\ Refuse(r)
             /\ UNCHANGED people
          \/ /\ u \in DOMAIN accounts /\ ~conflict
             /\ accounts' = Upgraded(u)
             /\ identities' = With(identities, i, u)
             /\ Goto(r, Issuing(u, FALSE))
             /\ UNCHANGED taken
    /\ UNCHANGED <<time, sessions>>

(* POST /claim.  The token must say guest; the account is read before the  *)
(* password is hashed, and written in a later transaction whose WHERE      *)
(* clause settles the race between two claims.                             *)
Claim(r, a, e) ==
    /\ req[r] = Idle
    /\ Authorized(a) /\ a.guest
    /\ Goto(r, IF a.user \in DOMAIN accounts /\ accounts[a.user].guest
                 THEN [pc |-> "claim", user |-> a.user, email |-> e]
                 ELSE Idle)
    /\ UNCHANGED <<time, people, sessions>>

EmailFree(e) == /\ \A v \in DOMAIN accounts : accounts[v].email # e
                /\ Native(e) \notin DOMAIN identities
ClaimableMutant(u, e) == u \in DOMAIN accounts /\ EmailFree(e)
Claimable(u, e) == u \in DOMAIN accounts /\ accounts[u].guest /\ EmailFree(e)

ClaimAccount(r) ==
    /\ req[r].pc = "claim"
    /\ LET u == req[r].user
           e == req[r].email
           claimable == Claimable(u, e)
       IN \/ /\ ~claimable
             /\ Refuse(r)
             /\ UNCHANGED people
          \/ /\ claimable
             /\ accounts' = [accounts EXCEPT ![u] = [guest |-> FALSE, email |-> e]]
             /\ identities' = With(identities, Native(e), u)
             /\ Goto(r, Issuing(u, FALSE))
             /\ UNCHANGED taken
    /\ UNCHANGED <<time, sessions>>

(* create_refresh_token, a transaction of its own after the account was    *)
(* written or read; its foreign key fails if the account is gone.          *)
CreateRefreshToken(r, t) ==
    /\ req[r].pc = "issue"
    /\ LET u == req[r].user
       IN \/ /\ u \notin DOMAIN accounts
             /\ Refuse(r)
             /\ UNCHANGED <<refresh, issued>>
          \/ /\ u \in DOMAIN accounts
             /\ t \notin issued
             /\ issued' = issued \cup {t}
             /\ refresh' = With(refresh, t, [user |-> u, expires |-> time + RefreshTTL,
                                             session |-> t])
             /\ Goto(r, [pc |-> "answer", token |-> t,
                         access |-> AccessToken(u, req[r].guest, t, req[r].exp)])
    /\ UNCHANGED <<time, people, access, delivered, ended>>

(* POST /refresh.  rotate_refresh_token deletes the token presented and    *)
(* inserts its successor in one transaction: of two requests with the same *)
(* token the second finds no row.                                          *)
Successor(old) == [refresh[old] EXCEPT !.expires = time + RefreshTTL]
RotatedMutant(old, new) == With(refresh, new, Successor(old))
Rotated(old, new) == With(Without(refresh, {old}), new, Successor(old))

Rotate(r, old, new) ==
    /\ req[r] = Idle
    /\ old \in delivered \cap DOMAIN refresh
    /\ refresh[old].expires > time
    /\ new \notin issued
    /\ issued' = issued \cup {new}
    /\ refresh' = Rotated(old, new)
    /\ Goto(r, [pc |-> "reread", user |-> refresh[old].user, token |-> new,
                session |-> refresh[old].session])
    /\ UNCHANGED <<time, people, access, delivered, ended>>

(* The rest of /refresh: the claims are read in a second transaction.      *)
RereadUser(r) ==
    /\ req[r].pc = "reread"
    /\ LET u == req[r].user
       IN Goto(r, IF u \in DOMAIN accounts
                    THEN [pc |-> "answer", token |-> req[r].token,
                          access |-> Fresh(u, accounts[u].guest, req[r].session)]
                    ELSE Idle)
    /\ UNCHANGED <<time, people, sessions>>

(* The client receives both tokens.                                        *)
Deliver(r) ==
    /\ req[r].pc = "answer"
    /\ access' = access \cup {req[r].access}
    /\ delivered' = delivered \cup {req[r].token}
    /\ Refuse(r)
    /\ UNCHANGED <<time, people, refresh, issued, ended>>

(* POST /rename: an access token only, with the deadline of the old one.   *)
RenewedMutant(a) ==
    AccessToken(a.user, accounts[a.user].guest, a.session, time + AccessTTL)
Renewed(a) == AccessToken(a.user, accounts[a.user].guest, a.session, a.exp)

Rename(a) ==
    /\ Authorized(a)
    /\ a.user \in DOMAIN accounts
    /\ access' = access \cup {Renewed(a)}
    /\ UNCHANGED <<time, people, refresh, issued, req, delivered, ended>>

(* POST /logout deletes the one token presented.  One that has been        *)
(* rotated or has gone is answered like any other, and its session, if it  *)
(* has a later token, lives on.                                            *)
Logout(t) ==
    /\ t \in delivered
    /\ refresh' = Without(refresh, {t})
    /\ ended' = IF t \in DOMAIN refresh THEN With(ended, refresh[t].session, time)
                ELSE ended
    /\ UNCHANGED <<time, people, issued, access, req, delivered>>

(* A database error or a lost process or connection between two            *)
(* transactions of a handler, or on the way to the client.                 *)
Lose(r) ==
    /\ req[r] # Idle
    /\ Refuse(r)
    /\ UNCHANGED <<time, people, sessions>>

OwnedBy(f, S) == {x \in DOMAIN f : f[x] \in S}

(* prune_guests, with the tables that cascade; which guests are old enough *)
(* and have no history is left open (Scores models that part).             *)
Prunable(u) == accounts[u].guest
TokensKeptMutant(S) == refresh
TokensKept(S) == Without(refresh, {t \in DOMAIN refresh : refresh[t].user \in S})

PruneGuests(S) ==
    /\ S # {} /\ \A u \in S : Prunable(u)
    /\ accounts' = Without(accounts, S)
    /\ identities' = Without(identities, OwnedBy(identities, S))
    /\ refresh' = TokensKept(S)
    /\ UNCHANGED <<time, taken, issued, access, req, delivered, ended>>

(* prune_refresh_tokens                                                    *)
Expired == {t \in DOMAIN refresh : refresh[t].expires < time}
PruneRefreshTokens ==
    /\ Expired # {}
    /\ refresh' = Without(refresh, Expired)
    /\ UNCHANGED <<time, people, issued, access, req, delivered, ended>>

Tick ==
    /\ time < MaxTime
    /\ time' = time + 1
    /\ UNCHANGED <<people, sessions, req>>

Next ==
    \/ \E r \in Reqs :
        \/ \E u \in Ids : \/ GuestLogin(r, u) \/ Login(r, u) \/ CreateFromIdentity(r, u)
                          \/ \E e \in Emails : Register(r, u, e)
        \/ \E s \in SteamIds : SteamLogin(r, s) \/ \E a \in access : SteamLink(r, a, s)
        \/ \E e \in Emails, a \in access : Claim(r, a, e)
        \/ FindIdentity(r) \/ AttachIdentity(r) \/ ClaimAccount(r)
        \/ \E t \in Tokens : CreateRefreshToken(r, t) \/ \E o \in Tokens : Rotate(r, o, t)
        \/ RereadUser(r) \/ Deliver(r) \/ Lose(r)
    \/ \E a \in access : Rename(a)
    \/ \E t \in Tokens : Logout(t)
    \/ \E S \in SUBSET DOMAIN accounts : PruneGuests(S)
    \/ PruneRefreshTokens
    \/ Tick

Spec == Init /\ [][Next]_vars

-----------------------------------------------------------------------------
(* Properties.                                                             *)

Account == [guest : BOOLEAN, email : Emails \cup {NoEmail}]
RefreshRow == [user : Ids, expires : Int, session : Tokens]
Access == [user : Ids, guest : BOOLEAN, session : Tokens, exp : Int]
Request ==
    {Idle}
    \cup [pc : {"find", "create"}, steam : SteamIds]
    \cup [pc : {"attach"}, user : Ids, steam : SteamIds]
    \cup [pc : {"claim"}, user : Ids, email : Emails]
    \cup [pc : {"issue"}, user : Ids, guest : BOOLEAN, exp : Int]
    \cup [pc : {"reread"}, user : Ids, token : Tokens, session : Tokens]
    \cup [pc : {"answer"}, token : Tokens, access : Access]

TypeOK ==
    /\ time \in Int
    /\ DOMAIN accounts \subseteq taken /\ taken \subseteq Ids
    /\ \A u \in DOMAIN accounts : accounts[u] \in Account
    /\ DOMAIN identities \subseteq Subjects
    /\ \A i \in DOMAIN identities : identities[i] \in DOMAIN accounts
    /\ DOMAIN refresh \subseteq issued /\ issued \subseteq Tokens
    /\ \A t \in DOMAIN refresh :
          refresh[t] \in RefreshRow /\ refresh[t].user \in DOMAIN accounts
    /\ access \subseteq Access
    /\ req \in [Reqs -> Request]
    /\ delivered \subseteq issued
    /\ DOMAIN ended \subseteq issued /\ \A x \in DOMAIN ended : ended[x] \in Int

(* An account is a guest exactly as long as no identity proves who owns    *)
(* it: a claim, a link or a first Steam login never leaves one half done.  *)
GuestIffNoIdentity ==
    \A u \in DOMAIN accounts :
        accounts[u].guest <=> \A i \in DOMAIN identities : identities[i] # u

(* The email of an account is its one native identity: two racing claims   *)
(* of one account do not leave it with two.                                *)
EmailIsIdentity ==
    \A u \in DOMAIN accounts, e \in Emails :
        accounts[u].email = e
          <=> Native(e) \in DOMAIN identities /\ identities[Native(e)] = u

(* Who owns an account is told the same way everywhere, whatever races.    *)
IdentitiesAgree == GuestIffNoIdentity /\ EmailIsIdentity

(* The access tokens that exist, the ones on their way to a client too.    *)
Signed == access \cup {req[r].access : r \in {q \in Reqs : req[q].pc = "answer"}}

(* A token that says claimed tells the truth for as long as it exists,     *)
(* although the account is never read again while the token is used.       *)
ClaimedTokenIsTrue ==
    \A a \in Signed :
        ~a.guest => a.user \in DOMAIN accounts /\ ~accounts[a.user].guest

(* Ending a session ends what it can still do within AccessTTL: no access  *)
(* token signed for it lives longer after the logout, however often the    *)
(* client renames and whatever refresh was in flight.                      *)
LogoutBoundsAccess ==
    \A a \in Signed :
        a.session \in DOMAIN ended => a.exp <= ended[a.session] + AccessTTL

(* What an access token says is true, and it says so no longer than it may *)
(* once its session is over.                                               *)
AccessIsTrue == ClaimedTokenIsTrue /\ LogoutBoundsAccess

(* A session has one live refresh token: a token is spent once, also when  *)
(* two requests present it at the same time.                               *)
OneTokenPerSession ==
    \A t, u \in DOMAIN refresh : refresh[t].session = refresh[u].session => t = u

(* A session whose live token was presented to a logout is never refreshed *)
(* again.                                                                  *)
LogoutIsFinal == \A t \in DOMAIN refresh : refresh[t].session \notin DOMAIN ended

(* A session is one chain of tokens with one end.                          *)
SessionsAreChains == OneTokenPerSession /\ LogoutIsFinal

(* An identity never moves to another account.                             *)
IdentityKeepsOwner ==
    [][\A i \in DOMAIN identities \cap DOMAIN identities' :
          identities'[i] = identities[i]]_vars

=============================================================================
