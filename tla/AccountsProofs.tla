--------------------------- MODULE AccountsProofs ---------------------------
(***************************************************************************)
(* Theorems about Accounts, for any number of accounts, identities, tokens *)
(* and requests in flight, and for any lifetimes.                          *)
(*                                                                         *)
(* Section 1 has type correctness with the foreign keys.  Section 2 has    *)
(* who owns an account, section 3 what an access token says, section 4 the *)
(* chains of refresh tokens, section 5 how long a session that has ended   *)
(* can still act; each has an invariant of its own.                        *)
(***************************************************************************)
EXTENDS Accounts, TLAPS

-----------------------------------------------------------------------------
(* 1. Type correctness.                                                    *)

(* With sets one entry of a table and keeps the others.                    *)
LEMMA WithFacts ==
    ASSUME NEW f, NEW x, NEW y
    PROVE  /\ DOMAIN With(f, x, y) = DOMAIN f \cup {x}
           /\ With(f, x, y)[x] = y
           /\ \A z \in DOMAIN f \ {x} : With(f, x, y)[z] = f[z]
BY DEF With

(* Without removes entries and keeps the others.                           *)
LEMMA WithoutFacts ==
    ASSUME NEW f, NEW S
    PROVE  /\ DOMAIN Without(f, S) = DOMAIN f \ S
           /\ \A z \in DOMAIN f \ S : Without(f, S)[z] = f[z]
BY DEF Without

(* The two providers never name the same identity.                         *)
LEMMA SubjectFacts ==
    /\ \A e \in Emails : Native(e) \in Subjects
    /\ \A s \in SteamIds : Steam(s) \in Subjects
    /\ \A e, d : Native(e) = Native(d) => e = d
    /\ \A e, s : Native(e) # Steam(s)
BY DEF Native, Steam, Subjects

(* What a request carries in each of its phases.                           *)
LEMMA RequestFields ==
    ASSUME NEW q \in Request
    PROVE  /\ q.pc \in {"find", "create"}
                => q.steam \in SteamIds /\ q = [pc |-> q.pc, steam |-> q.steam]
           /\ q.pc = "attach" => q.user \in Ids /\ q.steam \in SteamIds
           /\ q.pc = "claim" => q.user \in Ids /\ q.email \in Emails
           /\ q.pc = "issue" => q.user \in Ids /\ q.guest \in BOOLEAN /\ q.exp \in Int
           /\ q.pc = "reread" => q.user \in Ids /\ q.token \in Tokens /\ q.session \in Tokens
           /\ q.pc = "answer" => q.token \in Tokens /\ q.access \in Access
BY DEF Request, Idle

(* The phases in which a request carries no new token.                     *)
Silent == {q \in Request : q.pc \notin {"reread", "answer"}}

(* What a handler builds is a request in its phase.                        *)
LEMMA RequestPhases ==
    /\ Idle \in Silent
    /\ \A p \in {"find", "create"}, s \in SteamIds : [pc |-> p, steam |-> s] \in Silent
    /\ \A u \in Ids, s \in SteamIds : [pc |-> "attach", user |-> u, steam |-> s] \in Silent
    /\ \A u \in Ids, e \in Emails : [pc |-> "claim", user |-> u, email |-> e] \in Silent
    /\ time \in Int => \A u \in Ids, g \in BOOLEAN : Issuing(u, g) \in Silent
    /\ \A u \in Ids, t, x \in Tokens :
          [pc |-> "reread", user |-> u, token |-> t, session |-> x] \in Request
    /\ \A t \in Tokens, a \in Access : [pc |-> "answer", token |-> t, access |-> a] \in Request
BY AccountsAssumption DEF Request, Issuing, Idle, Silent

(* TypeOK is not inductive: that a client holds issued tokens only needs   *)
(* that the answers on their way carry issued tokens, and that a session   *)
(* bears the name of a token once issued.                                  *)
RequestType ==
    /\ req \in [Reqs -> Request]
    /\ \A r \in Reqs : req[r].pc \in {"reread", "answer"} => req[r].token \in issued
    /\ \A r \in Reqs : req[r].pc = "reread" => req[r].session \in issued

PeopleType ==
    /\ DOMAIN accounts \subseteq taken /\ taken \subseteq Ids
    /\ \A u \in DOMAIN accounts : accounts[u] \in Account
    /\ DOMAIN identities \subseteq Subjects
    /\ \A i \in DOMAIN identities : identities[i] \in DOMAIN accounts

RefreshType ==
    /\ DOMAIN refresh \subseteq issued /\ issued \subseteq Tokens
    /\ \A t \in DOMAIN refresh :
          /\ refresh[t] \in RefreshRow
          /\ refresh[t].user \in DOMAIN accounts
          /\ refresh[t].session \in issued

ClientType ==
    /\ time \in Int
    /\ access \subseteq Access
    /\ delivered \subseteq issued
    /\ DOMAIN ended \subseteq issued /\ \A x \in DOMAIN ended : ended[x] \in Int

TypeInv == PeopleType /\ RefreshType /\ ClientType /\ RequestType

LEMMA TypeInvImplies == TypeInv => TypeOK
BY DEF TypeInv, TypeOK, PeopleType, RefreshType, ClientType, RequestType

LEMMA InitType == Init => TypeInv
BY DEF Init, TypeInv, PeopleType, RefreshType, ClientType, RequestType, Request, Idle

(* A request goes on to another phase.                                     *)
LEMMA GotoType ==
    ASSUME RequestType, NEW r \in Reqs, NEW q \in Silent, Goto(r, q),
           UNCHANGED issued \/ UNCHANGED sessions
    PROVE  RequestType'
BY DEF RequestType, Goto, Silent, sessions

LEMMA GotoTokenType ==
    ASSUME RequestType, issued \subseteq issued', NEW r \in Reqs, NEW q \in Request,
           q.token \in issued', q.pc = "reread" => q.session \in issued', Goto(r, q)
    PROVE  RequestType'
BY DEF RequestType, Goto

(* A new account has an id no account had before.                          *)
LEMMA NewAccountFacts ==
    ASSUME TypeInv, NEW u \in Ids, NEW g \in BOOLEAN, NEW e \in Emails \cup {NoEmail},
           NewAccount(u, g, e)
    PROVE  /\ u \notin DOMAIN accounts
           /\ DOMAIN accounts' = DOMAIN accounts \cup {u}
           /\ DOMAIN accounts' \subseteq taken' /\ taken' \subseteq Ids
           /\ accounts'[u] = [guest |-> g, email |-> e]
           /\ \A v \in DOMAIN accounts : v # u /\ accounts'[v] = accounts[v]
           /\ \A v \in DOMAIN accounts' : accounts'[v] \in Account
<1>1. accounts' = With(accounts, u, [guest |-> g, email |-> e]) /\ taken' = taken \cup {u}
      /\ u \notin taken
  BY DEF NewAccount
<1>2. [guest |-> g, email |-> e] \in Account
  BY DEF Account
<1> QED BY <1>1, <1>2 DEF TypeInv, PeopleType, With

(* As long as no account goes, the rows that name it stand.                *)
LEMMA RowsStand ==
    ASSUME RefreshType, DOMAIN accounts \subseteq DOMAIN accounts',
           UNCHANGED <<refresh, issued>>
    PROVE  RefreshType'
BY DEF RefreshType

LEMMA ClientsStand ==
    ASSUME ClientType, time' \in Int, issued \subseteq issued',
           UNCHANGED <<access, delivered, ended>>
    PROVE  ClientType'
BY DEF ClientType

LEMMA NextType == TypeInv /\ [Next]_vars => TypeInv'
<1> SUFFICES ASSUME TypeInv, [Next]_vars PROVE TypeInv'
  OBVIOUS
<1> DEFINE Goal == PeopleType' /\ RefreshType' /\ ClientType' /\ RequestType'
<1>0. /\ PeopleType /\ RefreshType /\ ClientType /\ RequestType
      /\ \A r \in Reqs : req[r] \in Request
      /\ \A u \in Ids, g \in BOOLEAN : Issuing(u, g) \in Silent
  BY RequestPhases DEF TypeInv, RequestType, ClientType
<1>1. ASSUME UNCHANGED vars PROVE Goal
  BY <1>0, <1>1 DEF vars, PeopleType, RefreshType, ClientType, RequestType
<1>2. ASSUME NEW r \in Reqs, NEW u \in Ids, GuestLogin(r, u) PROVE Goal
  <2>1. /\ NewAccount(u, TRUE, NoEmail) /\ Goto(r, Issuing(u, TRUE))
        /\ UNCHANGED <<time, identities, sessions>>
    BY <1>2 DEF GuestLogin
  <2>2. PeopleType' /\ DOMAIN accounts \subseteq DOMAIN accounts'
    BY <1>0, <2>1, NewAccountFacts DEF PeopleType
  <2>3. RefreshType' /\ ClientType'
    BY <1>0, <2>1, <2>2, RowsStand DEF sessions, ClientType
  <2> QED BY <1>0, <2>1, <2>2, <2>3, GotoType, RequestPhases
<1>3. ASSUME NEW r \in Reqs, NEW u \in Ids, NEW e \in Emails, Register(r, u, e) PROVE Goal
  <2>1. /\ NewAccount(u, FALSE, e) /\ Goto(r, Issuing(u, FALSE))
        /\ identities' = With(identities, Native(e), u)
        /\ UNCHANGED <<time, sessions>>
    BY <1>3 DEF Register
  <2>2. DOMAIN accounts' = DOMAIN accounts \cup {u}
    BY <2>1, NewAccountFacts
  <2>3. PeopleType'
    <3>1. Native(e) \in Subjects
      BY SubjectFacts
    <3>2. /\ DOMAIN accounts' \subseteq taken' /\ taken' \subseteq Ids
          /\ \A v \in DOMAIN accounts' : accounts'[v] \in Account
      BY <2>1, NewAccountFacts
    <3> QED BY <1>0, <2>1, <2>2, <3>1, <3>2 DEF PeopleType, With
  <2>4. RefreshType' /\ ClientType'
    BY <1>0, <2>1, <2>2, RowsStand DEF sessions, ClientType
  <2> QED BY <1>0, <2>1, <2>3, <2>4, GotoType, RequestPhases
<1>4. ASSUME NEW r \in Reqs,
             \/ \E u \in Ids : Login(r, u)
             \/ \E s \in SteamIds : SteamLogin(r, s)
             \/ FindIdentity(r)
             \/ \E a \in access, s \in SteamIds : SteamLink(r, a, s)
             \/ \E a \in access, e \in Emails : Claim(r, a, e)
             \/ RereadUser(r) \/ Lose(r)
      PROVE  Goal
  <2>1. UNCHANGED <<time, people, sessions>>
    BY <1>4 DEF Login, SteamLogin, FindIdentity, SteamLink, Claim, RereadUser, Lose
  <2>2. PeopleType' /\ RefreshType' /\ ClientType'
    BY <1>0, <2>1 DEF people, sessions, PeopleType, RefreshType, ClientType
  <2>3. CASE \E u \in Ids : Login(r, u)
    BY <1>0, <2>1, <2>2, <2>3, GotoType, RequestPhases DEF Login, PeopleType, Account
  <2>4. CASE \E s \in SteamIds : SteamLogin(r, s)
    BY <1>0, <2>1, <2>2, <2>4, GotoType, RequestPhases DEF SteamLogin
  <2>5. CASE FindIdentity(r)
    <3> DEFINE i == Steam(req[r].steam)
               next == IF i \in DOMAIN identities
                         THEN Issuing(identities[i], accounts[identities[i]].guest)
                         ELSE [req[r] EXCEPT !.pc = "create"]
    <3>1. req[r].pc = "find" /\ Goto(r, next)
      BY <2>5 DEF FindIdentity
    <3>2. CASE i \in DOMAIN identities
      <4>1. identities[i] \in Ids /\ accounts[identities[i]].guest \in BOOLEAN
        BY <1>0, <3>2 DEF PeopleType, Account
      <4>2. next \in Silent
        BY <1>0, <3>2, <4>1
      <4> QED BY <1>0, <2>1, <2>2, <3>1, <4>2, GotoType
    <3>3. CASE i \notin DOMAIN identities
      <4>1. PICK q \in Request : req[r] = q
        BY <1>0
      <4>2. q.steam \in SteamIds /\ q = [pc |-> "find", steam |-> q.steam]
        BY <3>1, <4>1, RequestFields
      <4>3. [q EXCEPT !.pc = "create"] = [pc |-> "create", steam |-> q.steam]
        BY <4>2
      <4>4. next \in Silent
        BY <3>3, <4>1, <4>2, <4>3, RequestPhases
      <4> QED BY <1>0, <2>1, <2>2, <3>1, <4>4, GotoType
    <3> QED BY <3>2, <3>3
  <2>6. CASE \E a \in access, s \in SteamIds : SteamLink(r, a, s)
    BY <1>0, <2>1, <2>2, <2>6, GotoType, RequestPhases DEF SteamLink, ClientType, Access
  <2>7. CASE \E a \in access, e \in Emails : Claim(r, a, e)
    BY <1>0, <2>1, <2>2, <2>7, GotoType, RequestPhases DEF Claim, ClientType, Access
  <2>8. CASE RereadUser(r)
    <3> DEFINE u == req[r].user
               t == req[r].token
               x == req[r].session
               next == IF u \in DOMAIN accounts
                         THEN [pc |-> "answer", token |-> t,
                               access |-> Fresh(u, accounts[u].guest, x)]
                         ELSE Idle
    <3>1. req[r].pc = "reread" /\ Goto(r, next)
      BY <2>8 DEF RereadUser
    <3>2. u \in Ids /\ t \in Tokens /\ x \in Tokens
      BY <1>0, <3>1, RequestFields
    <3>3. u \in DOMAIN accounts => Fresh(u, accounts[u].guest, x) \in Access
      BY <1>0, <3>2, AccountsAssumption
      DEF PeopleType, Account, ClientType, Fresh, AccessToken, Access
    <3>4. CASE u \in DOMAIN accounts
      <4>1. /\ next \in Request /\ next.pc = "answer" /\ next.token \in issued
            /\ issued' = issued
        BY <1>0, <2>1, <3>1, <3>2, <3>3, <3>4, RequestPhases DEF RequestType, sessions
      <4> QED BY <1>0, <2>1, <2>2, <3>1, <4>1, GotoTokenType
    <3>5. CASE u \notin DOMAIN accounts
      BY <1>0, <2>1, <2>2, <3>1, <3>5, GotoType, RequestPhases
    <3> QED BY <1>0, <3>4, <3>5
  <2>9. CASE Lose(r)
    BY <1>0, <2>1, <2>2, <2>9, GotoType, RequestPhases DEF Lose, Refuse
  <2> QED BY <1>4, <2>3, <2>4, <2>5, <2>6, <2>7, <2>8, <2>9
<1>5. ASSUME NEW r \in Reqs, NEW u \in Ids, CreateFromIdentity(r, u) PROVE Goal
  <2> DEFINE i == Steam(req[r].steam)
  <2>1. PICK q \in Request : req[r] = q
    BY <1>0
  <2>2. /\ q.pc = "create" /\ UNCHANGED <<time, sessions>>
    BY <1>5, <2>1 DEF CreateFromIdentity
  <2>3. q.steam \in SteamIds /\ q = [pc |-> "create", steam |-> q.steam]
        /\ [q EXCEPT !.pc = "find"] = [pc |-> "find", steam |-> q.steam]
    BY <2>2, RequestFields
  <2>4. CASE Goto(r, [req[r] EXCEPT !.pc = "find"]) /\ UNCHANGED people
    <3>1. [req[r] EXCEPT !.pc = "find"] \in Silent
      BY <2>1, <2>3, RequestPhases
    <3> QED BY <1>0, <2>1, <2>2, <2>4, <3>1, GotoType
            DEF people, sessions, PeopleType, RefreshType, ClientType
  <2>5. CASE /\ NewAccount(u, FALSE, NoEmail)
             /\ identities' = With(identities, i, u)
             /\ Goto(r, Issuing(u, FALSE))
    <3>1. DOMAIN accounts' = DOMAIN accounts \cup {u}
      BY <2>5, NewAccountFacts
    <3>2. i \in Subjects
      BY <2>1, <2>3, SubjectFacts
    <3>3. PeopleType'
      BY <1>0, <2>5, <3>1, <3>2, NewAccountFacts DEF PeopleType, With
    <3>4. RefreshType' /\ ClientType'
      BY <1>0, <2>1, <2>2, <3>1, RowsStand DEF sessions, ClientType
    <3> QED BY <1>0, <2>2, <2>5, <3>3, <3>4, GotoType, RequestPhases
  <2> QED BY <1>5, <2>4, <2>5 DEF CreateFromIdentity
<1>6. ASSUME NEW r \in Reqs, AttachIdentity(r) PROVE Goal
  <2> DEFINE u == req[r].user
             i == Steam(req[r].steam)
  <2>1. u \in Ids /\ i \in Subjects /\ UNCHANGED <<time, sessions>>
    BY <1>0, <1>6, RequestFields, SubjectFacts DEF AttachIdentity
  <2>2. CASE Refuse(r) /\ UNCHANGED people
    BY <1>0, <2>1, <2>2, GotoType, RequestPhases
    DEF Refuse, people, sessions, PeopleType, RefreshType, ClientType
  <2>3. CASE /\ u \in DOMAIN accounts
             /\ accounts' = Upgraded(u)
             /\ identities' = With(identities, i, u)
             /\ Goto(r, Issuing(u, FALSE))
             /\ UNCHANGED taken
    <3>1. DOMAIN accounts' = DOMAIN accounts
          /\ \A v \in DOMAIN accounts' : accounts'[v] \in Account
      BY <1>0, <2>3 DEF Upgraded, PeopleType, Account
    <3>2. PeopleType'
      BY <1>0, <2>1, <2>3, <3>1 DEF PeopleType, With
    <3>3. RefreshType' /\ ClientType'
      BY <1>0, <2>1, <3>1, RowsStand DEF sessions, ClientType
    <3> QED BY <1>0, <2>1, <2>3, <3>2, <3>3, GotoType, RequestPhases
  <2> QED BY <1>6, <2>2, <2>3 DEF AttachIdentity
<1>7. ASSUME NEW r \in Reqs, ClaimAccount(r) PROVE Goal
  <2> DEFINE u == req[r].user
             e == req[r].email
  <2>1. u \in Ids /\ e \in Emails /\ Native(e) \in Subjects /\ UNCHANGED <<time, sessions>>
    BY <1>0, <1>7, RequestFields, SubjectFacts DEF ClaimAccount
  <2>2. CASE Refuse(r) /\ UNCHANGED people
    BY <1>0, <2>1, <2>2, GotoType, RequestPhases
    DEF Refuse, people, sessions, PeopleType, RefreshType, ClientType
  <2>3. CASE /\ Claimable(u, e)
             /\ accounts' = [accounts EXCEPT ![u] = [guest |-> FALSE, email |-> e]]
             /\ identities' = With(identities, Native(e), u)
             /\ Goto(r, Issuing(u, FALSE))
             /\ UNCHANGED taken
    <3>1. u \in DOMAIN accounts /\ DOMAIN accounts' = DOMAIN accounts
          /\ \A v \in DOMAIN accounts' : accounts'[v] \in Account
      BY <1>0, <2>1, <2>3 DEF PeopleType, Account, Claimable
    <3>2. PeopleType'
      BY <1>0, <2>1, <2>3, <3>1 DEF PeopleType, With
    <3>3. RefreshType' /\ ClientType'
      BY <1>0, <2>1, <3>1, RowsStand DEF sessions, ClientType
    <3> QED BY <1>0, <2>1, <2>3, <3>2, <3>3, GotoType, RequestPhases
  <2> QED BY <1>7, <2>2, <2>3 DEF ClaimAccount
<1>8. ASSUME NEW r \in Reqs, NEW t \in Tokens, CreateRefreshToken(r, t) PROVE Goal
  <2> DEFINE u == req[r].user
             row == [user |-> u, expires |-> time + RefreshTTL, session |-> t]
             a == AccessToken(u, req[r].guest, t, req[r].exp)
             next == [pc |-> "answer", token |-> t, access |-> a]
  <2>1. /\ u \in Ids /\ req[r].guest \in BOOLEAN /\ req[r].exp \in Int
        /\ UNCHANGED <<time, people, access, delivered, ended>>
    BY <1>0, <1>8, RequestFields DEF CreateRefreshToken
  <2>2. PeopleType'
    BY <1>0, <2>1 DEF people, PeopleType
  <2>3. CASE Refuse(r) /\ UNCHANGED <<refresh, issued>>
    BY <1>0, <2>1, <2>2, <2>3, GotoType, RequestPhases
    DEF Refuse, people, RefreshType, ClientType
  <2>4. CASE /\ u \in DOMAIN accounts /\ issued' = issued \cup {t}
             /\ refresh' = With(refresh, t, row) /\ Goto(r, next)
    <3>1. row \in RefreshRow /\ a \in Access
      BY <1>0, <2>1, AccountsAssumption DEF ClientType, RefreshRow, AccessToken, Access
    <3>2. RefreshType'
      BY <1>0, <2>1, <2>4, <3>1 DEF people, RefreshType, With
    <3>3. ClientType'
      BY <1>0, <2>1, <2>4 DEF ClientType
    <3>4. next \in Request /\ next.pc = "answer" /\ next.token \in issued'
      BY <2>4, <3>1, RequestPhases
    <3> QED BY <1>0, <2>1, <2>2, <2>4, <3>2, <3>3, <3>4, GotoTokenType
  <2> QED BY <1>8, <2>3, <2>4 DEF CreateRefreshToken
<1>9. ASSUME NEW r \in Reqs, NEW old \in Tokens, NEW new \in Tokens, Rotate(r, old, new)
      PROVE  Goal
  <2> DEFINE row == [refresh[old] EXCEPT !.expires = time + RefreshTTL]
  <2>1. /\ old \in DOMAIN refresh /\ issued' = issued \cup {new}
        /\ refresh' = With(Without(refresh, {old}), new, row)
        /\ Goto(r, [pc |-> "reread", user |-> refresh[old].user, token |-> new,
                    session |-> refresh[old].session])
        /\ UNCHANGED <<time, people, access, delivered, ended>>
    BY <1>9 DEF Rotate, Rotated, Successor
  <2>2. row \in RefreshRow /\ row.user = refresh[old].user /\ row.user \in Ids
        /\ row.session = refresh[old].session /\ row.session \in issued /\ row.session \in Tokens
    BY <1>0, <2>1, AccountsAssumption DEF RefreshType, RefreshRow, ClientType
  <2> HIDE DEF row
  <2>3. PeopleType' /\ ClientType'
    BY <1>0, <2>1 DEF people, PeopleType, ClientType
  <2>4. RefreshType'
    <3>1. /\ DOMAIN refresh' = (DOMAIN refresh \ {old}) \cup {new} /\ refresh'[new] = row
          /\ \A t \in DOMAIN refresh' \ {new} : t \in DOMAIN refresh /\ refresh'[t] = refresh[t]
      BY <2>1 DEF With, Without
    <3>2. DOMAIN refresh' \subseteq issued' /\ issued' \subseteq Tokens
      BY <1>0, <2>1, <3>1 DEF RefreshType
    <3>3. \A t \in DOMAIN refresh : refresh[t].user \in DOMAIN accounts'
                                    /\ refresh[t].session \in issued'
      BY <1>0, <2>1 DEF RefreshType, people
    <3> QED BY <1>0, <2>1, <2>2, <3>1, <3>2, <3>3 DEF RefreshType
  <2>5. /\ [pc |-> "reread", user |-> row.user, token |-> new, session |-> row.session]
             \in Request
        /\ new \in issued' /\ row.session \in issued'
    BY <2>1, <2>2, RequestPhases
  <2> QED BY <1>0, <2>1, <2>2, <2>3, <2>4, <2>5, GotoTokenType
<1>10. ASSUME NEW r \in Reqs, Deliver(r) PROVE Goal
  <2>1. /\ req[r].token \in issued /\ req[r].access \in Access
    BY <1>0, <1>10, RequestFields DEF Deliver, RequestType
  <2>2. PeopleType' /\ RefreshType'
    BY <1>0, <1>10 DEF Deliver, people, PeopleType, RefreshType
  <2> QED BY <1>0, <1>10, <2>1, <2>2, GotoType, RequestPhases DEF Deliver, Refuse, ClientType
<1>11. ASSUME NEW a \in access, Rename(a) PROVE Goal
  <2>1. Renewed(a) \in Access
    BY <1>0, <1>11 DEF Rename, Renewed, AccessToken, Access, ClientType, PeopleType, Account
  <2> QED BY <1>0, <1>11, <2>1 DEF Rename, people, PeopleType, RefreshType, ClientType, RequestType
<1>12. ASSUME NEW t \in Tokens, Logout(t) PROVE Goal
  <2>1. /\ refresh' = Without(refresh, {t})
        /\ UNCHANGED <<time, people, issued, access, req, delivered>>
    BY <1>12 DEF Logout
  <2>2. PeopleType' /\ RefreshType' /\ RequestType'
    BY <1>0, <2>1 DEF people, PeopleType, RefreshType, RequestType, Without
  <2>3. CASE t \in DOMAIN refresh
    BY <1>0, <1>12, <2>1, <2>2, <2>3 DEF Logout, ClientType, RefreshType, With
  <2>4. CASE t \notin DOMAIN refresh
    BY <1>0, <1>12, <2>1, <2>2, <2>4 DEF Logout, ClientType
  <2> QED BY <2>3, <2>4
<1>13. ASSUME NEW S \in SUBSET DOMAIN accounts, PruneGuests(S) PROVE Goal
  <2>1. /\ accounts' = Without(accounts, S)
        /\ identities' = Without(identities, OwnedBy(identities, S))
        /\ refresh' = Without(refresh, {t \in DOMAIN refresh : refresh[t].user \in S})
        /\ UNCHANGED <<time, taken, issued, access, req, delivered, ended>>
    BY <1>13 DEF PruneGuests, TokensKept
  <2>2. PeopleType'
    BY <1>0, <2>1 DEF PeopleType, Without, OwnedBy
  <2>3. RefreshType'
    BY <1>0, <2>1 DEF RefreshType, Without
  <2> QED BY <1>0, <2>1, <2>2, <2>3 DEF ClientType, RequestType
<1>14. ASSUME PruneRefreshTokens PROVE Goal
  BY <1>0, <1>14
  DEF PruneRefreshTokens, people, PeopleType, RefreshType, ClientType, RequestType, Without
<1>15. ASSUME Tick PROVE Goal
  BY <1>0, <1>15 DEF Tick, people, sessions, PeopleType, RefreshType, ClientType, RequestType
<1> HIDE DEF Goal
<1>16. Goal
  BY <1>1, <1>2, <1>3, <1>4, <1>5, <1>6, <1>7, <1>8, <1>9, <1>10, <1>11, <1>12, <1>13,
     <1>14, <1>15 DEF Next
<1> QED BY <1>16 DEF Goal, TypeInv

(* TypeOK, which AccountsSessions checks: every table keeps its type, and  *)
(* no identity or refresh token names an account that is gone.             *)
THEOREM TypeCorrect == Spec => []TypeOK
BY InitType, NextType, TypeInvImplies, PTL DEF Spec

-----------------------------------------------------------------------------
(* 2. Who owns an account.  IdentitiesAgree is inductive with the types;   *)
(* its step also shows that no identity changes hands.                     *)

OwnersStand ==
    \A i \in DOMAIN identities \cap DOMAIN identities' : identities'[i] = identities[i]

LEMMA InitOwners == Init => IdentitiesAgree
BY DEF Init, IdentitiesAgree, GuestIffNoIdentity, EmailIsIdentity

(* The two parts of IdentitiesAgree about one account.                     *)
OneOwner(acc, ids, u) ==
    /\ acc[u].guest <=> \A i \in DOMAIN ids : ids[i] # u
    /\ \A e \in Emails :
          acc[u].email = e <=> Native(e) \in DOMAIN ids /\ ids[Native(e)] = u

LEMMA AgreeByAccount ==
    IdentitiesAgree <=> \A u \in DOMAIN accounts : OneOwner(accounts, identities, u)
BY DEF IdentitiesAgree, GuestIffNoIdentity, EmailIsIdentity, OneOwner

LEMMA AgreeByAccountNext ==
    ASSUME \A u \in DOMAIN accounts' : OneOwner(accounts', identities', u)
    PROVE  IdentitiesAgree'
BY DEF IdentitiesAgree, GuestIffNoIdentity, EmailIsIdentity, OneOwner

(* An account whose row stands is told the same way when an identity it    *)
(* does not own, and nobody else owned, is set.                            *)
LEMMA OthersAgree ==
    ASSUME NEW acc, NEW ids, NEW accNext, NEW i, NEW u, NEW v,
           v # u, OneOwner(acc, ids, v), accNext[v] = acc[v],
           i \in DOMAIN ids => ids[i] = u
    PROVE  OneOwner(accNext, With(ids, i, u), v)
BY DEF OneOwner, With

(* The account that gains its native identity, and one that gains a Steam  *)
(* identity.                                                               *)
LEMMA NativeOwner ==
    ASSUME NEW accNext, NEW ids, NEW e \in Emails, NEW u,
           accNext[u].guest = FALSE, accNext[u].email = e,
           \A j \in DOMAIN ids : ids[j] # u
    PROVE  OneOwner(accNext, With(ids, Native(e), u), u)
<1> DEFINE next == With(ids, Native(e), u)
<1>1. /\ DOMAIN next = DOMAIN ids \cup {Native(e)} /\ next[Native(e)] = u
      /\ \A j \in DOMAIN ids \ {Native(e)} : next[j] = ids[j]
  BY DEF With
<1> HIDE DEF next
<1>2. \A d \in Emails :
         accNext[u].email = d <=> Native(d) \in DOMAIN next /\ next[Native(d)] = u
  BY <1>1, SubjectFacts
<1> QED BY <1>1, <1>2 DEF OneOwner, next

LEMMA SteamOwner ==
    ASSUME NEW accNext, NEW ids, NEW s, NEW u, accNext[u].guest = FALSE,
           \A e \in Emails :
              accNext[u].email = e <=> Native(e) \in DOMAIN ids /\ ids[Native(e)] = u
    PROVE  OneOwner(accNext, With(ids, Steam(s), u), u)
<1> DEFINE next == With(ids, Steam(s), u)
<1>1. /\ DOMAIN next = DOMAIN ids \cup {Steam(s)} /\ next[Steam(s)] = u
      /\ \A j \in DOMAIN ids \ {Steam(s)} : next[j] = ids[j]
  BY DEF With
<1> HIDE DEF next
<1>2. \A e \in Emails : Native(e) # Steam(s)
  BY SubjectFacts
<1>3. \A e \in Emails :
         accNext[u].email = e <=> Native(e) \in DOMAIN next /\ next[Native(e)] = u
  BY <1>1, <1>2
<1> QED BY <1>1, <1>3 DEF OneOwner, next

LEMMA OwnersStep == TypeInv /\ IdentitiesAgree /\ [Next]_vars => IdentitiesAgree' /\ OwnersStand
<1> SUFFICES ASSUME TypeInv, IdentitiesAgree, [Next]_vars
             PROVE  IdentitiesAgree' /\ OwnersStand
  OBVIOUS
<1> DEFINE Goal == IdentitiesAgree' /\ OwnersStand
<1>0. /\ \A u \in DOMAIN accounts : OneOwner(accounts, identities, u)
      /\ \A i \in DOMAIN identities : identities[i] \in DOMAIN accounts
      /\ \A u \in DOMAIN accounts : accounts[u] \in Account
      /\ \A r \in Reqs : req[r] \in Request
  BY AgreeByAccount DEF TypeInv, PeopleType, RequestType
<1>1. ASSUME UNCHANGED <<accounts, identities>> PROVE Goal
  BY <1>1 DEF IdentitiesAgree, GuestIffNoIdentity, EmailIsIdentity, OwnersStand
<1>2. ASSUME NEW r \in Reqs, NEW u \in Ids, GuestLogin(r, u) PROVE Goal
  <2>1. NewAccount(u, TRUE, NoEmail) /\ identities' = identities
    BY <1>2 DEF GuestLogin
  <2>2. /\ u \notin DOMAIN accounts /\ DOMAIN accounts' = DOMAIN accounts \cup {u}
        /\ accounts'[u] = [guest |-> TRUE, email |-> NoEmail]
        /\ \A v \in DOMAIN accounts : accounts'[v] = accounts[v]
    BY <2>1, NewAccountFacts
  <2>3. \A e \in Emails : NoEmail # e
    BY AccountsAssumption
  <2>4. OneOwner(accounts', identities', u)
    BY <1>0, <2>1, <2>2, <2>3 DEF OneOwner
  <2>5. \A v \in DOMAIN accounts : OneOwner(accounts', identities', v)
    BY <1>0, <2>1, <2>2 DEF OneOwner
  <2> QED BY <2>1, <2>2, <2>4, <2>5, AgreeByAccountNext DEF OwnersStand
<1>3. ASSUME NEW r \in Reqs, NEW u \in Ids, NEW e \in Emails, Register(r, u, e) PROVE Goal
  <2> DEFINE i == Native(e)
  <2>1. NewAccount(u, FALSE, e) /\ identities' = With(identities, i, u)
        /\ i \notin DOMAIN identities
    BY <1>3 DEF Register
  <2>2. /\ u \notin DOMAIN accounts /\ DOMAIN accounts' = DOMAIN accounts \cup {u}
        /\ accounts'[u] = [guest |-> FALSE, email |-> e]
        /\ \A v \in DOMAIN accounts : v # u /\ accounts'[v] = accounts[v]
    BY <2>1, NewAccountFacts
  <2>3. OneOwner(accounts', identities', u)
    <3>1. accounts'[u].guest = FALSE /\ accounts'[u].email = e
      BY <2>2
    <3>2. \A j \in DOMAIN identities : identities[j] # u
      BY <1>0, <2>2
    <3>3. OneOwner(accounts', With(identities, Native(e), u), u)
      BY <3>1, <3>2, NativeOwner
    <3> QED BY <2>1, <3>3
  <2>4. \A v \in DOMAIN accounts : OneOwner(accounts', identities', v)
    BY <1>0, <2>1, <2>2, OthersAgree
  <2> QED BY <2>1, <2>2, <2>3, <2>4, AgreeByAccountNext DEF OwnersStand, With
<1>4. ASSUME NEW r \in Reqs, NEW u \in Ids, CreateFromIdentity(r, u) PROVE Goal
  <2> DEFINE i == Steam(req[r].steam)
  <2>1. CASE UNCHANGED people
    BY <1>1, <2>1 DEF people
  <2>2. CASE /\ NewAccount(u, FALSE, NoEmail) /\ i \notin DOMAIN identities
             /\ identities' = With(identities, i, u)
    <3>1. /\ u \notin DOMAIN accounts /\ DOMAIN accounts' = DOMAIN accounts \cup {u}
          /\ accounts'[u] = [guest |-> FALSE, email |-> NoEmail]
          /\ \A v \in DOMAIN accounts : v # u /\ accounts'[v] = accounts[v]
      BY <2>2, NewAccountFacts
    <3>2. \A e \in Emails : NoEmail # e /\ Native(e) # i
      BY AccountsAssumption, SubjectFacts
    <3>3. OneOwner(accounts', identities', u)
      <4>1. accounts'[u].guest = FALSE /\ accounts'[u].email = NoEmail
        BY <3>1
      <4>2. \A j \in DOMAIN identities : identities[j] # u
        BY <1>0, <3>1
      <4>3. \A e \in Emails : accounts'[u].email = e
                                <=> Native(e) \in DOMAIN identities /\ identities[Native(e)] = u
        BY <3>2, <4>1, <4>2
      <4>4. OneOwner(accounts', With(identities, Steam(req[r].steam), u), u)
        BY <4>1, <4>3, SteamOwner
      <4> QED BY <2>2, <4>4
    <3>4. \A v \in DOMAIN accounts : OneOwner(accounts', identities', v)
      BY <1>0, <2>2, <3>1, OthersAgree
    <3> QED BY <2>2, <3>1, <3>3, <3>4, AgreeByAccountNext DEF OwnersStand, With
  <2> QED BY <1>4, <2>1, <2>2 DEF CreateFromIdentity
<1>5. ASSUME NEW r \in Reqs, AttachIdentity(r) PROVE Goal
  <2> DEFINE u == req[r].user
             i == Steam(req[r].steam)
  <2>1. CASE UNCHANGED people
    BY <1>1, <2>1 DEF people
  <2>2. CASE /\ u \in DOMAIN accounts /\ ~OwnedByAnother(i, u)
             /\ accounts' = Upgraded(u)
             /\ identities' = With(identities, i, u)
    <3>1. i \in DOMAIN identities => identities[i] = u
      BY <2>2 DEF OwnedByAnother
    <3>2. \A e : Native(e) # i
      BY SubjectFacts
    <3>3. /\ DOMAIN accounts' = DOMAIN accounts
          /\ accounts'[u].guest = FALSE /\ accounts'[u].email = accounts[u].email
          /\ \A v \in DOMAIN accounts : v # u => accounts'[v] = accounts[v]
      BY <1>0, <2>2 DEF Upgraded, Account
    <3> HIDE DEF u, i
    <3>4. OneOwner(accounts', identities', u)
      <4>1. \A e \in Emails : accounts'[u].email = e
                                <=> Native(e) \in DOMAIN identities /\ identities[Native(e)] = u
        BY <1>0, <2>2, <3>3 DEF OneOwner
      <4>2. OneOwner(accounts', With(identities, Steam(req[r].steam), u), u)
        BY <3>3, <4>1, SteamOwner
      <4> QED BY <2>2, <4>2 DEF i
    <3>5. \A v \in DOMAIN accounts : v # u => OneOwner(accounts', identities', v)
      BY <1>0, <2>2, <3>1, <3>3, OthersAgree
    <3>6. OwnersStand
      BY <2>2, <3>1 DEF OwnersStand, With
    <3> QED BY <3>3, <3>4, <3>5, <3>6, AgreeByAccountNext
  <2> QED BY <1>5, <2>1, <2>2 DEF AttachIdentity
<1>6. ASSUME NEW r \in Reqs, ClaimAccount(r) PROVE Goal
  <2> DEFINE u == req[r].user
             e == req[r].email
             i == Native(e)
  <2>1. CASE UNCHANGED people
    BY <1>1, <2>1 DEF people
  <2>2. CASE /\ Claimable(u, e)
             /\ accounts' = [accounts EXCEPT ![u] = [guest |-> FALSE, email |-> e]]
             /\ identities' = With(identities, i, u)
    <3>1. /\ u \in DOMAIN accounts /\ accounts[u].guest
          /\ i \notin DOMAIN identities
      BY <2>2 DEF Claimable, EmailFree
    <3>2. /\ DOMAIN accounts' = DOMAIN accounts
          /\ accounts'[u] = [guest |-> FALSE, email |-> e]
          /\ \A v \in DOMAIN accounts : v # u => accounts'[v] = accounts[v]
      BY <2>2, <3>1
    <3>3. \A j \in DOMAIN identities : identities[j] # u
      BY <1>0, <3>1 DEF OneOwner
    <3>a. e \in Emails
      BY <1>0, <1>6, RequestFields DEF ClaimAccount
    <3>4. OneOwner(accounts', identities', u)
      <4>1. accounts'[u].guest = FALSE /\ accounts'[u].email = e
        BY <3>2
      <4>2. OneOwner(accounts', With(identities, Native(e), u), u)
        BY <3>a, <3>3, <4>1, NativeOwner
      <4> QED BY <2>2, <4>2
    <3> HIDE DEF u, e, i
    <3>5. \A v \in DOMAIN accounts : v # u => OneOwner(accounts', identities', v)
      BY <1>0, <2>2, <3>1, <3>2, OthersAgree
    <3>6. OwnersStand
      BY <2>2, <3>1 DEF OwnersStand, With
    <3> QED BY <3>2, <3>4, <3>5, <3>6, AgreeByAccountNext
  <2> QED BY <1>6, <2>1, <2>2 DEF ClaimAccount
<1>7. ASSUME NEW S \in SUBSET DOMAIN accounts, PruneGuests(S) PROVE Goal
  <2>1. /\ accounts' = Without(accounts, S)
        /\ identities' = Without(identities, OwnedBy(identities, S))
    BY <1>7 DEF PruneGuests
  <2>2. \A v \in DOMAIN accounts \ S : OneOwner(accounts', identities', v)
    BY <1>0, <2>1 DEF OneOwner, Without, OwnedBy
  <2>3. DOMAIN accounts' = DOMAIN accounts \ S /\ OwnersStand
    BY <2>1 DEF OwnersStand, Without
  <2> QED BY <2>2, <2>3, AgreeByAccountNext
<1> HIDE DEF Goal
<1>8. ASSUME Next PROVE Goal
  <2>1. ASSUME NEW r \in Reqs,
               \/ \E u \in Ids : Login(r, u)
               \/ \E s \in SteamIds : SteamLogin(r, s) \/ \E a \in access : SteamLink(r, a, s)
               \/ \E e \in Emails, a \in access : Claim(r, a, e)
               \/ FindIdentity(r)
               \/ \E t \in Tokens :
                      CreateRefreshToken(r, t) \/ \E o \in Tokens : Rotate(r, o, t)
               \/ RereadUser(r) \/ Deliver(r) \/ Lose(r)
        PROVE  UNCHANGED <<accounts, identities>>
    BY <2>1 DEF Login, SteamLogin, SteamLink, Claim, FindIdentity, CreateRefreshToken, Rotate,
                RereadUser, Deliver, Lose, people
  <2>2. ASSUME \/ \E a \in access : Rename(a)
               \/ \E t \in Tokens : Logout(t)
               \/ PruneRefreshTokens \/ Tick
        PROVE  UNCHANGED <<accounts, identities>>
    BY <2>2 DEF Rename, Logout, PruneRefreshTokens, Tick, people
  <2> QED BY <1>1, <1>2, <1>3, <1>4, <1>5, <1>6, <1>7, <1>8, <2>1, <2>2 DEF Next
<1>9. ASSUME UNCHANGED vars PROVE Goal
  BY <1>1, <1>9 DEF vars
<1> QED BY <1>8, <1>9 DEF Goal

(* IdentitiesAgree, which AccountsSessions checks: whatever claims, links  *)
(* and logins race, an account is a guest exactly while no identity names  *)
(* it, and its email is its one native identity.                           *)
THEOREM OwnersAgree == Spec => []IdentitiesAgree
BY InitType, InitOwners, NextType, OwnersStep, PTL DEF Spec

(* IdentityKeepsOwner, which AccountsSessions checks: no link, claim or    *)
(* login takes an identity from the account that has it.                   *)
THEOREM OwnersKept == Spec => IdentityKeepsOwner
<1>1. TypeInv /\ IdentitiesAgree /\ [Next]_vars
        => [\A i \in DOMAIN identities \cap DOMAIN identities' :
              identities'[i] = identities[i]]_vars
  BY OwnersStep DEF OwnersStand
<1> QED BY <1>1, InitType, InitOwners, NextType, OwnersStep, PTL DEF Spec, IdentityKeepsOwner

-----------------------------------------------------------------------------
(* 3. What an access token says.  ClaimedTokenIsTrue is not inductive: the *)
(* handler that is about to issue a token has read what it will say, so    *)
(* that must be true too.                                                  *)

HonestToken(acc, a) == ~a.guest => a.user \in DOMAIN acc /\ ~acc[a.user].guest

HonestRequest(acc, q) ==
    /\ q.pc = "issue" /\ ~q.guest => q.user \in DOMAIN acc /\ ~acc[q.user].guest
    /\ q.pc = "answer" => HonestToken(acc, q.access)

AccessInv ==
    /\ \A a \in access : HonestToken(accounts, a)
    /\ \A r \in Reqs : HonestRequest(accounts, req[r])

(* No step takes an account that is claimed away, or makes it a guest.     *)
ClaimedStands ==
    \A u \in DOMAIN accounts :
        ~accounts[u].guest => u \in DOMAIN accounts' /\ ~accounts'[u].guest

LEMMA AccessInvImplies == AccessInv => ClaimedTokenIsTrue
BY DEF AccessInv, ClaimedTokenIsTrue, Signed, HonestToken, HonestRequest

LEMMA InitAccess == Init => AccessInv
BY DEF Init, AccessInv, HonestRequest, Idle

LEMMA ClaimedStays == TypeInv /\ [Next]_vars => ClaimedStands
<1> SUFFICES ASSUME TypeInv, [Next]_vars PROVE ClaimedStands
  OBVIOUS
<1>1. ASSUME UNCHANGED accounts PROVE ClaimedStands
  BY <1>1 DEF ClaimedStands
<1>2. ASSUME NEW u \in Ids, NEW g \in BOOLEAN, NEW e \in Emails \cup {NoEmail},
             NewAccount(u, g, e)
      PROVE  ClaimedStands
  BY <1>2, NewAccountFacts DEF ClaimedStands
<1>3. ASSUME NEW r \in Reqs, AttachIdentity(r) PROVE ClaimedStands
  <2>1. CASE UNCHANGED people
    BY <1>1, <2>1 DEF people
  <2>2. CASE accounts' = Upgraded(req[r].user)
    <3>1. \A u \in DOMAIN accounts : accounts[u] \in Account
      BY DEF TypeInv, PeopleType
    <3> QED BY <2>2, <3>1 DEF Upgraded, ClaimedStands, Account
  <2> QED BY <1>3, <2>1, <2>2 DEF AttachIdentity
<1>4. ASSUME NEW r \in Reqs, ClaimAccount(r) PROVE ClaimedStands
  BY <1>4 DEF ClaimAccount, people, ClaimedStands, Claimable
<1>5. ASSUME NEW S \in SUBSET DOMAIN accounts, PruneGuests(S) PROVE ClaimedStands
  BY <1>5 DEF PruneGuests, Prunable, Without, ClaimedStands
<1>6. ASSUME Next PROVE ClaimedStands
  <2>1. ASSUME NEW r \in Reqs,
               \/ \E u \in Ids : Login(r, u)
               \/ \E s \in SteamIds : SteamLogin(r, s) \/ \E a \in access : SteamLink(r, a, s)
               \/ \E e \in Emails, a \in access : Claim(r, a, e)
               \/ FindIdentity(r)
               \/ \E t \in Tokens :
                      CreateRefreshToken(r, t) \/ \E o \in Tokens : Rotate(r, o, t)
               \/ RereadUser(r) \/ Deliver(r) \/ Lose(r)
        PROVE  UNCHANGED accounts
    BY <2>1 DEF Login, SteamLogin, SteamLink, Claim, FindIdentity, CreateRefreshToken, Rotate,
                RereadUser, Deliver, Lose, people
  <2>2. ASSUME \/ \E a \in access : Rename(a)
               \/ \E t \in Tokens : Logout(t)
               \/ PruneRefreshTokens \/ Tick
        PROVE  UNCHANGED accounts
    BY <2>2 DEF Rename, Logout, PruneRefreshTokens, Tick, people
  <2>3. ASSUME NEW r \in Reqs, NEW u \in Ids,
               \/ GuestLogin(r, u) \/ CreateFromIdentity(r, u)
               \/ \E e \in Emails : Register(r, u, e)
        PROVE  ClaimedStands
    BY <1>1, <1>2, <2>3 DEF GuestLogin, CreateFromIdentity, Register, people
  <2> QED BY <1>1, <1>3, <1>4, <1>5, <1>6, <2>1, <2>2, <2>3 DEF Next
<1> QED BY <1>1, <1>6 DEF vars

(* A token and a request stay honest while claimed accounts stand.         *)
LEMMA HonestStays ==
    ASSUME ClaimedStands
    PROVE  /\ \A a : HonestToken(accounts, a) => HonestToken(accounts', a)
           /\ \A q : HonestRequest(accounts, q) => HonestRequest(accounts', q)
BY DEF ClaimedStands, HonestToken, HonestRequest

LEMMA HonestGoto ==
    ASSUME TypeInv, AccessInv, ClaimedStands, NEW r \in Reqs, NEW q, Goto(r, q),
           HonestRequest(accounts', q),
           \A a \in access' : a \in access \/ HonestToken(accounts', a)
    PROVE  AccessInv'
<1>1. \A p \in Reqs : req'[p] = q \/ req'[p] = req[p]
  BY DEF Goto, TypeInv, RequestType
<1> QED BY <1>1, HonestStays DEF AccessInv

(* A token made of what the accounts say now is honest.                    *)
LEMMA TokenIsHonest ==
    ASSUME NEW acc, NEW u, NEW g, NEW x, NEW exp, ~g => u \in DOMAIN acc /\ ~acc[u].guest
    PROVE  HonestToken(acc, AccessToken(u, g, x, exp))
BY DEF HonestToken, AccessToken

LEMMA NextAccess == TypeInv /\ AccessInv /\ [Next]_vars => AccessInv'
<1> SUFFICES ASSUME TypeInv, AccessInv, [Next]_vars PROVE AccessInv'
  OBVIOUS
<1>0. /\ ClaimedStands
      /\ \A r \in Reqs : req[r] \in Request /\ HonestRequest(accounts, req[r])
      /\ \A i \in DOMAIN identities : identities[i] \in DOMAIN accounts
  BY ClaimedStays DEF TypeInv, RequestType, PeopleType, AccessInv
<1>1. ASSUME UNCHANGED <<access, req>> PROVE AccessInv'
  BY <1>0, <1>1, HonestStays DEF AccessInv
<1>2. ASSUME NEW r \in Reqs, NEW q, q.pc \notin {"issue", "answer"}, Goto(r, q),
             UNCHANGED access
      PROVE  AccessInv'
  BY <1>0, <1>2, HonestGoto DEF HonestRequest
<1>3. ASSUME NEW r \in Reqs, NEW u, NEW g, Goto(r, Issuing(u, g)), UNCHANGED access,
             ~g => u \in DOMAIN accounts' /\ ~accounts'[u].guest
      PROVE  AccessInv'
  <2>1. HonestRequest(accounts', Issuing(u, g))
    BY <1>3 DEF HonestRequest, Issuing
  <2> QED BY <1>0, <1>3, <2>1, HonestGoto
<1>4. Idle.pc = "idle"
  BY DEF Idle
<1>5. ASSUME NEW r \in Reqs, NEW u \in Ids, GuestLogin(r, u) PROVE AccessInv'
  BY <1>3, <1>5 DEF GuestLogin, sessions
<1>6. ASSUME NEW r \in Reqs, NEW u \in Ids, NEW e \in Emails, Register(r, u, e)
      PROVE  AccessInv'
  <2>1. accounts'[u].guest = FALSE /\ u \in DOMAIN accounts'
    <3>1. NewAccount(u, FALSE, e)
      BY <1>6 DEF Register
    <3>2. /\ accounts'[u] = [guest |-> FALSE, email |-> e]
          /\ DOMAIN accounts' = DOMAIN accounts \cup {u}
      BY <3>1, NewAccountFacts
    <3> QED BY <3>2
  <2> QED BY <1>3, <1>6, <2>1 DEF Register, sessions
<1>7. ASSUME NEW r \in Reqs, NEW u \in Ids, Login(r, u) PROVE AccessInv'
  <2>1. accounts' = accounts
    BY <1>7 DEF Login, people
  <2> QED BY <1>3, <1>7, <2>1 DEF Login, sessions
<1>8. ASSUME NEW r \in Reqs, FindIdentity(r) PROVE AccessInv'
  <2> DEFINE i == Steam(req[r].steam)
             u == identities[i]
  <2>1. accounts' = accounts /\ access' = access
    BY <1>8 DEF FindIdentity, people, sessions
  <2>2. CASE i \in DOMAIN identities
    <3>1. Goto(r, Issuing(u, accounts[u].guest)) /\ u \in DOMAIN accounts
      BY <1>0, <1>8, <2>2 DEF FindIdentity
    <3> QED BY <1>3, <2>1, <3>1
  <2>3. CASE i \notin DOMAIN identities
    <3>1. PICK q \in Request : req[r] = q
      BY <1>0
    <3>2. q = [pc |-> "find", steam |-> q.steam]
      BY <1>8, <3>1, RequestFields DEF FindIdentity
    <3>3. [q EXCEPT !.pc = "create"].pc = "create"
      BY <3>2
    <3>4. Goto(r, [q EXCEPT !.pc = "create"])
      BY <1>8, <2>3, <3>1 DEF FindIdentity
    <3> QED BY <1>2, <2>1, <3>3, <3>4
  <2> QED BY <2>2, <2>3
<1>9. ASSUME NEW r \in Reqs, NEW u \in Ids, CreateFromIdentity(r, u) PROVE AccessInv'
  <2>1. access' = access
    BY <1>9 DEF CreateFromIdentity, sessions
  <2>2. CASE Goto(r, [req[r] EXCEPT !.pc = "find"])
    <3>1. PICK q \in Request : req[r] = q
      BY <1>0
    <3>2. q = [pc |-> "create", steam |-> q.steam]
      BY <1>9, <3>1, RequestFields DEF CreateFromIdentity
    <3>3. [q EXCEPT !.pc = "find"].pc = "find"
      BY <3>2
    <3> QED BY <1>2, <2>1, <2>2, <3>1, <3>3
  <2>3. CASE NewAccount(u, FALSE, NoEmail) /\ Goto(r, Issuing(u, FALSE))
    <3>1. accounts'[u].guest = FALSE /\ u \in DOMAIN accounts'
      <4>1. /\ accounts'[u] = [guest |-> FALSE, email |-> NoEmail]
            /\ DOMAIN accounts' = DOMAIN accounts \cup {u}
        BY <2>3, NewAccountFacts
      <4> QED BY <4>1
    <3> QED BY <1>3, <2>1, <2>3, <3>1
  <2> QED BY <1>9, <2>2, <2>3 DEF CreateFromIdentity
<1>10. ASSUME NEW r \in Reqs, AttachIdentity(r) PROVE AccessInv'
  <2> DEFINE u == req[r].user
  <2>1. access' = access
    BY <1>10 DEF AttachIdentity, sessions
  <2>2. CASE Refuse(r)
    BY <1>2, <1>4, <2>1, <2>2 DEF Refuse
  <2>3. CASE u \in DOMAIN accounts /\ accounts' = Upgraded(u) /\ Goto(r, Issuing(u, FALSE))
    <3>1. u \in DOMAIN accounts' /\ ~accounts'[u].guest
      BY <2>3 DEF Upgraded, TypeInv, PeopleType, Account
    <3> QED BY <1>3, <2>1, <2>3, <3>1
  <2> QED BY <1>10, <2>2, <2>3 DEF AttachIdentity
<1>11. ASSUME NEW r \in Reqs, ClaimAccount(r) PROVE AccessInv'
  <2> DEFINE u == req[r].user
             e == req[r].email
  <2>1. access' = access
    BY <1>11 DEF ClaimAccount, sessions
  <2>2. CASE Refuse(r)
    BY <1>2, <1>4, <2>1, <2>2 DEF Refuse
  <2>3. CASE /\ u \in DOMAIN accounts /\ Goto(r, Issuing(u, FALSE))
             /\ accounts' = [accounts EXCEPT ![u] = [guest |-> FALSE, email |-> e]]
    <3>1. u \in DOMAIN accounts' /\ ~accounts'[u].guest
      BY <2>3
    <3> QED BY <1>3, <2>1, <2>3, <3>1
  <2> QED BY <1>11, <2>2, <2>3 DEF ClaimAccount, Claimable
<1>12. ASSUME NEW r \in Reqs,
              \/ \E s \in SteamIds : SteamLogin(r, s) \/ \E a \in access : SteamLink(r, a, s)
              \/ \E e \in Emails, a \in access : Claim(r, a, e)
              \/ \E t, o \in Tokens : Rotate(r, o, t)
              \/ Lose(r)
       PROVE  AccessInv'
  <2>1. access' = access
    BY <1>12 DEF SteamLogin, SteamLink, Claim, Rotate, Lose, sessions
  <2>2. PICK q : Goto(r, q) /\ q.pc \notin {"issue", "answer"}
    <3>1. CASE \E s \in SteamIds : SteamLogin(r, s) \/ \E a \in access : SteamLink(r, a, s)
      <4>1. CASE \E s \in SteamIds : SteamLogin(r, s)
        BY <4>1 DEF SteamLogin
      <4>2. CASE \E s \in SteamIds, a \in access : SteamLink(r, a, s)
        BY <4>2 DEF SteamLink
      <4> QED BY <3>1, <4>1, <4>2
    <3>2. CASE \E e \in Emails, a \in access : Claim(r, a, e)
      BY <1>4, <3>2 DEF Claim
    <3>3. CASE \E t, o \in Tokens : Rotate(r, o, t)
      BY <3>3 DEF Rotate
    <3>4. CASE Lose(r)
      BY <1>4, <3>4 DEF Lose, Refuse
    <3> QED BY <1>12, <3>1, <3>2, <3>3, <3>4
  <2> QED BY <1>2, <2>1, <2>2
<1>13. ASSUME NEW r \in Reqs, NEW t \in Tokens, CreateRefreshToken(r, t) PROVE AccessInv'
  <2> DEFINE u == req[r].user
             g == req[r].guest
             a == AccessToken(u, g, t, req[r].exp)
             next == [pc |-> "answer", token |-> t, access |-> a]
  <2>1. accounts' = accounts /\ access' = access /\ req[r].pc = "issue"
    BY <1>13 DEF CreateRefreshToken, people
  <2>2. CASE Refuse(r)
    BY <1>2, <1>4, <2>1, <2>2 DEF Refuse
  <2>3. CASE Goto(r, next)
    <3>1. ~g => u \in DOMAIN accounts /\ ~accounts[u].guest
      BY <1>0, <2>1 DEF HonestRequest
    <3>2. HonestToken(accounts, a)
      BY <3>1, TokenIsHonest
    <3>3. HonestRequest(accounts', next)
      BY <2>1, <3>2 DEF HonestRequest
    <3> QED BY <1>0, <2>1, <2>3, <3>3, HonestGoto
  <2> QED BY <1>13, <2>2, <2>3 DEF CreateRefreshToken
<1>14. ASSUME NEW r \in Reqs, RereadUser(r) PROVE AccessInv'
  <2> DEFINE u == req[r].user
             a == Fresh(u, accounts[u].guest, req[r].session)
             next == [pc |-> "answer", token |-> req[r].token, access |-> a]
  <2>1. accounts' = accounts /\ access' = access
    BY <1>14 DEF RereadUser, people, sessions
  <2>2. CASE u \notin DOMAIN accounts
    BY <1>2, <1>4, <1>14, <2>1, <2>2 DEF RereadUser
  <2>3. CASE u \in DOMAIN accounts
    <3>1. HonestToken(accounts, a)
      BY <2>3 DEF HonestToken, Fresh, AccessToken
    <3>2. HonestRequest(accounts', next)
      BY <2>1, <3>1 DEF HonestRequest
    <3>3. Goto(r, next)
      BY <1>14, <2>3 DEF RereadUser
    <3> QED BY <1>0, <2>1, <3>2, <3>3, HonestGoto
  <2> QED BY <2>2, <2>3
<1>15. ASSUME NEW r \in Reqs, Deliver(r) PROVE AccessInv'
  <2>1. /\ HonestToken(accounts, req[r].access) /\ accounts' = accounts
        /\ access' = access \cup {req[r].access} /\ Goto(r, Idle)
    BY <1>0, <1>15 DEF Deliver, HonestRequest, people, Refuse
  <2>2. HonestRequest(accounts', Idle)
    BY <1>4 DEF HonestRequest
  <2> QED BY <1>0, <2>1, <2>2, HonestGoto
<1>16. ASSUME NEW a \in access, Rename(a) PROVE AccessInv'
  <2>1. /\ a.user \in DOMAIN accounts /\ UNCHANGED <<accounts, req>>
        /\ access' = access \cup {Renewed(a)}
    BY <1>16 DEF Rename, people
  <2>2. HonestToken(accounts, Renewed(a))
    BY <2>1 DEF AccessInv, HonestToken, Renewed, AccessToken
  <2> QED BY <2>1, <2>2 DEF AccessInv
<1>17. ASSUME \/ \E t \in Tokens : Logout(t)
              \/ \E S \in SUBSET DOMAIN accounts : PruneGuests(S)
              \/ PruneRefreshTokens \/ Tick \/ UNCHANGED vars
       PROVE  AccessInv'
  BY <1>1, <1>17 DEF Logout, PruneGuests, PruneRefreshTokens, Tick, sessions, vars
<1> QED BY <1>5, <1>6, <1>7, <1>8, <1>9, <1>10, <1>11, <1>12, <1>13, <1>14, <1>15, <1>16,
           <1>17 DEF Next

-----------------------------------------------------------------------------
(* 4. Sessions.  A session bears the name of the token it began with,      *)
(* which is never issued again, so SessionsAreChains is inductive with the *)
(* types.                                                                  *)

LEMMA InitSessions == Init => SessionsAreChains
BY DEF Init, SessionsAreChains, OneTokenPerSession, LogoutIsFinal

(* Removing refresh tokens harms no session.                               *)
LEMMA FewerTokens ==
    ASSUME SessionsAreChains, NEW S, refresh' = Without(refresh, S), ended' = ended
    PROVE  SessionsAreChains'
BY DEF SessionsAreChains, OneTokenPerSession, LogoutIsFinal, Without

(* What a new refresh token, a rotation and a logout do to the rows.       *)
Created(t) ==
    /\ t \notin issued /\ issued' = issued \cup {t} /\ ended' = ended
    /\ DOMAIN refresh' = DOMAIN refresh \cup {t} /\ refresh'[t].session = t
    /\ \A x \in DOMAIN refresh : x # t /\ refresh'[x] = refresh[x]

Succeeded(old, new) ==
    /\ old \in DOMAIN refresh /\ old \in delivered /\ new \notin issued
    /\ issued' = issued \cup {new} /\ ended' = ended
    /\ DOMAIN refresh' = (DOMAIN refresh \ {old}) \cup {new}
    /\ refresh'[new].session = refresh[old].session
    /\ \A x \in DOMAIN refresh \ {old} : x # new /\ refresh'[x] = refresh[x]

LoggedOut(t) ==
    /\ t \in DOMAIN refresh /\ t \in delivered /\ issued' = issued
    /\ DOMAIN refresh' = DOMAIN refresh \ {t}
    /\ \A x \in DOMAIN refresh' : refresh'[x] = refresh[x]
    /\ DOMAIN ended' = DOMAIN ended \cup {refresh[t].session}
    /\ ended'[refresh[t].session] = time
    /\ \A x \in DOMAIN ended \ {refresh[t].session} : ended'[x] = ended[x]

LEMMA CreateEffect ==
    ASSUME TypeInv, NEW r \in Reqs, NEW t \in Tokens, CreateRefreshToken(r, t)
    PROVE  UNCHANGED <<refresh, issued, ended>> \/ Created(t)
BY DEF CreateRefreshToken, TypeInv, RefreshType, With, Created

LEMMA RotateEffect ==
    ASSUME TypeInv, NEW r \in Reqs, NEW old \in Tokens, NEW new \in Tokens,
           Rotate(r, old, new)
    PROVE  Succeeded(old, new)
<1>1. /\ old \in DOMAIN refresh /\ old \in delivered /\ new \notin issued
      /\ issued' = issued \cup {new} /\ ended' = ended
      /\ refresh' = With(Without(refresh, {old}), new, Successor(old))
  BY DEF Rotate, Rotated
<1>2. Successor(old).session = refresh[old].session /\ DOMAIN refresh \subseteq issued
  BY <1>1 DEF Successor, TypeInv, RefreshType, RefreshRow
<1> QED BY <1>1, <1>2 DEF With, Without, Succeeded

(* A logout with a token that has no row changes nothing.                  *)
LEMMA LogoutEffect ==
    ASSUME NEW t \in Tokens, Logout(t)
    PROVE  \/ LoggedOut(t)
           \/ /\ DOMAIN refresh' = DOMAIN refresh /\ ended' = ended
              /\ \A x \in DOMAIN refresh : refresh'[x] = refresh[x]
<1>1. refresh' = Without(refresh, {t}) /\ t \in delivered /\ issued' = issued
  BY DEF Logout
<1>2. CASE t \in DOMAIN refresh
  BY <1>1, <1>2 DEF Logout, Without, With, LoggedOut
<1>3. CASE t \notin DOMAIN refresh
  BY <1>1, <1>3 DEF Logout, Without
<1> QED BY <1>2, <1>3

LEMMA NextSessions == TypeInv /\ SessionsAreChains /\ [Next]_vars => SessionsAreChains'
<1> SUFFICES ASSUME TypeInv, SessionsAreChains, [Next]_vars PROVE SessionsAreChains'
  OBVIOUS
<1>0. /\ \A t \in DOMAIN refresh : t \in issued /\ refresh[t].session \in issued
      /\ \A t \in DOMAIN refresh : refresh[t].session \notin DOMAIN ended
      /\ DOMAIN ended \subseteq issued
      /\ \A t, u \in DOMAIN refresh : refresh[t].session = refresh[u].session => t = u
  BY DEF TypeInv, RefreshType, ClientType, SessionsAreChains, OneTokenPerSession, LogoutIsFinal
<1>1. ASSUME UNCHANGED <<refresh, ended>> PROVE SessionsAreChains'
  BY <1>1 DEF SessionsAreChains, OneTokenPerSession, LogoutIsFinal
<1>2. ASSUME NEW r \in Reqs, NEW t \in Tokens, CreateRefreshToken(r, t)
      PROVE  SessionsAreChains'
  <2>1. CASE Created(t)
    BY <1>0, <2>1 DEF Created, SessionsAreChains, OneTokenPerSession, LogoutIsFinal
  <2> QED BY <1>1, <1>2, <2>1, CreateEffect
<1>3. ASSUME NEW r \in Reqs, NEW old \in Tokens, NEW new \in Tokens, Rotate(r, old, new)
      PROVE  SessionsAreChains'
  <2>1. Succeeded(old, new)
    BY <1>3, RotateEffect
  <2> QED BY <1>0, <2>1 DEF Succeeded, SessionsAreChains, OneTokenPerSession, LogoutIsFinal
<1>4. ASSUME NEW t \in Tokens, Logout(t) PROVE SessionsAreChains'
  <2>1. CASE LoggedOut(t)
    BY <1>0, <2>1 DEF LoggedOut, SessionsAreChains, OneTokenPerSession, LogoutIsFinal
  <2>2. CASE /\ DOMAIN refresh' = DOMAIN refresh /\ ended' = ended
             /\ \A x \in DOMAIN refresh : refresh'[x] = refresh[x]
    BY <1>0, <2>2 DEF SessionsAreChains, OneTokenPerSession, LogoutIsFinal
  <2> QED BY <1>4, <2>1, <2>2, LogoutEffect
<1>5. ASSUME NEW S \in SUBSET DOMAIN accounts, PruneGuests(S) PROVE SessionsAreChains'
  BY <1>5, FewerTokens DEF PruneGuests, TokensKept
<1>6. ASSUME PruneRefreshTokens PROVE SessionsAreChains'
  BY <1>6, FewerTokens DEF PruneRefreshTokens
<1>7. ASSUME NEW r \in Reqs,
             \/ \E u \in Ids : \/ GuestLogin(r, u) \/ Login(r, u) \/ CreateFromIdentity(r, u)
                               \/ \E e \in Emails : Register(r, u, e)
             \/ \E s \in SteamIds : SteamLogin(r, s) \/ \E a \in access : SteamLink(r, a, s)
             \/ \E e \in Emails, a \in access : Claim(r, a, e)
             \/ FindIdentity(r) \/ AttachIdentity(r) \/ ClaimAccount(r)
             \/ RereadUser(r) \/ Deliver(r) \/ Lose(r)
      PROVE  UNCHANGED <<refresh, ended>>
  BY <1>7 DEF GuestLogin, Login, CreateFromIdentity, Register, SteamLogin, SteamLink, Claim,
              FindIdentity, AttachIdentity, ClaimAccount, RereadUser, Deliver, Lose, sessions
<1>8. ASSUME (\E a \in access : Rename(a)) \/ Tick \/ UNCHANGED vars
      PROVE  UNCHANGED <<refresh, ended>>
  BY <1>8 DEF Rename, Tick, sessions, vars
<1> QED BY <1>1, <1>2, <1>3, <1>4, <1>5, <1>6, <1>7, <1>8 DEF Next

(* SessionsAreChains, which AccountsSessions checks: of two requests with  *)
(* the same refresh token one wins, and a session whose live token was     *)
(* presented to a logout has no token again, rotations in flight or not.   *)
THEOREM SessionsChain == Spec => []SessionsAreChains
BY InitType, InitSessions, NextType, NextSessions, PTL DEF Spec

-----------------------------------------------------------------------------
(* 5. What a session can still do once it has ended.  A token is signed    *)
(* for a session by the request that opened it or by a refresh, and while  *)
(* a refresh is in flight the session has no other live token: its new     *)
(* token is not with any client yet, so no logout can end the session.     *)

InFlight == {r \in Reqs : req[r].pc \in {"reread", "answer"}}

DeadlinesNear ==
    /\ \A a \in access : a.exp <= time + AccessTTL
    /\ \A r \in Reqs : req[r].pc = "answer" => req[r].access.exp <= time + AccessTTL
    /\ \A r \in Reqs : req[r].pc = "issue" => req[r].exp <= time + AccessTTL

NotDelivered ==
    /\ \A r \in InFlight : req[r].token \notin delivered
    /\ \A r, s \in InFlight : r # s => req[r].token # req[s].token

SessionsOpen ==
    \A r \in Reqs : req[r].pc = "reread" =>
        /\ req[r].session \notin DOMAIN ended
        /\ \A t \in DOMAIN refresh : refresh[t].session = req[r].session => t = req[r].token

Timely(a) == a.session \in DOMAIN ended => a.exp <= ended[a.session] + AccessTTL

TokensTimely ==
    /\ \A a \in access : Timely(a)
    /\ \A r \in Reqs : req[r].pc = "answer" => Timely(req[r].access)

BoundInv == DeadlinesNear /\ NotDelivered /\ SessionsOpen /\ TokensTimely

LEMMA BoundImplies == BoundInv => LogoutBoundsAccess
BY DEF BoundInv, TokensTimely, Timely, LogoutBoundsAccess, Signed

LEMMA InitBound == Init => BoundInv
BY DEF Init, BoundInv, DeadlinesNear, NotDelivered, SessionsOpen, TokensTimely, InFlight, Idle

(* What the requests of an invariant state carry.                          *)
LEMMA RequestNumbers ==
    ASSUME TypeInv
    PROVE  /\ time \in Int /\ AccessTTL \in Int
           /\ \A a \in access : a.exp \in Int
           /\ \A r \in Reqs : req[r].pc = "answer" => req[r].access.exp \in Int
           /\ \A r \in Reqs : req[r].pc = "issue" => req[r].exp \in Int
           /\ \A r \in InFlight : req[r].token \in issued
           /\ \A r \in Reqs : req[r].pc = "reread" => req[r].session \in issued
<1>1. \A r \in Reqs : req[r] \in Request
  BY DEF TypeInv, RequestType
<1>2. \A r \in Reqs : /\ req[r].pc = "answer" => req[r].access \in Access
                      /\ req[r].pc = "issue" => req[r].exp \in Int
  BY <1>1, RequestFields
<1> QED BY <1>2, AccountsAssumption DEF TypeInv, ClientType, RequestType, InFlight, Access

LEMMA GotoEffect ==
    ASSUME TypeInv, NEW r \in Reqs, NEW q, Goto(r, q)
    PROVE  req'[r] = q /\ \A p \in Reqs \ {r} : req'[p] = req[p]
BY DEF Goto, TypeInv, RequestType

(* A handler goes on to a phase that carries no token.                     *)
LEMMA SilentMove ==
    ASSUME TypeInv, BoundInv, NEW r \in Reqs, NEW q, q.pc \notin {"reread", "answer"},
           q.pc = "issue" => q.exp <= time + AccessTTL, Goto(r, q),
           UNCHANGED <<time, sessions>>
    PROVE  BoundInv'
<1>1. req'[r] = q /\ \A p \in Reqs \ {r} : req'[p] = req[p]
  BY GotoEffect
<1>2. InFlight' \subseteq InFlight /\ \A p \in InFlight' : req'[p] = req[p]
  BY <1>1 DEF InFlight
<1>3. UNCHANGED <<time, refresh, access, delivered, ended>>
  BY DEF sessions
<1>4. DeadlinesNear'
  BY <1>1, <1>3 DEF BoundInv, DeadlinesNear
<1>5. NotDelivered'
  BY <1>2, <1>3 DEF BoundInv, NotDelivered
<1>6. SessionsOpen'
  BY <1>1, <1>3 DEF BoundInv, SessionsOpen
<1>7. TokensTimely'
  BY <1>1, <1>3 DEF BoundInv, TokensTimely, Timely
<1> QED BY <1>4, <1>5, <1>6, <1>7 DEF BoundInv

(* Which those handlers are.                                               *)
LEMMA SilentSteps ==
    ASSUME TypeInv, NEW r \in Reqs,
           \/ \E u \in Ids : \/ GuestLogin(r, u) \/ Login(r, u) \/ CreateFromIdentity(r, u)
                             \/ \E e \in Emails : Register(r, u, e)
           \/ \E s \in SteamIds : SteamLogin(r, s) \/ \E a \in access : SteamLink(r, a, s)
           \/ \E e \in Emails, a \in access : Claim(r, a, e)
           \/ FindIdentity(r) \/ AttachIdentity(r) \/ ClaimAccount(r) \/ Lose(r)
    PROVE  /\ UNCHANGED <<time, sessions>>
           /\ \E q : /\ Goto(r, q) /\ q.pc \notin {"reread", "answer"}
                     /\ q.pc = "issue" => q.exp <= time + AccessTTL
<1> DEFINE Goal == \E q : /\ Goto(r, q) /\ q.pc \notin {"reread", "answer"}
                          /\ q.pc = "issue" => q.exp <= time + AccessTTL
<1>1. UNCHANGED <<time, sessions>>
  BY DEF GuestLogin, Login, CreateFromIdentity, Register, SteamLogin, SteamLink, Claim,
         FindIdentity, AttachIdentity, ClaimAccount, Lose
<1>2. ASSUME NEW u, NEW g, Goto(r, Issuing(u, g)) PROVE Goal
  <2>1. Issuing(u, g).pc = "issue" /\ Issuing(u, g).exp <= time + AccessTTL
    BY RequestNumbers DEF Issuing
  <2> QED BY <1>2, <2>1
<1>3. ASSUME Refuse(r) PROVE Goal
  BY <1>3 DEF Refuse, Idle
<1>4. req[r].pc \in {"find", "create"} =>
         \A p : [req[r] EXCEPT !.pc = p].pc = p
  <2>1. PICK q \in Request : req[r] = q
    BY DEF TypeInv, RequestType
  <2>2. q.pc \in {"find", "create"} => q = [pc |-> q.pc, steam |-> q.steam]
    BY <2>1, RequestFields
  <2> QED BY <2>1, <2>2
<1>5. ASSUME NEW u \in Ids, \/ GuestLogin(r, u) \/ Login(r, u) \/ CreateFromIdentity(r, u)
                            \/ \E e \in Emails : Register(r, u, e)
      PROVE  Goal
  <2>1. CASE CreateFromIdentity(r, u)
    <3>1. CASE Goto(r, [req[r] EXCEPT !.pc = "find"])
      BY <1>4, <2>1, <3>1 DEF CreateFromIdentity
    <3>2. CASE Goto(r, Issuing(u, FALSE))
      BY <1>2, <3>2
    <3> QED BY <2>1, <3>1, <3>2 DEF CreateFromIdentity
  <2>2. CASE GuestLogin(r, u) \/ Login(r, u) \/ \E e \in Emails : Register(r, u, e)
    BY <1>2, <2>2 DEF GuestLogin, Login, Register
  <2> QED BY <1>5, <2>1, <2>2
<1>6. ASSUME NEW s \in SteamIds, SteamLogin(r, s) \/ \E a \in access : SteamLink(r, a, s)
      PROVE  Goal
  <2>1. CASE SteamLogin(r, s)
    BY <2>1 DEF SteamLogin
  <2>2. ASSUME NEW a \in access, SteamLink(r, a, s) PROVE Goal
    BY <2>2 DEF SteamLink
  <2> QED BY <1>6, <2>1, <2>2
<1>7. ASSUME NEW e \in Emails, NEW a \in access, Claim(r, a, e) PROVE Goal
  <2>1. CASE Goto(r, Idle)
    BY <1>3, <2>1 DEF Refuse
  <2>2. CASE Goto(r, [pc |-> "claim", user |-> a.user, email |-> e])
    BY <2>2
  <2> QED BY <1>7, <2>1, <2>2 DEF Claim
<1>8. ASSUME FindIdentity(r) PROVE Goal
  <2>1. CASE Goto(r, [req[r] EXCEPT !.pc = "create"])
    BY <1>4, <1>8, <2>1 DEF FindIdentity
  <2>2. ASSUME ~Goto(r, [req[r] EXCEPT !.pc = "create"]) PROVE Goal
    BY <1>2, <1>8, <2>2 DEF FindIdentity
  <2> QED BY <2>1, <2>2
<1>9. ASSUME AttachIdentity(r) \/ ClaimAccount(r) PROVE Goal
  BY <1>2, <1>3, <1>9 DEF AttachIdentity, ClaimAccount
<1>10. ASSUME Lose(r) PROVE Goal
  BY <1>3, <1>10 DEF Lose
<1> QED BY <1>1, <1>5, <1>6, <1>7, <1>8, <1>9, <1>10

(* A refresh token is created: nobody has its session yet.                 *)
LEMMA CreateBound ==
    ASSUME TypeInv, BoundInv, NEW r \in Reqs, NEW t \in Tokens, CreateRefreshToken(r, t)
    PROVE  BoundInv'
<1> DEFINE a == AccessToken(req[r].user, req[r].guest, t, req[r].exp)
           q == [pc |-> "answer", token |-> t, access |-> a]
<1>1. CASE Refuse(r) /\ UNCHANGED <<refresh, issued>>
  <2>1. UNCHANGED <<time, sessions>> /\ Goto(r, Idle) /\ Idle.pc = "idle"
    BY <1>1 DEF CreateRefreshToken, sessions, Refuse, Idle
  <2> QED BY <2>1, SilentMove
<1>2. CASE Goto(r, q) /\ Created(t)
  <2>1. /\ req[r].pc = "issue" /\ UNCHANGED <<time, access, delivered>>
        /\ a.session = t /\ a.exp = req[r].exp /\ q.pc = "answer" /\ q.token = t /\ q.access = a
    BY DEF CreateRefreshToken, AccessToken
  <2> HIDE DEF a, q
  <2>2. req'[r] = q /\ \A p \in Reqs \ {r} : req'[p] = req[p]
    BY <1>2, GotoEffect
  <2>3. t \notin issued /\ delivered \subseteq issued /\ DOMAIN ended \subseteq issued
        /\ ended' = ended
    BY <1>2 DEF Created, TypeInv, ClientType
  <2>4. InFlight' \subseteq InFlight \cup {r} /\ \A p \in InFlight \ {r} : req[p].token # t
    BY <2>2, <2>3, RequestNumbers DEF InFlight
  <2>5. DeadlinesNear'
    BY <2>1, <2>2 DEF BoundInv, DeadlinesNear
  <2>6. NotDelivered'
    <3>1. /\ \A p \in InFlight' \ {r} : p \in InFlight /\ req'[p] = req[p]
          /\ \A p \in InFlight' \ {r} : req'[p].token # t /\ p \in Reqs
          /\ req'[r].token = t
      BY <2>1, <2>2, <2>4 DEF InFlight
    <3>2. \A p \in InFlight' : req'[p].token \notin delivered'
      BY <2>1, <2>3, <3>1 DEF BoundInv, NotDelivered
    <3>3. \A p, o \in InFlight' : p # o => req'[p].token # req'[o].token
      BY <3>1 DEF BoundInv, NotDelivered
    <3> QED BY <3>2, <3>3 DEF NotDelivered
  <2>7. SessionsOpen'
    BY <1>2, <2>1, <2>2, <2>3, RequestNumbers DEF BoundInv, SessionsOpen, Created
  <2>8. TokensTimely'
    BY <2>1, <2>2, <2>3 DEF BoundInv, TokensTimely, Timely
  <2> QED BY <2>5, <2>6, <2>7, <2>8 DEF BoundInv
<1> QED BY <1>1, <1>2, CreateEffect DEF CreateRefreshToken, Created

(* A refresh: the session of the token presented has no other in flight.   *)
LEMMA RotateBound ==
    ASSUME TypeInv, SessionsAreChains, BoundInv, NEW r \in Reqs, NEW old \in Tokens,
           NEW new \in Tokens, Rotate(r, old, new)
    PROVE  BoundInv'
<1> DEFINE x == refresh[old].session
           q == [pc |-> "reread", user |-> refresh[old].user, token |-> new, session |-> x]
<1>1. /\ Goto(r, q) /\ UNCHANGED <<time, access, delivered>>
      /\ q.pc = "reread" /\ q.token = new /\ q.session = x
  BY DEF Rotate
<1>2. Succeeded(old, new)
  BY RotateEffect
<1> HIDE DEF q
<1>3. req'[r] = q /\ \A p \in Reqs \ {r} : req'[p] = req[p]
  BY <1>1, GotoEffect
<1>4. /\ old \in DOMAIN refresh /\ old \in delivered /\ new \notin issued
      /\ delivered \subseteq issued /\ ended' = ended /\ x \notin DOMAIN ended
  BY <1>2 DEF Succeeded, TypeInv, ClientType, SessionsAreChains, LogoutIsFinal
<1>5. InFlight' \subseteq InFlight \cup {r} /\ \A p \in InFlight \ {r} : req[p].token # new
  BY <1>3, <1>4, RequestNumbers DEF InFlight
<1>6. DeadlinesNear'
  BY <1>1, <1>3 DEF BoundInv, DeadlinesNear
<1>7. NotDelivered'
  <2>1. /\ \A p \in InFlight' \ {r} : p \in InFlight /\ req'[p] = req[p]
        /\ \A p \in InFlight' \ {r} : req'[p].token # new
        /\ req'[r].token = new
    BY <1>1, <1>3, <1>5 DEF InFlight
  <2>2. \A p \in InFlight' : req'[p].token \notin delivered'
    BY <1>1, <1>4, <2>1 DEF BoundInv, NotDelivered
  <2>3. \A p, o \in InFlight' : p # o => req'[p].token # req'[o].token
    BY <2>1 DEF BoundInv, NotDelivered
  <2> QED BY <2>2, <2>3 DEF NotDelivered
<1>8. SessionsOpen'
  <2>1. ASSUME NEW p \in Reqs \ {r}, req[p].pc = "reread"
        PROVE  req[p].session # x
    <3>1. req[p].token \notin delivered
      BY <2>1 DEF BoundInv, NotDelivered, InFlight
    <3> QED BY <1>4, <2>1, <3>1 DEF BoundInv, SessionsOpen
  <2>2. \A t \in DOMAIN refresh' : refresh'[t].session = x => t = new
    BY <1>2, <1>4 DEF Succeeded, SessionsAreChains, OneTokenPerSession
  <2>3. \A p \in Reqs \ {r} : req'[p].pc = "reread" =>
           \A t \in DOMAIN refresh' : refresh'[t].session = req'[p].session => t = req'[p].token
    BY <1>2, <1>3, <2>1 DEF Succeeded, BoundInv, SessionsOpen
  <2>4. \A p \in Reqs \ {r} : req'[p].pc = "reread" => req'[p].session \notin DOMAIN ended'
    BY <1>3, <1>4 DEF BoundInv, SessionsOpen
  <2> HIDE DEF x
  <2> QED BY <1>1, <1>3, <1>4, <2>2, <2>3, <2>4 DEF SessionsOpen
<1>9. TokensTimely'
  BY <1>1, <1>3, <1>4 DEF BoundInv, TokensTimely, Timely
<1> QED BY <1>6, <1>7, <1>8, <1>9 DEF BoundInv

(* The refreshed access token is signed while the session is open.         *)
LEMMA RereadBound ==
    ASSUME TypeInv, BoundInv, NEW r \in Reqs, RereadUser(r)
    PROVE  BoundInv'
<1> DEFINE u == req[r].user
           a == Fresh(u, accounts[u].guest, req[r].session)
           q == [pc |-> "answer", token |-> req[r].token, access |-> a]
<1>1. req[r].pc = "reread" /\ UNCHANGED <<time, sessions>> /\ (Goto(r, Idle) \/ Goto(r, q))
  BY DEF RereadUser
<1>2. CASE Goto(r, Idle)
  <2>1. Idle.pc = "idle"
    BY DEF Idle
  <2> QED BY <1>1, <1>2, <2>1, SilentMove
<1>3. CASE Goto(r, q)
  <2>1. /\ a.session = req[r].session /\ a.exp = time + AccessTTL
        /\ q.pc = "answer" /\ q.token = req[r].token /\ q.access = a
    BY DEF Fresh, AccessToken
  <2> HIDE DEF a, q
  <2>2. req'[r] = q /\ \A p \in Reqs \ {r} : req'[p] = req[p]
    BY <1>3, GotoEffect
  <2>3. UNCHANGED <<time, refresh, access, delivered, ended>>
    BY <1>1 DEF sessions
  <2>4. /\ InFlight' \subseteq InFlight /\ r \in InFlight
        /\ \A p \in InFlight' : req'[p].token = req[p].token
    BY <1>1, <2>1, <2>2 DEF InFlight
  <2>5. DeadlinesNear'
    BY <2>1, <2>2, <2>3, RequestNumbers DEF BoundInv, DeadlinesNear
  <2>6. NotDelivered'
    BY <2>3, <2>4 DEF BoundInv, NotDelivered
  <2>7. SessionsOpen'
    BY <2>1, <2>2, <2>3 DEF BoundInv, SessionsOpen
  <2>8. TokensTimely'
    <3>1. a.session \notin DOMAIN ended
      BY <1>1, <2>1 DEF BoundInv, SessionsOpen
    <3> QED BY <2>1, <2>2, <2>3, <3>1 DEF BoundInv, TokensTimely, Timely
  <2> QED BY <2>5, <2>6, <2>7, <2>8 DEF BoundInv
<1> QED BY <1>1, <1>2, <1>3

LEMMA DeliverBound ==
    ASSUME TypeInv, BoundInv, NEW r \in Reqs, Deliver(r)
    PROVE  BoundInv'
<1>1. /\ req[r].pc = "answer" /\ Goto(r, Idle) /\ Idle.pc = "idle"
      /\ access' = access \cup {req[r].access} /\ delivered' = delivered \cup {req[r].token}
      /\ UNCHANGED <<time, refresh, ended>>
  BY DEF Deliver, Refuse, Idle
<1>2. req'[r] = Idle /\ \A p \in Reqs \ {r} : req'[p] = req[p]
  BY <1>1, GotoEffect
<1>3. /\ r \in InFlight /\ InFlight' \subseteq InFlight \ {r}
      /\ \A p \in InFlight' : req'[p] = req[p]
  BY <1>1, <1>2 DEF InFlight
<1>4. DeadlinesNear'
  BY <1>1, <1>2 DEF BoundInv, DeadlinesNear
<1>5. NotDelivered'
  BY <1>1, <1>3 DEF BoundInv, NotDelivered
<1>6. SessionsOpen'
  BY <1>1, <1>2 DEF BoundInv, SessionsOpen
<1>7. TokensTimely'
  BY <1>1, <1>2 DEF BoundInv, TokensTimely, Timely
<1> QED BY <1>4, <1>5, <1>6, <1>7 DEF BoundInv

(* A logout: whatever was signed so far ends within the lifetime, and no   *)
(* refresh of this session is in flight.                                   *)
LEMMA LogoutBound ==
    ASSUME TypeInv, BoundInv, NEW t \in Tokens, Logout(t)
    PROVE  BoundInv'
<1>1. UNCHANGED <<time, access, req, delivered>>
  BY DEF Logout
<1>2. DeadlinesNear' /\ NotDelivered'
  BY <1>1 DEF BoundInv, DeadlinesNear, NotDelivered, InFlight
<1>3. CASE LoggedOut(t)
  <2> DEFINE x == refresh[t].session
  <2>1. /\ t \in DOMAIN refresh /\ t \in delivered
        /\ DOMAIN refresh' = DOMAIN refresh \ {t}
        /\ \A y \in DOMAIN refresh' : refresh'[y] = refresh[y]
        /\ DOMAIN ended' = DOMAIN ended \cup {x} /\ ended'[x] = time
        /\ \A y \in DOMAIN ended \ {x} : ended'[y] = ended[y]
    BY <1>3 DEF LoggedOut
  <2>2. \A p \in Reqs : req[p].pc = "reread" => req[p].session # x
    <3> SUFFICES ASSUME NEW p \in Reqs, req[p].pc = "reread" PROVE req[p].session # x
      OBVIOUS
    <3>1. req[p].token \notin delivered
      BY DEF BoundInv, NotDelivered, InFlight
    <3> QED BY <2>1, <3>1 DEF BoundInv, SessionsOpen
  <2> HIDE DEF x
  <2>3. SessionsOpen'
    BY <1>1, <2>1, <2>2 DEF BoundInv, SessionsOpen
  <2>4. ASSUME NEW a, Timely(a), a.exp <= time + AccessTTL PROVE Timely(a)'
    BY <2>1, <2>4 DEF Timely
  <2>5. TokensTimely'
    <3>1. \A a \in access : Timely(a)'
      BY <2>4 DEF BoundInv, TokensTimely, DeadlinesNear
    <3>2. ASSUME NEW p \in Reqs, req[p].pc = "answer" PROVE Timely(req[p].access)'
      <4>1. Timely(req[p].access) /\ req[p].access.exp <= time + AccessTTL
        BY <3>2 DEF BoundInv, TokensTimely, DeadlinesNear
      <4> QED BY <1>1, <2>1, <4>1 DEF Timely
    <3> QED BY <1>1, <3>1, <3>2 DEF TokensTimely, Timely
  <2> QED BY <1>2, <2>3, <2>5 DEF BoundInv
<1>4. CASE /\ DOMAIN refresh' = DOMAIN refresh /\ ended' = ended
           /\ \A x \in DOMAIN refresh : refresh'[x] = refresh[x]
  <2>1. SessionsOpen'
    BY <1>1, <1>4 DEF BoundInv, SessionsOpen
  <2>2. TokensTimely'
    BY <1>1, <1>4 DEF BoundInv, TokensTimely, Timely
  <2> QED BY <1>2, <2>1, <2>2 DEF BoundInv
<1> QED BY <1>3, <1>4, LogoutEffect

LEMMA NextBound == TypeInv /\ SessionsAreChains /\ BoundInv /\ [Next]_vars => BoundInv'
<1> SUFFICES ASSUME TypeInv, SessionsAreChains, BoundInv, [Next]_vars PROVE BoundInv'
  OBVIOUS
<1>1. ASSUME NEW r \in Reqs,
             \/ \E u \in Ids : \/ GuestLogin(r, u) \/ Login(r, u) \/ CreateFromIdentity(r, u)
                               \/ \E e \in Emails : Register(r, u, e)
             \/ \E s \in SteamIds : SteamLogin(r, s) \/ \E a \in access : SteamLink(r, a, s)
             \/ \E e \in Emails, a \in access : Claim(r, a, e)
             \/ FindIdentity(r) \/ AttachIdentity(r) \/ ClaimAccount(r) \/ Lose(r)
      PROVE  BoundInv'
  <2>1. UNCHANGED <<time, sessions>>
    BY <1>1, SilentSteps
  <2>2. PICK q : /\ Goto(r, q) /\ q.pc \notin {"reread", "answer"}
                 /\ q.pc = "issue" => q.exp <= time + AccessTTL
    BY <1>1, SilentSteps
  <2> QED BY <2>1, <2>2, SilentMove
<1>2. ASSUME NEW a \in access, Rename(a) PROVE BoundInv'
  <2>1. /\ access' = access \cup {Renewed(a)}
        /\ UNCHANGED <<time, refresh, req, delivered, ended>>
        /\ Renewed(a).exp = a.exp /\ Renewed(a).session = a.session
    BY <1>2 DEF Rename, Renewed, AccessToken
  <2>2. DeadlinesNear' /\ TokensTimely'
    BY <2>1 DEF BoundInv, DeadlinesNear, TokensTimely, Timely
  <2>3. NotDelivered' /\ SessionsOpen'
    BY <2>1 DEF BoundInv, NotDelivered, SessionsOpen, InFlight
  <2> QED BY <2>2, <2>3 DEF BoundInv
<1>3. ASSUME NEW S, refresh' = Without(refresh, S),
             UNCHANGED <<time, access, req, delivered, ended>>
      PROVE  BoundInv'
  <2>1. DeadlinesNear' /\ TokensTimely' /\ NotDelivered'
    BY <1>3 DEF BoundInv, DeadlinesNear, TokensTimely, Timely, NotDelivered, InFlight
  <2>2. SessionsOpen'
    BY <1>3 DEF BoundInv, SessionsOpen, Without
  <2> QED BY <2>1, <2>2 DEF BoundInv
<1>4. ASSUME PruneRefreshTokens \/ \E S \in SUBSET DOMAIN accounts : PruneGuests(S)
      PROVE  BoundInv'
  BY <1>3, <1>4 DEF PruneRefreshTokens, PruneGuests, TokensKept
<1>5. ASSUME Tick \/ UNCHANGED vars PROVE BoundInv'
  <2>1. /\ time' \in Int /\ time <= time'
        /\ UNCHANGED <<refresh, access, req, delivered, ended>>
    BY <1>5, RequestNumbers DEF Tick, sessions, vars
  <2>2. DeadlinesNear'
    BY <2>1, RequestNumbers DEF BoundInv, DeadlinesNear
  <2>3. TokensTimely' /\ NotDelivered' /\ SessionsOpen'
    BY <2>1 DEF BoundInv, TokensTimely, Timely, NotDelivered, SessionsOpen, InFlight
  <2> QED BY <2>2, <2>3 DEF BoundInv
<1> QED BY <1>1, <1>2, <1>4, <1>5, CreateBound, RotateBound, RereadBound, DeliverBound,
           LogoutBound DEF Next

(* AccessIsTrue, which AccountsSessions checks: an access token, which is  *)
(* stored nowhere, never says claimed of an account that is not, and once  *)
(* its session has been ended it lives no longer than one lifetime.        *)
THEOREM AccessTokensAreTrue == Spec => []AccessIsTrue
<1>1. ClaimedTokenIsTrue /\ LogoutBoundsAccess => AccessIsTrue
  BY DEF AccessIsTrue
<1> QED BY <1>1, InitType, InitAccess, InitSessions, InitBound, NextType, NextAccess,
           NextSessions, NextBound, AccessInvImplies, BoundImplies, PTL DEF Spec

=============================================================================
