---------------------------- MODULE VaultConsole ----------------------------
(***************************************************************************)
(* The session of a vault console: templates/_console_session.js, in every *)
(* tab of one browser that has the console open.  The tabs share one       *)
(* record in localStorage and one Web Lock; the access token of a tab is   *)
(* in its sessionStorage, and survives a reload.                           *)
(*                                                                         *)
(* A stretch of script between two awaits is one step.  The server is only *)
(* what VaultOAuth promises of it: a refresh token rotates once, the       *)
(* rotation revokes the access token that came with it, and the token      *)
(* presented again burns the family.  The n-th pair of tokens of family f  *)
(* is <<f, n>>.                                                            *)
(*                                                                         *)
(* Its names are its own, so that the module of proofs can extend it with  *)
(* BoardCache and VaultWalks.                                              *)
(*                                                                         *)
(* A definition named ...Mutant is a way the one it precedes could be      *)
(* wrong; nothing refers to it.                                            *)
(***************************************************************************)
EXTENDS Integers, FiniteSets

CONSTANTS
    Tabs,           \* the tabs of the browser
    Calls,          \* the script's concurrent asynchronous calls
    Clients,        \* client_ids a registration may be answered with
    MaxRetries,     \* MAX_REFRESH_RETRIES
    MaxFamilies,    \* bound: authorizations that are completed
    MaxRotations    \* bound: pairs of a family

Null == << >>

ASSUME ConsoleAssumption ==
    /\ MaxRetries \in Nat /\ MaxFamilies \in Nat /\ MaxRotations \in Nat \ {0}
    /\ \A S \in {Tabs, Calls, Clients} : IsFiniteSet(S)
    /\ Null \notin Calls \cup Clients

VARIABLES
    stored,     \* the record in localStorage
    lock,       \* the call that holds the Web Lock, or Null
    tab,        \* the script's globals in a tab; asked is the client_id it
                \* has left for the authorization page with
    call,       \* the asynchronous calls in progress
    family,     \* the server's token families
    clients     \* and its registered clients; FALSE once pruned

consoleVars == <<stored, lock, tab, call, family, clients>>

(* {}, or nothing stored: loadSession makes no difference between them.    *)
Empty == [client |-> Null, refresh |-> Null, stamp |-> 0, recent |-> FALSE]
NoCall == [pc |-> "idle"]

-----------------------------------------------------------------------------
(* The server.                                                             *)

Pairs == (DOMAIN family) \X (1..MaxRotations)
Newest(t) == t \in Pairs /\ family[t[1]].n = t[2] /\ ~family[t[1]].dead
Consumed(t) == t \in Pairs /\ family[t[1]].n > t[2]
Accepted(t) == Newest(t) /\ family[t[1]].access     \* a 401 otherwise
Burned(f) == [family EXCEPT ![f].dead = TRUE]
Known(c) == c \in DOMAIN clients /\ clients[c]

(* The server takes a token only from the client it was issued to.         *)
IssuedTo(t, c) == t \in Pairs /\ Known(c) /\ family[t[1]].client = c

(* An hour passes, or an operator revokes the credential; the refresh      *)
(* token lapses, or an operator burns the family; a stale client is pruned.*)
Expire(f) ==
    /\ family[f].access
    /\ family' = [family EXCEPT ![f].access = FALSE]
    /\ UNCHANGED <<stored, lock, tab, call, clients>>
Lapse(f) ==
    /\ ~family[f].dead
    /\ family' = Burned(f)
    /\ UNCHANGED <<stored, lock, tab, call, clients>>
Prune(c) ==
    /\ Known(c)
    /\ \A f \in DOMAIN family : family[f].client = c => family[f].dead
    /\ clients' = [clients EXCEPT ![c] = FALSE]
    /\ UNCHANGED <<stored, lock, tab, call, family>>

-----------------------------------------------------------------------------
(* The record that the tabs share, and the globals of a tab.               *)

Present(r) == r.client # Null

(* loadSession: a record older than a refresh token lives is taken out.    *)
Loaded == IF stored.recent THEN stored ELSE Empty

(* saveSession: every write has a stamp that no other record has.          *)
Saved(session) ==
    [session EXCEPT !.stamp =
        CHOOSE s \in 1..(Cardinality(Tabs) + 2) :
            stored.stamp # s /\ \A t \in Tabs : tab[t].session.stamp # s]

(* Thirty days pass since the record was obtained.                         *)
Month ==
    /\ stored.recent
    /\ stored' = [stored EXCEPT !.recent = FALSE]
    /\ tab' = [t \in Tabs |-> [tab[t] EXCEPT !.session.recent = FALSE]]
    /\ UNCHANGED <<lock, call, family, clients>>

At(c, pc) == call[c].pc = pc
Of(c) == tab[call[c].tab]
In(t) == {c \in Calls : call[c] # NoCall /\ call[c].tab = t}
Set(t, globals) == tab' = [tab EXCEPT ![t] = globals]
Goto(c, rec) == call' = [call EXCEPT ![c] = rec]

(* A page that is left takes its calls and its lock with it.               *)
Released(t) == IF lock # Null /\ lock \in In(t) THEN Null ELSE lock
Left(t) == [c \in Calls |-> IF c \in In(t) THEN NoCall ELSE call[c]]

(* storeTokens                                                             *)
Keep(c, pair) ==
    LET s == Saved([Of(c).session EXCEPT !.refresh = pair])
    IN  /\ Set(call[c].tab, [Of(c) EXCEPT !.session = s, !.token = pair, !.refresh = pair])
        /\ stored' = s

(* resumeSession, in the call c of a tab whose globals are g; calls are    *)
(* what the tab's others have become.                                      *)
Resume(t, c, g, calls) ==
    LET go == g.token = Null /\ Loaded.refresh # Null
    IN  /\ stored' = Loaded
        /\ Set(t, IF go THEN [g EXCEPT !.session = Loaded, !.refresh = Loaded.refresh] ELSE g)
        /\ call' = [calls EXCEPT ![c] =
                        IF go THEN [pc |-> "wait", tab |-> t, tries |-> 0, renews |-> TRUE]
                              ELSE NoCall]

-----------------------------------------------------------------------------
(* Opening a page, and signing in.                                         *)

Fresh(t) ==
    [tab[t] EXCEPT !.session = Loaded, !.refresh = Loaded.refresh, !.asked = Null]

(* boot, of a page opened or reloaded without an answer in its address     *)
Open(t, c) ==
    /\ call[c] = NoCall \/ c \in In(t)
    /\ Resume(t, c, Fresh(t), Left(t))
    /\ lock' = Released(t)
    /\ UNCHANGED <<family, clients>>

(* signIn: away to the authorization page, with a registration.            *)
SignIn(t, c) ==
    /\ tab[t].token = Null /\ tab[t].asked = Null /\ call[c] = NoCall
    /\ \A d \in In(t) : ~At(d, "register")
    /\ IF Present(tab[t].session)
       THEN /\ Set(t, [tab[t] EXCEPT !.asked = tab[t].session.client])
            /\ call' = Left(t) /\ lock' = Released(t)
       ELSE /\ Goto(c, [pc |-> "register", tab |-> t])
            /\ UNCHANGED <<tab, lock>>
    /\ UNCHANGED <<stored, family, clients>>

(* clientId, which makes the record of a new registration.                 *)
Registered(t, asked) ==
    \E id \in Clients \ DOMAIN clients :
        LET s == Saved([Empty EXCEPT !.client = id, !.recent = TRUE])
        IN  /\ clients' = [d \in DOMAIN clients \cup {id} |-> d = id \/ clients[d]]
            /\ Set(t, [tab[t] EXCEPT !.session = s, !.asked = IF asked THEN id ELSE Null])
            /\ stored' = s

Register(c) ==
    /\ At(c, "register")
    /\ Registered(call[c].tab, TRUE)
    /\ call' = Left(call[c].tab) /\ lock' = Released(call[c].tab)
    /\ UNCHANGED family

(* Back with an error: the registration is not used again.                 *)
Denied(t) ==
    /\ tab[t].asked # Null
    /\ Set(t, [Fresh(t) EXCEPT !.session = Empty])
    /\ stored' = Empty
    /\ UNCHANGED <<lock, call, family, clients>>

(* Back with a code: completeSignIn.                                       *)
Approved(t, c) ==
    /\ Known(tab[t].asked) /\ call[c] = NoCall
    /\ Goto(c, [pc |-> "code", tab |-> t, client |-> tab[t].asked])
    /\ Set(t, Fresh(t))
    /\ stored' = Loaded
    /\ UNCHANGED <<lock, family, clients>>

RegisterAgain(c) ==
    /\ At(c, "code") /\ ~Present(Of(c).session)
    /\ Registered(call[c].tab, FALSE)
    /\ UNCHANGED <<lock, call, family>>

Redeem(c) ==
    /\ At(c, "code") /\ Known(Of(c).session.client)
    /\ Of(c).session.client = call[c].client
    /\ Cardinality(DOMAIN family) < MaxFamilies
    /\ LET f == Cardinality(DOMAIN family) + 1
       IN  /\ family' = [g \in DOMAIN family \cup {f} |->
                IF g = f THEN [client |-> call[c].client, n |-> 1, dead |-> FALSE, access |-> TRUE]
                         ELSE family[g]]
           /\ Goto(c, [pc |-> "tokens", tab |-> call[c].tab, pair |-> <<f, 1>>])
    /\ UNCHANGED <<stored, lock, tab, clients>>

SignedIn(c) ==
    /\ At(c, "tokens")
    /\ Keep(c, call[c].pair)
    /\ Goto(c, NoCall)
    /\ UNCHANGED <<lock, family, clients>>

(* The exchange is refused, or its answer is lost.                         *)
Unredeemed(c) ==
    /\ At(c, "code") /\ Present(Of(c).session)
    /\ IF Known(Of(c).session.client)
       THEN Resume(call[c].tab, c, Of(c), call)
       ELSE /\ stored' = Empty
            /\ Set(call[c].tab, [Of(c) EXCEPT !.session = Empty])
            /\ Goto(c, NoCall)
    /\ UNCHANGED <<lock, family, clients>>
LoseTokens(c) ==
    /\ At(c, "tokens")
    /\ Resume(call[c].tab, c, Of(c), call)
    /\ UNCHANGED <<lock, family, clients>>

-----------------------------------------------------------------------------
(* refreshTokens: the lock, the record read again, the token taken out of  *)
(* it, and only then presented.                                            *)

Free == lock = Null
ReReadMutant(c) == Of(c).session
ReRead(c) == IF Present(Loaded) THEN Loaded ELSE Of(c).session

After(c, ok) ==
    CASE call[c].renews -> NoCall
      [] ~call[c].renews /\ ok ->
            [pc |-> "send", tab |-> call[c].tab, tries |-> call[c].tries + 1, renews |-> FALSE]
      [] OTHER -> [pc |-> "end", tab |-> call[c].tab]

(* found is for the property: whether there was a record to read.          *)
Acquire(c) ==
    /\ At(c, "wait") /\ Free
    /\ stored' = Loaded
    /\ LET s == ReRead(c)
       IN  /\ Set(call[c].tab, [Of(c) EXCEPT !.session = s, !.refresh = s.refresh])
           /\ IF s.refresh = Null
              THEN Goto(c, After(c, FALSE)) /\ UNCHANGED lock
              ELSE /\ Goto(c, [pc |-> "meta", found |-> Present(Loaded), tab |-> call[c].tab,
                               tries |-> call[c].tries, renews |-> call[c].renews])
                   /\ lock' = c
    /\ UNCHANGED <<family, clients>>

Spent(s) == [s EXCEPT !.refresh = Null]
Spend(c) ==
    /\ At(c, "meta")
    /\ LET s == Saved(Spent(Of(c).session))
       IN  /\ Set(call[c].tab, [Of(c) EXCEPT !.session = s, !.refresh = Null])
           /\ stored' = s
           /\ Goto(c, [pc |-> "ask", presented |-> Of(c).refresh, client |-> s.client,
                       found |-> call[c].found, tab |-> call[c].tab,
                       tries |-> call[c].tries, renews |-> call[c].renews])
    /\ UNCHANGED <<lock, family, clients>>

(* The server has it: rotated, burned or refused.                          *)
Answer(c) ==
    /\ At(c, "ask")
    /\ LET t == call[c].presented  ours == IssuedTo(t, call[c].client)
       IN  \/ /\ ours /\ Newest(t) /\ t[2] < MaxRotations
              /\ family' = [family EXCEPT ![t[1]].n = @ + 1, ![t[1]].access = TRUE]
              /\ Goto(c, [pc |-> "answer", pair |-> <<t[1], t[2] + 1>>, tab |-> call[c].tab,
                          tries |-> call[c].tries, renews |-> call[c].renews])
              /\ UNCHANGED lock
           \/ /\ ~(ours /\ Newest(t))
              /\ family' = IF ours /\ Consumed(t) THEN Burned(t[1]) ELSE family
              /\ Goto(c, After(c, FALSE))
              /\ lock' = Null
    /\ UNCHANGED <<stored, tab, clients>>

Store(c) ==
    /\ At(c, "answer")
    /\ Keep(c, call[c].pair)
    /\ Goto(c, After(c, TRUE))
    /\ lock' = Null
    /\ UNCHANGED <<family, clients>>

(* fetch throws: there is no metadata, or a request or its answer is lost. *)
Throw(c) ==
    /\ call[c].pc \in {"meta", "ask", "answer"}
    /\ Goto(c, NoCall)
    /\ lock' = Null
    /\ UNCHANGED <<stored, tab, family, clients>>

-----------------------------------------------------------------------------
(* api, endSession and signOut.                                            *)

Call(t, c) ==
    /\ tab[t].token # Null /\ call[c] = NoCall
    /\ Goto(c, [pc |-> "send", tab |-> t, tries |-> 0, renews |-> FALSE])
    /\ UNCHANGED <<stored, lock, tab, family, clients>>

Send(c) ==
    /\ At(c, "send")
    /\ Goto(c, IF Accepted(Of(c).token) THEN NoCall
               ELSE IF call[c].tries < MaxRetries THEN [call[c] EXCEPT !.pc = "wait"]
               ELSE [pc |-> "end", tab |-> call[c].tab])
    /\ UNCHANGED <<stored, lock, tab, family, clients>>

(* someoneElseAdvancedIt                                                   *)
Elsewhere(s) == Loaded.refresh # Null /\ s.stamp # 0 /\ Loaded.stamp # s.stamp

EndSession(c) ==
    /\ At(c, "end")
    /\ LET g == [Of(c) EXCEPT !.token = Null, !.refresh = Null]
       IN  IF Elsewhere(g.session)
           THEN Resume(call[c].tab, c, [g EXCEPT !.session = Loaded], call)
           ELSE /\ stored' = Empty
                /\ Set(call[c].tab, [g EXCEPT !.session = Empty])
                /\ Goto(c, NoCall)
    /\ UNCHANGED <<lock, family, clients>>

SignOut(t, c) ==
    /\ tab[t].token # Null /\ call[c] = NoCall
    /\ Goto(c, [pc |-> "revoke", tab |-> t, client |-> tab[t].session.client,
                refresh |-> tab[t].refresh, access |-> tab[t].token])
    /\ Set(t, [tab[t] EXCEPT !.token = Null, !.refresh = Null])
    /\ UNCHANGED <<stored, lock, family, clients>>

(* A refresh token names its family whether it is consumed or not; an      *)
(* access token only while it is accepted.  Or the server is not reached.  *)
Revoke(c) ==
    /\ At(c, "revoke")
    /\ LET refresh == call[c].refresh
           t == IF refresh # Null THEN refresh ELSE call[c].access
       IN  \/ /\ IssuedTo(t, call[c].client) /\ (refresh # Null \/ Accepted(t))
              /\ family' = Burned(t[1])
           \/ UNCHANGED family
    /\ Goto(c, [pc |-> "forced", tab |-> call[c].tab])
    /\ UNCHANGED <<stored, lock, tab, clients>>

SignedOut(c) ==
    /\ At(c, "forced")
    /\ stored' = Empty
    /\ Set(call[c].tab, [Of(c) EXCEPT !.session = Empty, !.token = Null, !.refresh = Null])
    /\ Goto(c, NoCall)
    /\ UNCHANGED <<lock, family, clients>>

-----------------------------------------------------------------------------
ConsoleInit ==
    /\ stored = Empty /\ lock = Null
    /\ tab = [t \in Tabs |->
                [session |-> Empty, token |-> Null, refresh |-> Null, asked |-> Null]]
    /\ call = [c \in Calls |-> NoCall]
    /\ family = << >> /\ clients = << >>

ConsoleNext ==
    \/ \E t \in Tabs :
          \/ Denied(t)
          \/ \E c \in Calls : Open(t, c) \/ SignIn(t, c) \/ Approved(t, c)
                              \/ Call(t, c) \/ SignOut(t, c)
    \/ \E c \in Calls :
          \/ Register(c) \/ RegisterAgain(c) \/ Redeem(c) \/ Unredeemed(c)
          \/ SignedIn(c) \/ LoseTokens(c)
          \/ Acquire(c) \/ Spend(c) \/ Answer(c) \/ Store(c) \/ Throw(c)
          \/ Send(c) \/ EndSession(c) \/ Revoke(c) \/ SignedOut(c)
    \/ \E f \in DOMAIN family : Expire(f) \/ Lapse(f)
    \/ \E c \in DOMAIN clients : Prune(c)
    \/ Month

ConsoleSpec == ConsoleInit /\ [][ConsoleNext]_consoleVars

-----------------------------------------------------------------------------
(* Properties.                                                             *)

(* While there is a record, a tab never presents a refresh token that has  *)
(* been consumed, which the server would answer by burning the family: the *)
(* lock, the second reading and the token taken out before it is sent see  *)
(* to that, whatever answers are lost and whichever pages are left.        *)
NeverThePredecessor ==
    \A c \in Calls :
        At(c, "ask") /\ call[c].found => ~Consumed(call[c].presented)

=============================================================================
