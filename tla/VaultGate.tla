------------------------------ MODULE VaultGate ------------------------------
(***************************************************************************)
(* How a request gets into the vault: the credential it shows              *)
(* (principal.py, auth.py, issue_vault_credential.py), the quota it is     *)
(* charged (rate_limit.py) and the connections it works with (db.py), for  *)
(* the routes of routes.py and the tools of mcp.py.                        *)
(*                                                                         *)
(* One worker process is modelled: the buckets and the pool are its own.   *)
(* What a route or a tool does once it is let in belongs to other modules; *)
(* here it is the plan of its database transactions and of the calls of    *)
(* the embedding provider between them.  The guard that counts addresses   *)
(* before any of this is slowapi's, and whom it refuses never gets here.   *)
(*                                                                         *)
(* A definition named ...Mutant is a way the one it precedes could be      *)
(* wrong; nothing refers to it.                                            *)
(***************************************************************************)
EXTENDS Integers, Sequences, FiniteSets, FiniteSetsExt

CONSTANTS
    Credentials,    \* credential ids
    Principals,     \* principal ids
    Reqs,           \* requests in flight
    Operators,      \* operator commands that adjust scopes, in flight
    Kinds,          \* what clients ask for: kinds of Routes and Tools
    Scopes,         \* the scopes operators hand out
    Parts,          \* parts of a token, so that a refill is a whole number
    Limits,         \* LIMITS: bucket -> requests at once, parts of a token per tick
    PrincipalLimits,\* PRINCIPAL_LIMITS: principal -> bucket -> the same
    PruneAbove,     \* _PRUNE_ABOVE
    PoolSize,       \* VAULT_DB_POOL_SIZE, with no overflow
    TouchAfter,     \* TOUCH_RESOLUTION
    Lifetimes,      \* --days of the issue command
    MaxTime         \* bound: the last instant explored

-----------------------------------------------------------------------------
(* What a request may ask for.                                             *)

Read == "vault:read"
Write == "vault:write"
Propose == "vault:propose"
Update == "vault:update"
Delete == "vault:delete"
Review == "vault:review"
Compile == "vault:compile"

(* The scopes an operation requires, the bucket it is charged to and what  *)
(* it may do, at its longest, when it is let in.                           *)
Call(needs, bucket, plans) == [needs |-> needs, bucket |-> bucket, plans |-> plans]

Once == {<<"db">>}
Twice == {<<"db">>, <<"db", "db">>}
Embedded == {<<"db", "embed", "db">>}

describe_authorization == Call({}, "authorization", Once)
search_vault == Call({Read}, "search", {<<"embed", "db">>})
resolve_vault_edges == Call({Read}, "resolve_edges", Once)
get_vault_document == Call({Read}, "get_note", Once)
list_vault_documents == Call({Read}, "list_notes", Once)
contribute == Call({Write}, "contribute", Twice \cup Embedded)
propose_amendment == Call({Propose}, "amendment_propose", Once)
update_vault_document_metadata == Call({Update}, "update", Once)
update_vault_document == Call({Update}, "update", {<<"db", "db">>} \cup Embedded)
set_vault_document_summary == Call({Write}, "set_summary", Embedded)
retire_vault_document == Call({Delete}, "retire", Once)
list_review_queue == Call({Review}, "review_list", Once)
read_review_case == Call({Review}, "review_read", Once)
decide_review_case == Call({Review}, "review_decide", Once)
list_amendment_proposals == Call({Review}, "amendment_list", Once)
read_amendment_proposal == Call({Review}, "amendment_read", Twice)
decide_amendment_proposal == Call({Review}, "amendment_decide", Twice \cup Embedded)
(* A batch accepts changes of metadata only; two decisions stand for fifty.*)
decide_amendment_proposal_batch ==
    Call({Review}, "amendment_decide_batch", {s \o t : s, t \in Twice})
plan_compile_run == Call({Compile}, "compile_plan", Once)
write_compile_page == Call({Compile}, "compile_write", Embedded)
decline_compile_notes == Call({Compile}, "compile_write", Once)
finish_compile_run == Call({Compile}, "compile_settle", Once)
fail_compile_run == Call({Compile}, "compile_settle", Once)

Routes == [
    authorization |-> describe_authorization,
    search |-> search_vault,
    edges |-> resolve_vault_edges,
    note |-> get_vault_document,
    listing |-> list_vault_documents,
    contribution |-> contribute,
    proposal |-> propose_amendment,
    metadata |-> update_vault_document_metadata,
    update |-> update_vault_document,
    summary |-> set_vault_document_summary,
    retirement |-> retire_vault_document,
    cases |-> list_review_queue,
    case |-> read_review_case,
    judgement |-> decide_review_case,
    proposals |-> list_amendment_proposals,
    amendment |-> read_amendment_proposal,
    acceptance |-> decide_amendment_proposal,
    acceptances |-> decide_amendment_proposal_batch,
    plan |-> plan_compile_run,
    page |-> write_compile_page,
    decline |-> decline_compile_notes,
    finish |-> finish_compile_run,
    failure |-> fail_compile_run]

vault_search == Call({Read}, "search", {<<"embed", "db">>})
vault_get_note == Call({Read}, "get_note", Once)
vault_contribute == Call({Write}, "contribute", Twice \cup Embedded)
vault_set_summary == Call({Write}, "set_summary", Embedded)
vault_update_note == Call({Update}, "update", {<<"db", "db">>} \cup Embedded)
vault_update_note_metadata == Call({Update}, "update", Once)
vault_propose_note_amendment == Call({Propose}, "amendment_propose", Once)
vault_propose_note_body_diff == Call({Propose}, "amendment_propose", Once)
vault_propose_note_span_edit == Call({Propose}, "amendment_propose", Once)
vault_propose_note_metadata == Call({Propose}, "amendment_propose", Once)
vault_retire_note == Call({Delete}, "retire", Once)
vault_list_review_cases == Call({Review}, "review_list", Once)
vault_read_review_case == Call({Review}, "review_read", Once)
vault_decide_review_case == Call({Review}, "review_decide", Once)
vault_list_amendment_proposals == Call({Review}, "amendment_list", Once)
vault_read_amendment_proposal == Call({Review}, "amendment_read", Twice)
vault_decide_amendment_proposal ==
    Call({Review}, "amendment_decide", Twice \cup Embedded)
vault_set_promotion_status == Call({Review}, "review_decide", Once)

(* _TOOL_SCOPES: the tools keep the names of the routes they double.       *)
Tools == [
    search |-> vault_search,
    note |-> vault_get_note,
    contribution |-> vault_contribute,
    summary |-> vault_set_summary,
    update |-> vault_update_note,
    metadata |-> vault_update_note_metadata,
    proposal |-> vault_propose_note_amendment,
    diff |-> vault_propose_note_body_diff,
    span |-> vault_propose_note_span_edit,
    edges_proposal |-> vault_propose_note_metadata,
    retirement |-> vault_retire_note,
    cases |-> vault_list_review_cases,
    case |-> vault_read_review_case,
    judgement |-> vault_decide_review_case,
    proposals |-> vault_list_amendment_proposals,
    amendment |-> vault_read_amendment_proposal,
    acceptance |-> vault_decide_amendment_proposal,
    promotion |-> vault_set_promotion_status]

Surface(via) == IF via = "http" THEN Routes ELSE Tools
Buckets == {Routes[k].bucket : k \in DOMAIN Routes} \cup {Tools[k].bucket : k \in DOMAIN Tools}

Limit == [burst : Nat \ {0}, refill : Nat \ {0}]

ASSUME GateAssumption ==
    /\ Kinds \subseteq DOMAIN Routes \cup DOMAIN Tools
    /\ Parts \in Nat \ {0} /\ PoolSize \in Nat \ {0}
    /\ {PruneAbove, TouchAfter, MaxTime} \subseteq Nat
    /\ Lifetimes \subseteq Nat \ {0}
    /\ DOMAIN Limits \subseteq Buckets
    /\ \A k \in Kinds :
          /\ k \in DOMAIN Routes => Routes[k].bucket \in DOMAIN Limits
          /\ k \in DOMAIN Tools => Tools[k].bucket \in DOMAIN Limits
    /\ Limits \in [DOMAIN Limits -> Limit]
    /\ DOMAIN PrincipalLimits \subseteq Principals
    /\ \A p \in DOMAIN PrincipalLimits :
          /\ DOMAIN PrincipalLimits[p] \subseteq DOMAIN Limits
          /\ PrincipalLimits[p] \in [DOMAIN PrincipalLimits[p] -> Limit]

VARIABLES
    creds,      \* vault_agent_credentials: id -> row
    buckets,    \* TokenBucketLimiter._buckets: <<principal, bucket>> -> tokens
    inUse,      \* connections checked out of the pool
    now,        \* the clock
    req,        \* the requests being handled
    command,    \* operator commands between their two statements
    said,       \* history: credential -> what its operators said it may do
    admitted    \* history: <<principal, kind>> -> requests let in before each instant,
                \* by the process that runs now

vars == <<creds, buckets, inUse, now, req, command, said, admitted>>

Idle == [todo |-> << >>]
Never == -1

Step(r) == Head(req[r].todo)
At(r, step) == req[r].todo # << >> /\ Step(r) = step
InDatabase(r) == At(r, "auth") \/ At(r, "db")

(* The next step of a request, which has no connection yet.                *)
Proceed(r) ==
    LET rest == Tail(req[r].todo)
    IN req' = [req EXCEPT ![r] = IF rest = << >> THEN Idle
                                 ELSE [req[r] EXCEPT !.todo = rest, !.connected = FALSE]]
Finish(r) == req' = [req EXCEPT ![r] = Idle]

With(f, x, y) == [z \in DOMAIN f \cup {x} |-> IF z = x THEN y ELSE f[z]]
Without(f, S) == [x \in DOMAIN f \ S |-> f[x]]

NoneYet == [x \in Principals \X Kinds |-> [t \in 0..(MaxTime + 1) |-> 0]]

Init ==
    /\ creds = << >> /\ buckets = << >> /\ inUse = 0 /\ now = 0
    /\ req = [r \in Reqs |-> Idle]
    /\ command = [o \in Operators |-> Idle]
    /\ said = << >>
    /\ admitted = NoneYet

-----------------------------------------------------------------------------
(* The pool: VaultTransactionService takes a connection for a transaction  *)
(* and gives it back at the end, however it ends.                          *)

(* acquire_vault_connection: there is no overflow.                         *)
Checkout(r) ==
    /\ InDatabase(r) /\ ~req[r].connected
    /\ inUse < PoolSize
    /\ inUse' = inUse + 1
    /\ req' = [req EXCEPT ![r].connected = TRUE]
    /\ UNCHANGED <<creds, buckets, now, command, said, admitted>>

(* vault_saturation_handler: pool_timeout passed, the answer is 503.       *)
Saturated(r) ==
    /\ InDatabase(r) /\ ~req[r].connected
    /\ inUse = PoolSize
    /\ Finish(r)
    /\ UNCHANGED <<creds, buckets, inUse, now, command, said, admitted>>

Checkin == inUse' = inUse - 1

-----------------------------------------------------------------------------
(* Admission.                                                              *)

(* What no request may be let in with; nothing but the history uses it.    *)
Usable(row) == row.revoked = Never /\ (row.expires = Never \/ row.expires > now)

Arrive(r, via, k, c) ==
    /\ req[r] = Idle
    /\ k \in DOMAIN Surface(via)
    /\ \E plan \in Surface(via)[k].plans :
          req' = [req EXCEPT ![r] =
                    [todo |-> <<"auth", "charge">> \o plan, connected |-> FALSE,
                     via |-> via, kind |-> k, cred |-> c, holds |-> {},
                     late |-> c \in DOMAIN creds /\ ~Usable(creds[c])]]
    /\ UNCHANGED <<creds, buckets, inUse, now, command, said, admitted>>

Needs(r) == Surface(req[r].via)[req[r].kind].needs

(* is_active                                                               *)
IsActive(c) ==
    /\ creds[c].revoked = Never
    /\ creds[c].expires = Never \/ creds[c].expires > now

(* authorize, for the scopes of the route; a tool asks for none here.      *)
Authorized(r) ==
    LET c == req[r].cred
    IN /\ c \in DOMAIN creds /\ IsActive(c)
       /\ req[r].via = "http" => Needs(r) \subseteq creds[c].scopes

(* touch: once in a while, and not while an operator holds the row.        *)
Touchable(c) == creds[c].used = Never \/ creds[c].used < now - TouchAfter
RowLocked(c) == \E o \in Operators : command[o] # Idle /\ command[o].cred = c

(* resolve_credential: a transaction of its own, over before the next step.*)
Authenticate(r) ==
    /\ At(r, "auth") /\ req[r].connected
    /\ LET c == req[r].cred
       IN IF Authorized(r)
            THEN /\ Touchable(c) => ~RowLocked(c)
                 /\ creds' = IF Touchable(c) THEN [creds EXCEPT ![c].used = now] ELSE creds
                 /\ req' = [req EXCEPT ![r].todo = Tail(@), ![r].connected = FALSE,
                                       ![r].holds = creds[c].scopes]
            ELSE Finish(r) /\ UNCHANGED creds
    /\ Checkin
    /\ UNCHANGED <<buckets, now, command, said, admitted>>

(* limit_for: an override widens a bucket that the table knows.            *)
LimitFor(p, b) ==
    IF p \in DOMAIN PrincipalLimits /\ b \in DOMAIN PrincipalLimits[p]
      THEN PrincipalLimits[p][b]
      ELSE Limits[b]

(* What a bucket holds by now: a new one is full.                          *)
Level(p, b) ==
    LET full == Parts * LimitFor(p, b).burst
    IN IF <<p, b>> \notin DOMAIN buckets THEN full
       ELSE Min({full, buckets[<<p, b>>].tokens
                         + (now - buckets[<<p, b>>].at) * LimitFor(p, b).refill})

(* _prune: a bucket goes when the time alone says that it is full again.   *)
ForgettableMutant(p, b, at) == (now - at) * Limits[b].refill >= Parts * Limits[b].burst
Forgettable(p, b, at) ==
    (now - at) * LimitFor(p, b).refill >= Parts * LimitFor(p, b).burst
Pruned(held) ==
    IF Cardinality(DOMAIN held) <= PruneAbove THEN held
    ELSE Without(held, {x \in DOMAIN held : Forgettable(x[1], x[2], held[x].at)})

(* One more is let in now: before every later instant.                     *)
OneMore(w) == [t \in DOMAIN w |-> IF t > now THEN w[t] + 1 ELSE w[t]]

(* check, under a lock that is never waited for: it holds no await.        *)
Charge(r, p, b) ==
    LET level == Level(p, b)
        allowed == level >= Parts
        left == IF allowed THEN level - Parts ELSE level
    IN /\ buckets' = Pruned(With(buckets, <<p, b>>, [tokens |-> left, at |-> now]))
       /\ IF allowed
            THEN /\ admitted' = [admitted EXCEPT ![<<p, req[r].kind>>] = OneMore(@)]
                 /\ Proceed(r)
            ELSE Finish(r) /\ UNCHANGED admitted

(* charge_quota; a tool checks its scope on the row it was let in with.    *)
Admit(r) ==
    /\ At(r, "charge")
    /\ IF Needs(r) \subseteq req[r].holds
         THEN Charge(r, creds[req[r].cred].principal, Surface(req[r].via)[req[r].kind].bucket)
         ELSE Finish(r) /\ UNCHANGED <<buckets, admitted>>
    /\ UNCHANGED <<creds, inUse, now, command, said>>

-----------------------------------------------------------------------------
(* Work.                                                                   *)

Transact(r) ==
    /\ At(r, "db") /\ req[r].connected
    /\ Proceed(r)
    /\ Checkin
    /\ UNCHANGED <<creds, buckets, now, command, said, admitted>>

(* The provider is called with no connection held.                         *)
Embed(r) ==
    /\ At(r, "embed")
    /\ Proceed(r)
    /\ UNCHANGED <<creds, buckets, inUse, now, command, said, admitted>>

(* A refusal, an error or a cancellation, anywhere.                        *)
GivenBackMutant(r) == 0
GivenBack(r) == IF req[r].connected THEN 1 ELSE 0
Fail(r) ==
    /\ req[r] # Idle
    /\ inUse' = inUse - GivenBack(r)
    /\ Finish(r)
    /\ UNCHANGED <<creds, buckets, now, command, said, admitted>>

(* The process is replaced: its requests, its buckets and its pool go.     *)
Restart ==
    /\ buckets # << >>
    /\ buckets' = << >> /\ inUse' = 0
    /\ req' = [r \in Reqs |-> Idle]
    /\ admitted' = NoneYet
    /\ UNCHANGED <<creds, now, command, said>>

-----------------------------------------------------------------------------
(* The operator.                                                           *)

(* issue; the same principal may be given another credential.              *)
Issue(c, p, S, days) ==
    /\ c \notin DOMAIN creds
    /\ creds' = With(creds, c, [principal |-> p, scopes |-> S, revoked |-> Never, used |-> Never,
                                expires |-> IF days = Never THEN Never ELSE now + days])
    /\ said' = With(said, c, S)
    /\ UNCHANGED <<buckets, inUse, now, req, command, admitted>>

Revoke(c) ==
    /\ c \in DOMAIN creds /\ creds[c].revoked = Never
    /\ ~RowLocked(c)
    /\ creds' = [creds EXCEPT ![c].revoked = now]
    /\ UNCHANGED <<buckets, inUse, now, req, command, said, admitted>>

(* _adjust_scopes reads the row FOR UPDATE, ...                            *)
LockedMutant(c) == FALSE
Locked(c) == RowLocked(c)
ReadScopes(o, c, S, granting) ==
    /\ command[o] = Idle
    /\ c \in DOMAIN creds /\ ~Locked(c)
    /\ IsActive(c)
    /\ command' = [command EXCEPT ![o] =
                     [cred |-> c, scopes |-> S, granting |-> granting,
                      before |-> creds[c].scopes]]
    /\ UNCHANGED <<creds, buckets, inUse, now, req, said, admitted>>

(* ... and writes the scopes it has computed from what it read.            *)
WriteScopes(o) ==
    /\ command[o] # Idle
    /\ LET op == command[o]
           Adjusted(S) == IF op.granting THEN S \cup op.scopes ELSE S \ op.scopes
       IN /\ creds' = [creds EXCEPT ![op.cred].scopes = Adjusted(op.before)]
          /\ said' = [said EXCEPT ![op.cred] = Adjusted(@)]
    /\ command' = [command EXCEPT ![o] = Idle]
    /\ UNCHANGED <<buckets, inUse, now, req, admitted>>

Tick ==
    /\ now < MaxTime
    /\ now' = now + 1
    /\ UNCHANGED <<creds, buckets, inUse, req, command, said, admitted>>

-----------------------------------------------------------------------------
Next ==
    \/ \E r \in Reqs :
        \/ \E via \in {"http", "mcp"}, k \in Kinds, c \in Credentials : Arrive(r, via, k, c)
        \/ Checkout(r) \/ Saturated(r) \/ Authenticate(r) \/ Admit(r)
        \/ Transact(r) \/ Embed(r) \/ Fail(r)
    \/ Restart
    \/ \E c \in Credentials :
        \/ \E p \in Principals, S \in SUBSET Scopes, days \in Lifetimes \cup {Never} :
              Issue(c, p, S, days)
        \/ Revoke(c)
        \/ \E o \in Operators, S \in SUBSET Scopes, granting \in BOOLEAN :
              ReadScopes(o, c, S, granting)
    \/ \E o \in Operators : WriteScopes(o)
    \/ Tick

Spec == Init /\ [][Next]_vars

-----------------------------------------------------------------------------
(* Properties.                                                             *)

Row == [principal : Principals, scopes : SUBSET Scopes, used : 0..MaxTime \cup {Never},
        revoked : 0..MaxTime \cup {Never},
        expires : {Never} \cup {t + d : t \in 0..MaxTime, d \in Lifetimes}]

(* The shape of the state, and a pool that counts what is taken.           *)
TypeOK ==
    /\ creds \in [DOMAIN creds -> Row] /\ DOMAIN creds \subseteq Credentials
    /\ \A x \in DOMAIN buckets :
          /\ x \in Principals \X Buckets
          /\ buckets[x].tokens \in 0..Parts * LimitFor(x[1], x[2]).burst /\ buckets[x].at \in 0..now
    /\ now \in 0..MaxTime
    /\ inUse \in 0..PoolSize
    /\ inUse = Cardinality({r \in Reqs : req[r] # Idle /\ req[r].connected})

(* A quota is a quota however it is spent: in any stretch of time, over    *)
(* both transports and through all of a principal's credentials, no more   *)
(* requests of a kind are let in than its burst and what was refilled,     *)
(* whatever buckets were pruned in between.                                *)
LimitOf(p, k) ==
    LimitFor(p, IF k \in DOMAIN Routes THEN Routes[k].bucket ELSE Tools[k].bucket)
QuotaHolds ==
    \A p \in Principals, k \in Kinds, from \in 0..now : \A to \in from..now :
        Parts * (admitted[<<p, k>>][to + 1] - admitted[<<p, k>>][from])
          <= Parts * LimitOf(p, k).burst + (to - from) * LimitOf(p, k).refill

(* A credential may do what its operators said, all of them and in the     *)
(* order they said it; and a request that came after it was revoked or     *)
(* expired is never let in.                                                *)
AuthorityIsTrue ==
    /\ \A c \in DOMAIN creds : creds[c].scopes = said[c]
    /\ \A r \in Reqs : req[r] # Idle /\ Step(r) # "auth" => ~req[r].late

=============================================================================
