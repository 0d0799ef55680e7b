-------------------------- MODULE VaultGateProofs --------------------------
(***************************************************************************)
(* Theorems about VaultGate, for any number of credentials, principals,    *)
(* requests and operators, any limits and any length of time.              *)
(*                                                                         *)
(* Section 1 has the facts about the tables of routes and tools and about  *)
(* the operators of the model, section 2 type correctness with the count   *)
(* of connections, section 3 authority, and section 4 the quota.           *)
(***************************************************************************)
EXTENDS VaultGate, FiniteSetTheorems, TLAPS

-----------------------------------------------------------------------------
(* 1. Operators.                                                           *)

Steps == {"auth", "charge", "db", "embed"}

(* Every plan is a sequence of transactions and calls of the provider.     *)
LEMMA PlansAreSequences ==
    /\ \A k \in DOMAIN Routes : Routes[k].plans \subseteq Seq(Steps)
    /\ \A k \in DOMAIN Tools : Tools[k].plans \subseteq Seq(Steps)
<1>1. Once \subseteq Seq(Steps) /\ Twice \subseteq Seq(Steps) /\ Embedded \subseteq Seq(Steps)
  BY DEF Once, Twice, Embedded, Steps
<1>2. {<<"embed", "db">>} \subseteq Seq(Steps) /\ {<<"db", "db">>} \subseteq Seq(Steps)
  BY DEF Steps
<1>3. {s \o t : s, t \in Twice} \subseteq Seq(Steps)
  <2>1. ASSUME NEW u \in {s \o t : s, t \in Twice} PROVE u \in Seq(Steps)
    <3>1. PICK s \in Twice, t \in Twice : u = s \o t
      OBVIOUS
    <3>2. s \in Seq(Steps) /\ t \in Seq(Steps)
      BY <1>1
    <3> QED BY <3>1, <3>2
  <2> QED BY <2>1
<1> DEFINE Q == Seq(Steps)
<1>4. decide_amendment_proposal_batch.plans \subseteq Q
  BY <1>3 DEF decide_amendment_proposal_batch, Call
<1>5. /\ Once \subseteq Q /\ Twice \subseteq Q /\ Embedded \subseteq Q
      /\ {<<"embed", "db">>} \subseteq Q /\ {<<"db", "db">>} \cup Embedded \subseteq Q
      /\ Twice \cup Embedded \subseteq Q
  BY <1>1, <1>2
<1> HIDE DEF Q
<1>6. \A k \in DOMAIN Routes : Routes[k].plans \subseteq Q
  BY <1>4, <1>5
     DEF Routes, Call, describe_authorization, search_vault, resolve_vault_edges,
       get_vault_document, list_vault_documents, contribute, propose_amendment,
       update_vault_document_metadata, update_vault_document, set_vault_document_summary,
       retire_vault_document, list_review_queue, read_review_case, decide_review_case,
       list_amendment_proposals, read_amendment_proposal, decide_amendment_proposal,
       plan_compile_run, write_compile_page, decline_compile_notes, finish_compile_run,
       fail_compile_run
<1>7. \A k \in DOMAIN Tools : Tools[k].plans \subseteq Q
  BY <1>5
     DEF Tools, Call, vault_search, vault_get_note, vault_contribute, vault_set_summary,
       vault_update_note, vault_update_note_metadata, vault_propose_note_amendment,
       vault_propose_note_body_diff, vault_propose_note_span_edit,
       vault_propose_note_metadata, vault_retire_note, vault_list_review_cases,
       vault_read_review_case, vault_decide_review_case, vault_list_amendment_proposals,
       vault_read_amendment_proposal, vault_decide_amendment_proposal,
       vault_set_promotion_status
<1> QED BY <1>6, <1>7 DEF Q

(* A tool that doubles a route is charged to the route's bucket.           *)
LEMMA OneBucket ==
    \A k \in DOMAIN Routes \cap DOMAIN Tools : Routes[k].bucket = Tools[k].bucket
BY DEF Routes, Tools, Call, describe_authorization, search_vault, resolve_vault_edges,
       get_vault_document, list_vault_documents, contribute, propose_amendment,
       update_vault_document_metadata, update_vault_document, set_vault_document_summary,
       retire_vault_document, list_review_queue, read_review_case, decide_review_case,
       list_amendment_proposals, read_amendment_proposal, decide_amendment_proposal,
       decide_amendment_proposal_batch, plan_compile_run, write_compile_page,
       decline_compile_notes, finish_compile_run, fail_compile_run,
       vault_search, vault_get_note, vault_contribute, vault_set_summary, vault_update_note,
       vault_update_note_metadata, vault_propose_note_amendment,
       vault_propose_note_body_diff, vault_propose_note_span_edit,
       vault_propose_note_metadata, vault_retire_note, vault_list_review_cases,
       vault_read_review_case, vault_decide_review_case, vault_list_amendment_proposals,
       vault_read_amendment_proposal, vault_decide_amendment_proposal,
       vault_set_promotion_status

(* The library's least element, of two.                                    *)
LEMMA MinOfTwo ==
    ASSUME NEW i \in Int, NEW j \in Int
    PROVE  Min({i, j}) = IF i <= j THEN i ELSE j
BY DEF Min

LEMMA Products ==
    ASSUME NEW i \in Nat, NEW r \in Nat
    PROVE  i * r \in Nat /\ (i + 1) * r = i * r + r /\ 0 * r = 0
OBVIOUS

(* The bucket that a request of a kind is charged to.                      *)
BucketOf(k) == IF k \in DOMAIN Routes THEN Routes[k].bucket ELSE Tools[k].bucket

LEMMA BucketFacts ==
    ASSUME NEW k \in Kinds
    PROVE  /\ BucketOf(k) \in DOMAIN Limits /\ BucketOf(k) \in Buckets
           /\ \A via \in {"http", "mcp"} :
                 k \in DOMAIN Surface(via) => Surface(via)[k].bucket = BucketOf(k)
<1>1. k \in DOMAIN Routes \/ k \in DOMAIN Tools
  BY GateAssumption
<1>2. BucketOf(k) \in DOMAIN Limits
  <2>1. /\ k \in DOMAIN Routes => Routes[k].bucket \in DOMAIN Limits
        /\ k \in DOMAIN Tools => Tools[k].bucket \in DOMAIN Limits
    BY GateAssumption, Zenon
  <2> QED BY <1>1, <2>1 DEF BucketOf
<1>3. BucketOf(k) \in Buckets
  BY <1>2, GateAssumption
<1>4. ASSUME NEW via \in {"http", "mcp"}, k \in DOMAIN Surface(via)
      PROVE  Surface(via)[k].bucket = BucketOf(k)
  <2>1. CASE via = "http"
    BY <1>4, <2>1 DEF Surface, BucketOf
  <2>2. CASE via = "mcp"
    <3>1. Surface(via) = Tools
      BY <2>2 DEF Surface
    <3>2. CASE k \in DOMAIN Routes
      BY <1>4, <3>1, <3>2, OneBucket DEF BucketOf
    <3>3. CASE k \notin DOMAIN Routes
      BY <3>1, <3>3 DEF BucketOf
    <3> QED BY <3>2, <3>3
  <2> QED BY <2>1, <2>2
<1> QED BY <1>2, <1>3, <1>4

(* What a full bucket holds.                                               *)
Full(p, b) == Parts * LimitFor(p, b).burst

LEMMA LimitFacts ==
    ASSUME NEW p, NEW b \in DOMAIN Limits
    PROVE  /\ LimitFor(p, b).burst \in Nat \ {0} /\ LimitFor(p, b).refill \in Nat \ {0}
           /\ Full(p, b) \in Nat /\ Full(p, b) >= Parts /\ Parts \in Nat \ {0}
<1>1. LimitFor(p, b) \in Limit
  BY GateAssumption DEF LimitFor
<1>2. LimitFor(p, b).burst \in Nat \ {0} /\ LimitFor(p, b).refill \in Nat \ {0}
  BY <1>1 DEF Limit
<1>3. Parts \in Nat \ {0}
  BY GateAssumption
<1>4. \A i, j \in Nat \ {0} : i * j \in Nat /\ i * j >= i
  OBVIOUS
<1> QED BY <1>2, <1>3, <1>4 DEF Full

-----------------------------------------------------------------------------
(* 2. Types, and the count of connections.                                 *)

Request == [todo : Seq(Steps), connected : BOOLEAN, via : {"http", "mcp"}, kind : Kinds,
            cred : Credentials, holds : SUBSET Scopes, late : BOOLEAN]
Adjustment == [cred : Credentials, scopes : SUBSET Scopes, granting : BOOLEAN,
               before : SUBSET Scopes]

(* A request asks for something its transport offers, has a connection     *)
(* only for a step that needs one, and is past its first step only with a  *)
(* credential that exists.                                                 *)
RequestsSound ==
    /\ req \in [Reqs -> {Idle} \cup Request]
    /\ \A r \in Reqs : req[r] # Idle =>
          /\ req[r].kind \in DOMAIN Surface(req[r].via)
          /\ req[r].connected => InDatabase(r)
          /\ Step(r) # "auth" => req[r].cred \in DOMAIN creds

Holding == {r \in Reqs : req[r] # Idle /\ req[r].connected}

TypeInv ==
    /\ TypeOK
    /\ \A x \in DOMAIN buckets : x[2] \in DOMAIN Limits
    /\ RequestsSound
    /\ IsFiniteSet(Holding)
    /\ command \in [Operators -> {Idle} \cup Adjustment]

LEMMA NotIdle == \A q \in Request \cup Adjustment : q # Idle
BY DEF Request, Adjustment, Idle

LEMMA InitTypeInv == Init => TypeInv
<1> SUFFICES ASSUME Init PROVE TypeInv
  OBVIOUS
<1> USE DEF Init
<1>1. creds \in [DOMAIN creds -> Row] /\ DOMAIN creds \subseteq Credentials /\ DOMAIN buckets = {}
  <2>1. DOMAIN << >> = {}
    OBVIOUS
  <2>2. << >> \in [{} -> Row]
    OBVIOUS
  <2> QED BY <2>1, <2>2
<1>2. now \in 0..MaxTime /\ inUse \in 0..PoolSize
  BY GateAssumption
<1>3. Holding = {}
  BY DEF Holding
<1>4. inUse = Cardinality(Holding) /\ IsFiniteSet(Holding)
  BY <1>3, FS_EmptySet
<1>5. RequestsSound
  BY DEF RequestsSound
<1> QED BY <1>1, <1>2, <1>4, <1>5 DEF TypeInv, TypeOK, Holding

(* What a step does to the requests and to the pool.                       *)
Stay == req' = req /\ inUse' = inUse
Arrives(r) ==
    /\ req[r] = Idle
    /\ req' = [req EXCEPT ![r] = req'[r]]
    /\ req'[r] \in Request /\ ~req'[r].connected
    /\ req'[r].kind \in DOMAIN Surface(req'[r].via)
    /\ Head(req'[r].todo) = "auth"
    /\ req'[r].late => req'[r].cred \in DOMAIN creds /\ ~Usable(creds[req'[r].cred])
    /\ inUse' = inUse
Connects(r) ==
    /\ req[r] # Idle /\ ~req[r].connected /\ InDatabase(r)
    /\ req' = [req EXCEPT ![r].connected = TRUE]
    /\ inUse < PoolSize /\ inUse' = inUse + 1
Taken(r) == IF r \in Holding THEN 1 ELSE 0
MovesOn(r) ==
    /\ req[r] # Idle
    /\ req' = [req EXCEPT ![r] = req'[r]]
    /\ req'[r] # Idle =>
          /\ req'[r] \in Request /\ ~req'[r].connected
          /\ req'[r].kind = req[r].kind /\ req'[r].via = req[r].via
          /\ req'[r].cred = req[r].cred /\ req'[r].late = req[r].late
          /\ Step(r) = "auth" => Authorized(r)
    /\ inUse' = inUse - Taken(r)
StartsAfresh == req' = [r \in Reqs |-> Idle] /\ inUse' = 0

Handles(r) == Arrives(r) \/ Connects(r) \/ MovesOn(r)

LEMMA ProceedMovesOn ==
    ASSUME TypeInv, NEW r \in Reqs, req[r].todo # << >>, Step(r) # "auth", Proceed(r),
           inUse' = inUse - Taken(r)
    PROVE  MovesOn(r)
<1>1. req[r] # Idle
  BY DEF Idle
<1>2. req \in [Reqs -> {Idle} \cup Request] /\ req[r] \in Request
  BY <1>1 DEF TypeInv, RequestsSound
<1> DEFINE q == [req[r] EXCEPT !.todo = Tail(@), !.connected = FALSE]
<1>3. req' = [req EXCEPT ![r] = req'[r]] /\ req'[r] \in {Idle, q}
  <2>1. req' = [req EXCEPT ![r] = IF Tail(req[r].todo) = << >> THEN Idle ELSE q]
    BY DEF Proceed
  <2> HIDE DEF q
  <2> QED BY <1>2, <2>1
<1>4. /\ q \in Request /\ ~q.connected /\ q.kind = req[r].kind /\ q.via = req[r].via
      /\ q.cred = req[r].cred /\ q.late = req[r].late
  <2>1. Tail(req[r].todo) \in Seq(Steps)
    BY <1>2 DEF Request
  <2> QED BY <1>2, <2>1 DEF Request
<1> HIDE DEF q
<1> QED BY <1>1, <1>3, <1>4 DEF MovesOn

LEMMA FinishMovesOn ==
    ASSUME TypeInv, NEW r \in Reqs, req[r] # Idle, Finish(r), inUse' = inUse - Taken(r)
    PROVE  MovesOn(r)
<1>1. req \in [Reqs -> {Idle} \cup Request]
  BY DEF TypeInv, RequestsSound
<1>2. req' = [req EXCEPT ![r] = req'[r]] /\ req'[r] = Idle
  BY <1>1 DEF Finish
<1> QED BY <1>2 DEF MovesOn

LEMMA RequestEffects ==
    ASSUME TypeInv, [Next]_vars
    PROVE  Stay \/ StartsAfresh \/ \E r \in Reqs : Handles(r)
<1> DEFINE Goal == Stay \/ StartsAfresh \/ \E r \in Reqs : Handles(r)
<1>0. ASSUME NEW r \in Reqs, req[r] # Idle, ~req[r].connected PROVE Taken(r) = 0
  BY <1>0 DEF Taken, Holding
<1>00. inUse \in Int
  BY DEF TypeInv, TypeOK
<1>000. ASSUME NEW r \in Reqs, NEW step, At(r, step) PROVE req[r] # Idle
  BY <1>000 DEF At, Idle
<1>1. ASSUME NEW r \in Reqs, NEW via \in {"http", "mcp"}, NEW k \in Kinds,
             NEW c \in Credentials, Arrive(r, via, k, c)
      PROVE  Goal
  <2>1. PICK plan \in Surface(via)[k].plans :
           req' = [req EXCEPT ![r] =
                     [todo |-> <<"auth", "charge">> \o plan, connected |-> FALSE,
                      via |-> via, kind |-> k, cred |-> c, holds |-> {},
                      late |-> c \in DOMAIN creds /\ ~Usable(creds[c])]]
    BY <1>1 DEF Arrive
  <2>2. k \in DOMAIN Surface(via) /\ req[r] = Idle /\ inUse' = inUse
    BY <1>1 DEF Arrive
  <2>3. plan \in Seq(Steps)
    BY <2>1, <2>2, PlansAreSequences DEF Surface
  <2> DEFINE todo == <<"auth", "charge">> \o plan
             late == c \in DOMAIN creds /\ ~Usable(creds[c])
  <2>4. todo \in Seq(Steps) /\ Head(todo) = "auth"
    BY <2>3 DEF Steps
  <2>5. late \in BOOLEAN
    OBVIOUS
  <2>6. PICK l \in BOOLEAN : l = late
    BY <2>5
  <2>7. req' = [req EXCEPT ![r] = [todo |-> todo, connected |-> FALSE, via |-> via, kind |-> k,
                                   cred |-> c, holds |-> {}, late |-> l]]
    BY <2>1, <2>6
  <2> HIDE DEF todo
  <2>8. req'[r] = [todo |-> todo, connected |-> FALSE, via |-> via, kind |-> k,
                   cred |-> c, holds |-> {}, late |-> l]
    BY <2>7 DEF TypeInv, RequestsSound
  <2>9. /\ req'[r] \in Request /\ ~req'[r].connected /\ req'[r].kind = k /\ req'[r].via = via
        /\ Head(req'[r].todo) = "auth" /\ req'[r].cred = c /\ req'[r].late = l
    BY <2>4, <2>8 DEF Request
  <2>10. req' = [req EXCEPT ![r] = req'[r]]
    BY <2>7, <2>8
  <2>11. req'[r].late => c \in DOMAIN creds /\ ~Usable(creds[c])
    BY <2>6, <2>9
  <2> QED BY <2>2, <2>9, <2>10, <2>11 DEF Arrives, Handles
<1>2. ASSUME NEW r \in Reqs, Checkout(r) PROVE Goal
  <2>1. req[r] # Idle
    BY <1>2, <1>000 DEF Checkout, InDatabase
  <2> QED BY <1>2, <2>1 DEF Checkout, Handles, Connects
<1>3. ASSUME NEW r \in Reqs, Saturated(r) PROVE Goal
  <2>1. req[r] # Idle /\ Taken(r) = 0
    BY <1>0, <1>3, <1>000 DEF Saturated, InDatabase
  <2>2. Finish(r) /\ inUse' = inUse - Taken(r)
    BY <1>3, <1>00, <2>1 DEF Saturated
  <2> QED BY <2>1, <2>2, FinishMovesOn DEF Handles
<1>4. ASSUME NEW r \in Reqs, Authenticate(r) PROVE Goal
  <2>1. At(r, "auth") /\ req[r].connected /\ req[r] # Idle
    BY <1>4, <1>000 DEF Authenticate
  <2>2. inUse' = inUse - Taken(r)
    BY <1>4, <2>1 DEF Authenticate, Checkin, Taken, Holding
  <2>3. CASE ~Authorized(r)
    <3>1. Finish(r)
      BY <1>4, <2>3 DEF Authenticate
    <3> QED BY <2>1, <2>2, <3>1, FinishMovesOn DEF Handles
  <2>4. CASE Authorized(r)
    <3>1. req \in [Reqs -> {Idle} \cup Request] /\ req[r] \in Request
      BY <2>1 DEF TypeInv, RequestsSound
    <3>2. PICK S : S = creds[req[r].cred].scopes
      OBVIOUS
    <3>3. S \in SUBSET Scopes
      BY <2>4, <3>2 DEF Authorized, TypeInv, TypeOK, Row
    <3>4. req' = [req EXCEPT ![r].todo = Tail(req[r].todo), ![r].connected = FALSE, ![r].holds = S]
      BY <1>4, <2>4, <3>1, <3>2 DEF Authenticate
    <3>5. req'[r] = [req[r] EXCEPT !.todo = Tail(req[r].todo), !.connected = FALSE, !.holds = S]
      BY <3>1, <3>4
    <3>6. Tail(req[r].todo) \in Seq(Steps)
      BY <2>1, <3>1 DEF Request, At
    <3>7. /\ req'[r] \in Request /\ ~req'[r].connected /\ req'[r].kind = req[r].kind
          /\ req'[r].via = req[r].via /\ req'[r].cred = req[r].cred /\ req'[r].late = req[r].late
      BY <3>1, <3>3, <3>5, <3>6 DEF Request
    <3>8. req' = [req EXCEPT ![r] = req'[r]]
      BY <3>1, <3>4
    <3> QED BY <2>1, <2>2, <2>4, <3>7, <3>8 DEF MovesOn, Handles
  <2> QED BY <2>3, <2>4
<1>5. ASSUME NEW r \in Reqs, Admit(r) PROVE Goal
  <2>1. At(r, "charge") /\ req[r] # Idle
    BY <1>5, <1>000 DEF Admit
  <2>2. ~req[r].connected /\ Step(r) # "auth" /\ req[r].todo # << >>
    BY <2>1 DEF TypeInv, RequestsSound, At, InDatabase
  <2>3. inUse' = inUse - Taken(r)
    BY <1>0, <1>00, <1>5, <2>1, <2>2 DEF Admit
  <2>4. Finish(r) \/ Proceed(r)
    BY <1>5 DEF Admit, Charge
  <2> QED BY <2>1, <2>2, <2>3, <2>4, FinishMovesOn, ProceedMovesOn DEF Handles
<1>6. ASSUME NEW r \in Reqs, Transact(r) PROVE Goal
  <2>1. At(r, "db") /\ req[r] # Idle /\ Step(r) # "auth" /\ req[r].todo # << >>
    BY <1>6, <1>000 DEF Transact, At
  <2>2. Proceed(r) /\ inUse' = inUse - Taken(r)
    BY <1>6, <2>1 DEF Transact, Checkin, Taken, Holding
  <2> QED BY <2>1, <2>2, ProceedMovesOn DEF Handles
<1>7. ASSUME NEW r \in Reqs, Embed(r) PROVE Goal
  <2>1. At(r, "embed") /\ req[r] # Idle /\ Step(r) # "auth" /\ req[r].todo # << >>
    BY <1>7, <1>000 DEF Embed, At
  <2>2. ~req[r].connected
    BY <2>1 DEF TypeInv, RequestsSound, At, InDatabase
  <2>3. Proceed(r) /\ inUse' = inUse - Taken(r)
    BY <1>0, <1>00, <1>7, <2>1, <2>2 DEF Embed
  <2> QED BY <2>1, <2>3, ProceedMovesOn DEF Handles
<1>8. ASSUME NEW r \in Reqs, Fail(r) PROVE Goal
  <2>1. req[r] # Idle /\ Finish(r) /\ inUse' = inUse - Taken(r)
    BY <1>8 DEF Fail, GivenBack, Taken, Holding
  <2> QED BY <2>1, FinishMovesOn DEF Handles
<1>9. ASSUME Restart PROVE Goal
  BY <1>9 DEF Restart, StartsAfresh
<1>10. ASSUME NEW c \in Credentials, NEW p, NEW S, NEW days, Issue(c, p, S, days) PROVE Goal
  BY <1>10 DEF Issue, Stay
<1>11. ASSUME NEW c \in Credentials, Revoke(c) PROVE Goal
  BY <1>11 DEF Revoke, Stay
<1>12. ASSUME NEW o \in Operators, NEW c, NEW S, NEW granting, ReadScopes(o, c, S, granting)
       PROVE  Goal
  BY <1>12 DEF ReadScopes, Stay
<1>13. ASSUME NEW o \in Operators, WriteScopes(o) PROVE Goal
  BY <1>13 DEF WriteScopes, Stay
<1>14. ASSUME Tick PROVE Goal
  BY <1>14 DEF Tick, Stay
<1>15. ASSUME UNCHANGED vars PROVE Goal
  BY <1>15 DEF vars, Stay
<1> HIDE DEF Goal
<1>16. Goal
  BY <1>1, <1>2, <1>3, <1>4, <1>5, <1>6, <1>7, <1>8, <1>9, <1>10, <1>11, <1>12, <1>13,
     <1>14, <1>15 DEF Next
<1> QED BY <1>16 DEF Goal

(* A credential stays the same principal's, lapses when it was to lapse,   *)
(* and once it is revoked or has expired is never usable again.            *)
CredsTyped == creds \in [DOMAIN creds -> Row] /\ DOMAIN creds \subseteq Credentials
Keeps(c) ==
    /\ c \in DOMAIN creds'
    /\ creds'[c].principal = creds[c].principal
    /\ ~Usable(creds[c]) => ~Usable(creds[c])'

LEMMA CredEffects ==
    ASSUME TypeInv, [Next]_vars
    PROVE  CredsTyped' /\ now' \in 0..MaxTime /\ now <= now' /\ \A c \in DOMAIN creds : Keeps(c)
<1> DEFINE Goal == /\ CredsTyped' /\ now' \in 0..MaxTime /\ now <= now'
                   /\ \A c \in DOMAIN creds : Keeps(c)
<1>0. now \in 0..MaxTime /\ MaxTime \in Nat /\ CredsTyped
  BY GateAssumption DEF TypeInv, TypeOK, CredsTyped
<1>1. ASSUME UNCHANGED creds, now' = now PROVE Goal
  BY <1>0, <1>1 DEF CredsTyped, Keeps, Usable
<1>2. ASSUME now' = now, NEW c \in DOMAIN creds, NEW row, row \in Row,
             creds' = [creds EXCEPT ![c] = row],
             row.principal = creds[c].principal, row.expires = creds[c].expires,
             creds[c].revoked # Never => row.revoked # Never
      PROVE  Goal
  <2>1. CredsTyped'
    BY <1>0, <1>2 DEF CredsTyped
  <2>2. ASSUME NEW d \in DOMAIN creds PROVE Keeps(d)
    <3>1. CASE d = c
      <4>1. creds'[d] = row /\ d \in DOMAIN creds'
        BY <1>0, <1>2, <3>1 DEF CredsTyped
      <4> QED BY <1>2, <3>1, <4>1 DEF Keeps, Usable
    <3>2. CASE d # c
      <4>1. creds'[d] = creds[d] /\ d \in DOMAIN creds'
        BY <1>0, <1>2, <3>2 DEF CredsTyped
      <4> QED BY <1>2, <4>1 DEF Keeps, Usable
    <3> QED BY <3>1, <3>2
  <2> QED BY <1>0, <1>2, <2>1, <2>2
<1>3. ASSUME NEW r \in Reqs, Authenticate(r) PROVE Goal
  <2>1. now' = now
    BY <1>3 DEF Authenticate
  <2>2. CASE creds' = creds
    BY <1>1, <2>1, <2>2
  <2>3. CASE creds' # creds
    <3>1. PICK c : c = req[r].cred
      OBVIOUS
    <3>2. c \in DOMAIN creds /\ creds' = [creds EXCEPT ![c].used = now]
      BY <1>3, <2>3, <3>1 DEF Authenticate, Authorized
    <3>3. creds[c] \in Row
      BY <1>0, <3>2 DEF CredsTyped
    <3> DEFINE row == [creds[c] EXCEPT !.used = now]
    <3>4. /\ row \in Row /\ row.principal = creds[c].principal
          /\ row.expires = creds[c].expires /\ row.revoked = creds[c].revoked
      BY <1>0, <3>3 DEF Row
    <3>5. creds' = [creds EXCEPT ![c] = row]
      BY <3>2
    <3> HIDE DEF row
    <3> QED BY <1>2, <2>1, <3>2, <3>4, <3>5
  <2> QED BY <2>2, <2>3
<1>4. ASSUME NEW c \in Credentials, NEW p \in Principals, NEW S \in SUBSET Scopes,
             NEW days \in Lifetimes \cup {Never}, Issue(c, p, S, days)
      PROVE  Goal
  <2> DEFINE row == [principal |-> p, scopes |-> S, revoked |-> Never, used |-> Never,
                     expires |-> IF days = Never THEN Never ELSE now + days]
  <2>1. c \notin DOMAIN creds /\ creds' = With(creds, c, row) /\ now' = now
    BY <1>4 DEF Issue
  <2>2. row \in Row
    <3>1. row.expires \in {Never} \cup {t + d : t \in 0..MaxTime, d \in Lifetimes}
      BY <1>0
    <3>2. Never \in 0..MaxTime \cup {Never}
      OBVIOUS
    <3> QED BY <3>1, <3>2 DEF Row
  <2> HIDE DEF row
  <2>3. /\ DOMAIN creds' = DOMAIN creds \cup {c} /\ creds'[c] = row
        /\ \A d \in DOMAIN creds : creds'[d] = creds[d]
    BY <2>1 DEF With
  <2>4. creds' \in [DOMAIN creds' -> Row]
    BY <1>0, <2>1, <2>2, <2>3 DEF With, CredsTyped
  <2> QED BY <1>0, <2>1, <2>3, <2>4 DEF CredsTyped, Keeps, Usable
<1>5. ASSUME NEW c \in Credentials, Revoke(c) PROVE Goal
  <2>1. c \in DOMAIN creds /\ creds' = [creds EXCEPT ![c].revoked = now] /\ now' = now
    BY <1>5 DEF Revoke
  <2>2. creds[c] \in Row
    BY <1>0, <2>1 DEF CredsTyped
  <2> DEFINE row == [creds[c] EXCEPT !.revoked = now]
  <2>3. /\ row \in Row /\ row.principal = creds[c].principal
        /\ row.expires = creds[c].expires /\ row.revoked # Never
    BY <1>0, <2>2 DEF Row, Never
  <2>4. creds' = [creds EXCEPT ![c] = row]
    BY <2>1
  <2> HIDE DEF row
  <2> QED BY <1>2, <2>1, <2>3, <2>4
<1>6. ASSUME NEW o \in Operators, WriteScopes(o) PROVE Goal
  <2>1. PICK op : op = command[o]
    OBVIOUS
  <2>2. op \in Adjustment /\ now' = now
    BY <1>6, <2>1 DEF WriteScopes, TypeInv
  <2>3. PICK S : /\ S \in SUBSET Scopes
                 /\ creds' = [creds EXCEPT ![op.cred].scopes = S]
    <3> DEFINE S == IF op.granting THEN op.before \cup op.scopes ELSE op.before \ op.scopes
    <3>1. S \in SUBSET Scopes
      BY <2>2 DEF Adjustment
    <3>2. creds' = [creds EXCEPT ![op.cred].scopes = S]
      BY <1>6, <2>1 DEF WriteScopes
    <3> QED BY <3>1, <3>2
  <2>4. CASE op.cred \notin DOMAIN creds
    <3>1. creds' = creds
      BY <1>0, <2>3, <2>4 DEF CredsTyped
    <3> QED BY <1>1, <2>2, <3>1
  <2>5. CASE op.cred \in DOMAIN creds
    <3>1. PICK c : c = op.cred
      OBVIOUS
    <3>2. creds[c] \in Row
      BY <1>0, <2>5, <3>1 DEF CredsTyped
    <3> DEFINE row == [creds[c] EXCEPT !.scopes = S]
    <3>3. /\ row \in Row /\ row.principal = creds[c].principal
          /\ row.expires = creds[c].expires /\ row.revoked = creds[c].revoked
      BY <2>3, <3>2 DEF Row
    <3>4. creds' = [creds EXCEPT ![c] = row]
      BY <2>3, <3>1
    <3> HIDE DEF row
    <3> QED BY <1>2, <2>2, <2>5, <3>1, <3>3, <3>4
  <2> QED BY <2>4, <2>5
<1>7. ASSUME Tick PROVE Goal
  <2>1. creds' = creds /\ now' = now + 1 /\ now < MaxTime
    BY <1>7 DEF Tick
  <2>2. ASSUME NEW c \in DOMAIN creds, ~Usable(creds[c]) PROVE ~Usable(creds[c])'
    <3>1. creds[c] \in Row
      BY <1>0 DEF CredsTyped
    <3>2. creds[c].expires \in Int
      BY <3>1, GateAssumption DEF Row, Never
    <3> QED BY <1>0, <2>1, <2>2, <3>2 DEF Usable
  <2> QED BY <1>0, <2>1, <2>2 DEF CredsTyped, Keeps
<1> HIDE DEF Goal
<1>8. ASSUME NEW r \in Reqs PROVE Checkout(r) \/ Saturated(r) \/ Admit(r) \/ Transact(r)
                                  \/ Embed(r) \/ Fail(r) => Goal
  BY <1>1 DEF Checkout, Saturated, Admit, Transact, Embed, Fail
<1>9. ASSUME NEW r \in Reqs, NEW via, NEW k, NEW c, Arrive(r, via, k, c) PROVE Goal
  BY <1>1, <1>9 DEF Arrive
<1>10. Restart \/ UNCHANGED vars => Goal
  BY <1>1 DEF Restart, vars
<1>11. ASSUME NEW o, NEW c, NEW S, NEW granting, ReadScopes(o, c, S, granting) PROVE Goal
  BY <1>1, <1>11 DEF ReadScopes
<1>12. Goal
  BY <1>3, <1>4, <1>5, <1>6, <1>7, <1>8, <1>9, <1>10, <1>11 DEF Next
<1> QED BY <1>12 DEF Goal

(* What a bucket holds lies between nothing and full; one that is not kept *)
(* is full, and so is one that may be forgotten.                           *)
BucketsTyped ==
    \A x \in DOMAIN buckets :
        /\ x \in Principals \X Buckets /\ x[2] \in DOMAIN Limits
        /\ buckets[x].tokens \in 0..Full(x[1], x[2]) /\ buckets[x].at \in 0..now

LEMMA LevelFacts ==
    ASSUME BucketsTyped, now \in Nat, NEW p, NEW b \in DOMAIN Limits
    PROVE  /\ Level(p, b) \in 0..Full(p, b)
           /\ <<p, b>> \notin DOMAIN buckets => Level(p, b) = Full(p, b)
           /\ <<p, b>> \in DOMAIN buckets =>
                 /\ Forgettable(p, b, buckets[<<p, b>>].at) => Level(p, b) = Full(p, b)
                 /\ buckets[<<p, b>>].at = now => Level(p, b) = buckets[<<p, b>>].tokens
<1> DEFINE full == Full(p, b)
           refill == LimitFor(p, b).refill
<1>1. full \in Nat /\ refill \in Nat
  BY LimitFacts
<1>2. CASE <<p, b>> \notin DOMAIN buckets
  <2>1. Level(p, b) = full
    BY <1>2 DEF Level, Full
  <2> QED BY <1>1, <1>2, <2>1
<1>3. CASE <<p, b>> \in DOMAIN buckets
  <2>1. PICK tokens, at : tokens = buckets[<<p, b>>].tokens /\ at = buckets[<<p, b>>].at
    OBVIOUS
  <2>2. tokens \in 0..full /\ at \in 0..now
    BY <1>3, <2>1 DEF BucketsTyped
  <2>3. PICK gain : gain = (now - at) * refill
    OBVIOUS
  <2>4. Level(p, b) = Min({full, tokens + gain})
    BY <1>3, <2>1, <2>3 DEF Level, Full
  <2>5. gain \in Nat /\ (at = now => gain = 0)
    <3>1. now - at \in Nat
      BY <2>2
    <3>2. gain \in Nat
      BY <1>1, <2>3, <3>1, Products
    <3>3. at = now => now - at = 0
      BY <2>2
    <3>4. 0 * refill = 0
      BY <1>1
    <3> QED BY <2>3, <3>2, <3>3, <3>4
  <2>6. Forgettable(p, b, at) => gain >= full
    BY <2>3 DEF Forgettable, Full
  <2> HIDE DEF full, refill
  <2>7. Level(p, b) = IF full <= tokens + gain THEN full ELSE tokens + gain
    <3>1. tokens + gain \in Int
      BY <1>1, <2>2, <2>5
    <3> QED BY <1>1, <2>4, <3>1, MinOfTwo
  <2>8. Level(p, b) \in 0..full
    BY <1>1, <2>2, <2>5, <2>7
  <2>9. Forgettable(p, b, at) => Level(p, b) = full
    BY <1>1, <2>2, <2>5, <2>6, <2>7
  <2>10. at = now => Level(p, b) = tokens
    BY <1>1, <2>2, <2>5, <2>7
  <2> QED BY <1>3, <2>1, <2>8, <2>9, <2>10 DEF full
<1> QED BY <1>2, <1>3

(* The charge of a request takes a token from one bucket, whatever buckets *)
(* it prunes.                                                              *)
LEMMA Charged ==
    ASSUME BucketsTyped, now \in Nat, now' = now,
           NEW p \in Principals, NEW b \in DOMAIN Limits, NEW left,
           left \in 0..Level(p, b),
           buckets' = Pruned(With(buckets, <<p, b>>, [tokens |-> left, at |-> now]))
    PROVE  /\ BucketsTyped' /\ Level(p, b)' = left
           /\ \A q \in Principals, c \in DOMAIN Limits :
                 <<q, c>> # <<p, b>> => Level(q, c)' = Level(q, c)
<1> DEFINE x == <<p, b>>
           charged == With(buckets, x, [tokens |-> left, at |-> now])
<1>0. b \in Buckets /\ Level(p, b) \in 0..Full(p, b) /\ Full(p, b) \in Nat
  BY GateAssumption, LevelFacts, LimitFacts
<1>1. PICK held : held = charged
  OBVIOUS
<1>2. /\ DOMAIN held = DOMAIN buckets \cup {x}
      /\ held[x].tokens = left /\ held[x].at = now
      /\ \A y \in DOMAIN buckets : y # x => held[y] = buckets[y]
  BY <1>1 DEF With
<1>3. /\ DOMAIN buckets' \subseteq DOMAIN held
      /\ \A y \in DOMAIN buckets' : buckets'[y] = held[y]
      /\ \A y \in DOMAIN held \ DOMAIN buckets' : Forgettable(y[1], y[2], held[y].at)
  <2>1. buckets' = Pruned(held)
    BY <1>1
  <2>2. CASE Cardinality(DOMAIN held) <= PruneAbove
    BY <2>1, <2>2 DEF Pruned
  <2>3. CASE ~(Cardinality(DOMAIN held) <= PruneAbove)
    <3> DEFINE gone == {y \in DOMAIN held : Forgettable(y[1], y[2], held[y].at)}
    <3>1. buckets' = Without(held, gone)
      BY <2>1, <2>3 DEF Pruned
    <3>2. \A y \in gone : Forgettable(y[1], y[2], held[y].at)
      OBVIOUS
    <3> HIDE DEF gone
    <3> QED BY <3>1, <3>2 DEF Without
  <2> QED BY <2>2, <2>3
<1> HIDE DEF charged
<1>4. x \in DOMAIN buckets'
  <2>1. ~Forgettable(p, b, now)
    <3>1. (now - now) * LimitFor(p, b).refill = 0
      BY LimitFacts
    <3>2. Full(p, b) > 0
      BY LimitFacts
    <3>3. Forgettable(p, b, now) => (now - now) * LimitFor(p, b).refill >= Full(p, b)
      BY DEF Forgettable, Full
    <3>4. ~(0 >= Full(p, b))
      BY <1>0, <3>2
    <3> QED BY <3>1, <3>3, <3>4
  <2> QED BY <1>2, <1>3, <2>1
<1>5. ASSUME NEW y \in DOMAIN buckets'
      PROVE  /\ y \in Principals \X Buckets /\ y[2] \in DOMAIN Limits
             /\ buckets'[y].tokens \in 0..Full(y[1], y[2]) /\ buckets'[y].at \in 0..now
  <2>1. CASE y = x
    <3>1. buckets'[y].tokens = left /\ buckets'[y].at = now /\ y[1] = p /\ y[2] = b
      BY <1>2, <1>3, <1>4, <2>1
    <3>2. left \in 0..Full(p, b) /\ now \in 0..now
      BY <1>0
    <3> HIDE DEF x
    <3>3. y \in Principals \X Buckets
      BY <1>0, <2>1 DEF x
    <3> QED BY <3>1, <3>2, <3>3
  <2>2. CASE y # x
    <3>1. y \in DOMAIN buckets /\ buckets'[y] = buckets[y]
      BY <1>2, <1>3, <2>2
    <3> QED BY <3>1 DEF BucketsTyped
  <2> QED BY <2>1, <2>2
<1>6. BucketsTyped'
  <2>1. \A y \in DOMAIN buckets' :
          /\ y \in Principals \X Buckets /\ y[2] \in DOMAIN Limits
          /\ buckets'[y].tokens \in 0..Full(y[1], y[2]) /\ buckets'[y].at \in 0..now'
    BY <1>5
  <2> QED BY <2>1 DEF BucketsTyped, Full, LimitFor
<1>7. ASSUME NEW q \in Principals, NEW c \in DOMAIN Limits
      PROVE  Level(q, c)' = IF <<q, c>> \notin DOMAIN buckets' THEN Full(q, c)
                            ELSE Min({Full(q, c), buckets'[<<q, c>>].tokens
                                   + (now - buckets'[<<q, c>>].at) * LimitFor(q, c).refill})
  BY DEF Level, Full, LimitFor
<1>8. Level(p, b)' = left
  <2>1. Level(p, b)' = Min({Full(p, b), left + (now - now) * LimitFor(p, b).refill})
    BY <1>2, <1>3, <1>4, <1>7
  <2>2. (now - now) * LimitFor(p, b).refill = 0
    BY LimitFacts
  <2>3. Min({Full(p, b), left + 0}) = left
    BY <1>0, MinOfTwo
  <2> QED BY <2>1, <2>2, <2>3
<1>9. ASSUME NEW q \in Principals, NEW c \in DOMAIN Limits, <<q, c>> # x
      PROVE  Level(q, c)' = Level(q, c)
  <2> DEFINE y == <<q, c>>
  <2>1. CASE y \in DOMAIN buckets'
    <3>1. y \in DOMAIN buckets /\ buckets'[y] = buckets[y]
      BY <1>2, <1>3, <1>9, <2>1
    <3>2. Level(q, c) = Min({Full(q, c), buckets[y].tokens
                               + (now - buckets[y].at) * LimitFor(q, c).refill})
      BY <3>1 DEF Level, Full
    <3> QED BY <1>7, <2>1, <3>1, <3>2
  <2>2. CASE y \notin DOMAIN buckets'
    <3>1. Level(q, c)' = Full(q, c)
      BY <1>7, <2>2
    <3>2. CASE y \notin DOMAIN buckets
      BY <3>1, <3>2, LevelFacts
    <3>3. CASE y \in DOMAIN buckets
      <4>1. Forgettable(q, c, buckets[y].at)
        <5>1. y \in DOMAIN held \ DOMAIN buckets' /\ held[y] = buckets[y]
          BY <1>2, <1>9, <2>2, <3>3
        <5>2. y[1] = q /\ y[2] = c
          OBVIOUS
        <5> HIDE DEF y
        <5> QED BY <1>3, <5>1, <5>2
      <4> QED BY <3>1, <3>3, <4>1, LevelFacts
    <3> QED BY <3>2, <3>3
  <2> QED BY <2>1, <2>2
<1> QED BY <1>6, <1>8, <1>9

(* What a step does to the quotas.                                         *)
LevelsFall == \A q \in Principals, c \in DOMAIN Limits : Level(q, c)' <= Level(q, c)
LetsNobodyIn == now' = now /\ admitted' = admitted /\ LevelsFall
LetsIn(p, k) ==
    /\ now' = now
    /\ admitted' = [admitted EXCEPT ![<<p, k>>] = OneMore(@)]
    /\ LevelsFall
    /\ Level(p, BucketOf(k))' = Level(p, BucketOf(k)) - Parts
Forgets ==
    /\ now' = now /\ DOMAIN buckets' = {}
    /\ admitted' = NoneYet
Passes == now' = now + 1 /\ now < MaxTime /\ buckets' = buckets /\ admitted' = admitted

LEMMA BucketEffects ==
    ASSUME TypeInv, [Next]_vars
    PROVE  /\ BucketsTyped'
           /\ LetsNobodyIn \/ Forgets \/ Passes \/ \E p \in Principals, k \in Kinds : LetsIn(p, k)
<1> DEFINE Goal ==
      /\ BucketsTyped'
      /\ LetsNobodyIn \/ Forgets \/ Passes \/ \E p \in Principals, k \in Kinds : LetsIn(p, k)
<1>0. BucketsTyped /\ now \in Nat
  BY GateAssumption DEF TypeInv, TypeOK, BucketsTyped, Full
<1>1. ASSUME UNCHANGED <<buckets, now, admitted>> PROVE Goal
  <2>1. ASSUME NEW q \in Principals, NEW c \in DOMAIN Limits PROVE Level(q, c)' <= Level(q, c)
    <3>1. Level(q, c)' = Level(q, c)
      BY <1>1 DEF Level, LimitFor
    <3>2. Level(q, c) \in Int
      <4>1. Level(q, c) \in 0..Full(q, c)
        BY <1>0, LevelFacts
      <4>2. Full(q, c) \in Nat
        BY LimitFacts
      <4> QED BY <4>1, <4>2
    <3> QED BY <3>1, <3>2
  <2>2. BucketsTyped'
    BY <1>0, <1>1 DEF BucketsTyped, Full, LimitFor
  <2> QED BY <1>1, <2>1, <2>2 DEF LetsNobodyIn, LevelsFall
<1>2. ASSUME NEW r \in Reqs, Admit(r) PROVE Goal
  <2>1. req[r] # Idle /\ At(r, "charge") /\ now' = now
    BY <1>2 DEF Admit, At, Idle
  <2>2. CASE ~(Needs(r) \subseteq req[r].holds)
    BY <1>1, <1>2, <2>1, <2>2 DEF Admit
  <2>3. CASE Needs(r) \subseteq req[r].holds
    <3>1. PICK p, k, b : /\ p = creds[req[r].cred].principal /\ k = req[r].kind
                         /\ b = Surface(req[r].via)[k].bucket
      OBVIOUS
    <3>2. Charge(r, p, b)
      BY <1>2, <2>3, <3>1 DEF Admit
    <3>3. req[r] \in Request /\ k \in DOMAIN Surface(req[r].via) /\ req[r].cred \in DOMAIN creds
      BY <2>1, <3>1 DEF TypeInv, RequestsSound, At
    <3>4. p \in Principals
      BY <3>1, <3>3 DEF TypeInv, TypeOK, Row
    <3>5. k \in Kinds /\ b = BucketOf(k) /\ b \in DOMAIN Limits
      <4>1. k \in Kinds /\ req[r].via \in {"http", "mcp"}
        BY <3>1, <3>3 DEF Request
      <4> QED BY <3>1, <3>3, <4>1, BucketFacts
    <3> DEFINE level == Level(p, b)
               allowed == level >= Parts
               left == IF allowed THEN level - Parts ELSE level
    <3>6. level \in 0..Full(p, b) /\ Full(p, b) \in Nat /\ Parts \in Nat \ {0}
      BY <1>0, <3>5, LevelFacts, LimitFacts
    <3>7. PICK rest : rest = left
      OBVIOUS
    <3>8. /\ buckets' = Pruned(With(buckets, <<p, b>>, [tokens |-> rest, at |-> now]))
          /\ allowed => admitted' = [admitted EXCEPT ![<<p, k>>] = OneMore(@)]
          /\ ~allowed => admitted' = admitted
      BY <3>1, <3>2, <3>7 DEF Charge
    <3>9. rest \in 0..level /\ (allowed => rest = level - Parts)
      <4> HIDE DEF level
      <4> QED BY <3>6, <3>7
    <3>10. /\ BucketsTyped' /\ Level(p, b)' = rest
           /\ \A q \in Principals, c \in DOMAIN Limits :
                 <<q, c>> # <<p, b>> => Level(q, c)' = Level(q, c)
      BY <1>0, <2>1, <3>4, <3>5, <3>8, <3>9, Charged
    <3>11. ASSUME NEW q \in Principals, NEW c \in DOMAIN Limits
           PROVE  Level(q, c)' <= Level(q, c)
      <4>1. Level(q, c) \in Int
        <5>1. Level(q, c) \in 0..Full(q, c)
          BY <1>0, LevelFacts
        <5>2. Full(q, c) \in Nat
          BY LimitFacts
        <5> QED BY <5>1, <5>2
      <4>2. CASE <<q, c>> = <<p, b>>
        <5>1. Level(q, c)' = rest /\ Level(q, c) = level
          BY <3>10, <4>2
        <5> HIDE DEF level
        <5> QED BY <3>6, <3>9, <5>1
      <4>3. CASE <<q, c>> # <<p, b>>
        BY <3>10, <4>1, <4>3
      <4> QED BY <4>2, <4>3
    <3>12. CASE allowed
      <4>1. LetsIn(p, k)
        BY <2>1, <3>5, <3>8, <3>9, <3>10, <3>11, <3>12 DEF LetsIn, LevelsFall
      <4> QED BY <3>4, <3>5, <3>10, <4>1
    <3>13. CASE ~allowed
      BY <2>1, <3>8, <3>10, <3>11, <3>13 DEF LetsNobodyIn, LevelsFall
    <3> QED BY <3>12, <3>13
  <2> QED BY <2>2, <2>3
<1>3. ASSUME Restart PROVE Goal
  <2>1. now' = now /\ buckets' = << >> /\ DOMAIN << >> = {}
    BY <1>3 DEF Restart
  <2>2. DOMAIN buckets' = {} /\ BucketsTyped'
    BY <2>1 DEF BucketsTyped
  <2> QED BY <1>3, <2>1, <2>2 DEF Restart, Forgets
<1>4. ASSUME Tick PROVE Goal
  <2>1. Passes
    BY <1>4 DEF Tick, Passes
  <2>2. BucketsTyped'
    <3>1. ASSUME NEW x \in DOMAIN buckets
          PROVE  /\ x \in Principals \X Buckets /\ x[2] \in DOMAIN Limits
                 /\ buckets[x].tokens \in 0..Full(x[1], x[2]) /\ buckets[x].at \in 0..now + 1
      BY <1>0 DEF BucketsTyped
    <3> QED BY <2>1, <3>1 DEF Passes, BucketsTyped, Full, LimitFor
  <2> QED BY <2>1, <2>2
<1> HIDE DEF Goal
<1>5. ASSUME NEW r \in Reqs
      PROVE  Checkout(r) \/ Saturated(r) \/ Authenticate(r) \/ Transact(r) \/ Embed(r)
                \/ Fail(r) => Goal
  BY <1>1 DEF Checkout, Saturated, Authenticate, Transact, Embed, Fail
<1>6. ASSUME NEW r, NEW via, NEW k, NEW c, Arrive(r, via, k, c) PROVE Goal
  BY <1>1, <1>6 DEF Arrive
<1>7. ASSUME NEW c, NEW p, NEW S, NEW days, Issue(c, p, S, days) PROVE Goal
  BY <1>1, <1>7 DEF Issue
<1>8. ASSUME NEW c, Revoke(c) PROVE Goal
  BY <1>1, <1>8 DEF Revoke
<1>9. ASSUME NEW o, NEW c, NEW S, NEW granting, ReadScopes(o, c, S, granting) PROVE Goal
  BY <1>1, <1>9 DEF ReadScopes
<1>10. ASSUME NEW o, WriteScopes(o) PROVE Goal
  BY <1>1, <1>10 DEF WriteScopes
<1>11. UNCHANGED vars => Goal
  BY <1>1 DEF vars
<1>12. Goal
  BY <1>2, <1>3, <1>4, <1>5, <1>6, <1>7, <1>8, <1>9, <1>10, <1>11 DEF Next
<1> QED BY <1>12 DEF Goal

(* No connection is lost and none is counted twice: what a step gives back *)
(* to the pool is what its request had.                                    *)
PoolCounts == inUse \in 0..PoolSize /\ inUse = Cardinality(Holding) /\ IsFiniteSet(Holding)

LEMMA PoolStaysCounted ==
    ASSUME TypeInv, [Next]_vars
    PROVE  PoolCounts'
<1>0. PoolCounts /\ PoolSize \in Nat
  BY GateAssumption DEF TypeInv, TypeOK, PoolCounts, Holding
<1>1. CASE Stay
  <2>1. Holding' = Holding
    BY <1>1 DEF Stay, Holding
  <2> QED BY <1>0, <1>1, <2>1 DEF Stay, PoolCounts
<1>2. CASE StartsAfresh
  <2>1. Holding' = {}
    BY <1>2 DEF StartsAfresh, Holding
  <2> QED BY <1>0, <1>2, <2>1, FS_EmptySet DEF StartsAfresh, PoolCounts
<1>3. ASSUME NEW r \in Reqs, Handles(r) PROVE PoolCounts'
  <2>0. req \in [Reqs -> {Idle} \cup Request]
    BY DEF TypeInv, RequestsSound
  <2>1. CASE Arrives(r)
    <3>1. Holding' = Holding
      BY <2>0, <2>1 DEF Arrives, Holding
    <3> QED BY <1>0, <2>1, <3>1 DEF Arrives, PoolCounts
  <2>2. CASE Connects(r)
    <3>1. req[r] \in Request /\ req'[r] = [req[r] EXCEPT !.connected = TRUE]
      BY <2>0, <2>2 DEF Connects
    <3>2. req'[r].connected /\ req'[r] # Idle
      <4>1. req'[r] \in Request /\ req'[r].connected
        BY <3>1 DEF Request
      <4> QED BY <4>1, NotIdle
    <3>3. Holding' = Holding \cup {r} /\ r \notin Holding
      BY <2>0, <2>2, <3>2 DEF Connects, Holding
    <3>4. IsFiniteSet(Holding') /\ Cardinality(Holding') = Cardinality(Holding) + 1
      BY <1>0, <3>3, FS_AddElement DEF PoolCounts
    <3>5. inUse < PoolSize /\ inUse' = inUse + 1
      BY <2>2 DEF Connects
    <3> QED BY <1>0, <3>4, <3>5 DEF PoolCounts
  <2>3. CASE MovesOn(r)
    <3>1. Holding' = Holding \ {r}
      BY <2>0, <2>3 DEF MovesOn, Holding
    <3>2. IsFiniteSet(Holding') /\ Cardinality(Holding') = Cardinality(Holding) - Taken(r)
      <4>1. /\ IsFiniteSet(Holding \ {r})
            /\ Cardinality(Holding \ {r}) =
                 IF r \in Holding THEN Cardinality(Holding) - 1 ELSE Cardinality(Holding)
        BY <1>0, FS_RemoveElement DEF PoolCounts
      <4>2. Cardinality(Holding) \in Int
        BY <1>0 DEF PoolCounts
      <4> QED BY <3>1, <4>1, <4>2 DEF Taken
    <3>3. Cardinality(Holding') \in Nat
      BY <3>2, FS_CardinalityType
    <3>4. inUse' = inUse - Taken(r) /\ Taken(r) \in {0, 1}
      BY <2>3 DEF MovesOn, Taken
    <3> QED BY <1>0, <3>2, <3>3, <3>4 DEF PoolCounts
  <2> QED BY <1>3, <2>1, <2>2, <2>3 DEF Handles
<1> QED BY <1>1, <1>2, <1>3, RequestEffects

LEMMA RequestsStaySound ==
    ASSUME TypeInv, [Next]_vars
    PROVE  RequestsSound'
<1> DEFINE Sound(r) == /\ req'[r] \in {Idle} \cup Request
                       /\ req'[r] # Idle =>
                             /\ req'[r].kind \in DOMAIN Surface(req'[r].via)
                             /\ req'[r].connected => InDatabase(r)'
                             /\ Step(r)' # "auth" => req'[r].cred \in DOMAIN creds'
<1>0. /\ req \in [Reqs -> {Idle} \cup Request] /\ DOMAIN creds \subseteq DOMAIN creds'
      /\ \A r \in Reqs : req[r] # Idle =>
            /\ req[r].kind \in DOMAIN Surface(req[r].via)
            /\ req[r].connected => InDatabase(r)
            /\ Step(r) # "auth" => req[r].cred \in DOMAIN creds
  <2>1. \A c \in DOMAIN creds : c \in DOMAIN creds'
    BY CredEffects DEF Keeps
  <2> QED BY <2>1 DEF TypeInv, RequestsSound
<1>1. ASSUME NEW r \in Reqs, req'[r] = req[r] PROVE Sound(r)
  BY <1>0, <1>1 DEF InDatabase, At, Step
<1>2. ASSUME req' \in [Reqs -> {Idle} \cup Request], \A r \in Reqs : Sound(r)
      PROVE  RequestsSound'
  <2>1. \A r \in Reqs : (req[r] # Idle =>
                           /\ req[r].kind \in DOMAIN Surface(req[r].via)
                           /\ req[r].connected => InDatabase(r)
                           /\ Step(r) # "auth" => req[r].cred \in DOMAIN creds)'
    BY <1>2 DEF Surface
  <2> QED BY <1>2, <2>1 DEF RequestsSound
<1>3. CASE Stay
  BY <1>0, <1>1, <1>2, <1>3 DEF Stay
<1>4. CASE StartsAfresh
  <2>1. req' \in [Reqs -> {Idle} \cup Request] /\ \A r \in Reqs : req'[r] = Idle
    BY <1>4 DEF StartsAfresh
  <2> QED BY <1>2, <2>1
<1>5. ASSUME NEW r \in Reqs, Handles(r) PROVE RequestsSound'
  <2>1. /\ req' = [req EXCEPT ![r] = req'[r]] /\ Sound(r)
    <3>1. CASE Arrives(r)
      BY <3>1 DEF Arrives, Step
    <3>2. CASE Connects(r)
      <4>1. req[r] \in Request /\ req'[r] = [req[r] EXCEPT !.connected = TRUE]
        BY <1>0, <3>2 DEF Connects
      <4>2. /\ req'[r] \in Request /\ req'[r].kind = req[r].kind /\ req'[r].via = req[r].via
            /\ req'[r].cred = req[r].cred /\ req'[r].todo = req[r].todo
        BY <4>1 DEF Request
      <4>3. InDatabase(r)' /\ Step(r)' = Step(r)
        BY <3>2, <4>2 DEF Connects, InDatabase, At, Step
      <4>4. req' = [req EXCEPT ![r] = req'[r]]
        BY <1>0, <3>2 DEF Connects
      <4> QED BY <1>0, <3>2, <4>2, <4>3, <4>4 DEF Connects
    <3>3. CASE MovesOn(r)
      <4>1. Step(r) # "auth" \/ Authorized(r) => req[r].cred \in DOMAIN creds
        BY <1>0, <3>3 DEF MovesOn, Authorized
      <4>2. CASE req'[r] = Idle
        BY <3>3, <4>2 DEF MovesOn
      <4>3. CASE req'[r] # Idle
        <5>1. /\ req'[r] \in Request /\ ~req'[r].connected /\ req[r] # Idle
              /\ req'[r].kind = req[r].kind /\ req'[r].via = req[r].via
              /\ req'[r].cred = req[r].cred
              /\ Step(r) = "auth" => Authorized(r)
              /\ req' = [req EXCEPT ![r] = req'[r]]
          BY <3>3, <4>3 DEF MovesOn
        <5> QED BY <1>0, <4>1, <5>1
      <4> QED BY <4>2, <4>3
    <3> QED BY <1>5, <3>1, <3>2, <3>3 DEF Handles
  <2>2. req' \in [Reqs -> {Idle} \cup Request]
    BY <1>0, <2>1
  <2>3. ASSUME NEW s \in Reqs PROVE Sound(s)
    <3>1. s # r => req'[s] = req[s]
      BY <1>0, <2>1
    <3> HIDE DEF Sound
    <3> QED BY <1>1, <2>1, <3>1
  <2> HIDE DEF Sound
  <2> QED BY <1>2, <2>2, <2>3
<1> QED BY <1>3, <1>4, <1>5, RequestEffects

LEMMA CommandsStayTyped ==
    ASSUME TypeInv, [Next]_vars
    PROVE  command' \in [Operators -> {Idle} \cup Adjustment]
<1> DEFINE Goal == command' \in [Operators -> {Idle} \cup Adjustment]
<1>0. command \in [Operators -> {Idle} \cup Adjustment]
  BY DEF TypeInv
<1>1. ASSUME NEW o \in Operators, NEW c \in Credentials, NEW S \in SUBSET Scopes,
             NEW granting \in BOOLEAN, ReadScopes(o, c, S, granting)
      PROVE  Goal
  <2>1. creds[c].scopes \in SUBSET Scopes
    BY <1>1 DEF ReadScopes, TypeInv, TypeOK, Row
  <2>2. [cred |-> c, scopes |-> S, granting |-> granting, before |-> creds[c].scopes]
           \in Adjustment
    BY <2>1 DEF Adjustment
  <2> QED BY <1>0, <1>1, <2>2 DEF ReadScopes
<1>2. ASSUME NEW o \in Operators, WriteScopes(o) PROVE Goal
  BY <1>0, <1>2 DEF WriteScopes
<1>3. ASSUME UNCHANGED command PROVE Goal
  BY <1>0, <1>3
<1> HIDE DEF Goal
<1>4. ASSUME NEW r \in Reqs
      PROVE  Checkout(r) \/ Saturated(r) \/ Authenticate(r) \/ Admit(r) \/ Transact(r)
                \/ Embed(r) \/ Fail(r) => Goal
  BY <1>3 DEF Checkout, Saturated, Authenticate, Admit, Transact, Embed, Fail
<1>5. ASSUME NEW r, NEW via, NEW k, NEW c, Arrive(r, via, k, c) PROVE Goal
  BY <1>3, <1>5 DEF Arrive
<1>6. ASSUME NEW c, NEW p, NEW S, NEW days, Issue(c, p, S, days) PROVE Goal
  BY <1>3, <1>6 DEF Issue
<1>7. ASSUME NEW c, Revoke(c) PROVE Goal
  BY <1>3, <1>7 DEF Revoke
<1>8. Restart \/ Tick \/ UNCHANGED vars => Goal
  BY <1>3 DEF Restart, Tick, vars
<1>9. Goal
  BY <1>1, <1>2, <1>4, <1>5, <1>6, <1>7, <1>8 DEF Next
<1> QED BY <1>9 DEF Goal

LEMMA NextTypeInv ==
    ASSUME TypeInv, [Next]_vars
    PROVE  TypeInv'
<1>1. CredsTyped' /\ now' \in 0..MaxTime
  BY CredEffects
<1>2. BucketsTyped'
  BY BucketEffects
<1>3. PoolCounts' /\ RequestsSound' /\ command' \in [Operators -> {Idle} \cup Adjustment]
  BY PoolStaysCounted, RequestsStaySound, CommandsStayTyped
<1>4. TypeOK'
  BY <1>1, <1>2, <1>3
     DEF TypeOK, CredsTyped, BucketsTyped, Full, PoolCounts, Holding
<1>5. \A x \in DOMAIN buckets' : x[2] \in DOMAIN Limits
  BY <1>2 DEF BucketsTyped
<1> QED BY <1>3, <1>4, <1>5 DEF TypeInv, PoolCounts

(* Credentials and buckets keep their types, and the pool's count is the   *)
(* number of requests that have a connection, however they end.            *)
THEOREM TypeCorrect == Spec => []TypeOK
<1>1. TypeInv => TypeOK
  BY DEF TypeInv
<1> QED BY <1>1, InitTypeInv, NextTypeInv, PTL DEF Spec

-----------------------------------------------------------------------------
(* 3. Authority.                                                           *)

(* A command that has read a row works from what the row still says, and   *)
(* no other command has read that row: the lock is what keeps it so.  A    *)
(* late request's credential was past use when it came.                    *)
AuthorityInv ==
    /\ DOMAIN said = DOMAIN creds
    /\ \A c \in DOMAIN creds : creds[c].scopes = said[c]
    /\ \A o \in Operators : command[o] # Idle =>
          /\ command[o].cred \in DOMAIN creds
          /\ command[o].before = creds[command[o].cred].scopes
    /\ \A o, u \in Operators :
          command[o] # Idle /\ command[u] # Idle /\ command[o].cred = command[u].cred => o = u

LateInv ==
    \A r \in Reqs : req[r] # Idle /\ req[r].late =>
        /\ Step(r) = "auth"
        /\ req[r].cred \in DOMAIN creds /\ ~Usable(creds[req[r].cred])

LEMMA NextLateInv ==
    ASSUME TypeInv, LateInv, [Next]_vars
    PROVE  LateInv'
<1> DEFINE Fits(r) == req'[r] # Idle /\ req'[r].late =>
                        /\ Step(r)' = "auth"
                        /\ req'[r].cred \in DOMAIN creds' /\ ~Usable(creds[req[r].cred])'
<1>0. /\ req \in [Reqs -> {Idle} \cup Request]
      /\ \A c \in DOMAIN creds : /\ c \in DOMAIN creds'
                                 /\ ~Usable(creds[c]) => ~Usable(creds[c])'
  BY CredEffects DEF TypeInv, RequestsSound, Keeps
<1>1. ASSUME NEW r \in Reqs, req'[r] = req[r] PROVE Fits(r)
  <2>1. PICK c : c = req[r].cred
    OBVIOUS
  <2>2. req[r] # Idle /\ req[r].late => /\ Step(r) = "auth"
                                        /\ c \in DOMAIN creds /\ ~Usable(creds[c])
    BY <2>1 DEF LateInv
  <2>3. Step(r)' = Step(r)
    BY <1>1 DEF Step
  <2>4. c \in DOMAIN creds /\ ~Usable(creds[c]) => c \in DOMAIN creds' /\ ~Usable(creds[c])'
    BY <1>0
  <2> QED BY <1>1, <2>1, <2>2, <2>3, <2>4 DEF Usable
<1>2. ASSUME \A r \in Reqs : Fits(r) PROVE LateInv'
  BY <1>2 DEF LateInv
<1>3. CASE Stay
  BY <1>1, <1>2, <1>3 DEF Stay
<1>4. CASE StartsAfresh
  <2>1. \A r \in Reqs : req'[r] = Idle
    BY <1>4 DEF StartsAfresh
  <2> QED BY <1>2, <2>1
<1>5. ASSUME NEW r \in Reqs, Handles(r) PROVE LateInv'
  <2>1. Fits(r)
    <3>1. CASE Arrives(r)
      <4>1. PICK c : c = req'[r].cred
        OBVIOUS
      <4>2. Step(r)' = "auth" /\ (req'[r].late => c \in DOMAIN creds /\ ~Usable(creds[c]))
        BY <3>1, <4>1 DEF Arrives, Step
      <4> QED BY <1>0, <4>1, <4>2 DEF Usable
    <3>2. CASE Connects(r)
      <4>1. req[r] \in Request /\ req'[r] = [req[r] EXCEPT !.connected = TRUE]
        BY <1>0, <3>2 DEF Connects
      <4>2. req'[r].cred = req[r].cred /\ req'[r].late = req[r].late /\ req'[r].todo = req[r].todo
        BY <4>1 DEF Request
      <4>3. PICK c : c = req[r].cred
        OBVIOUS
      <4>4. req[r].late => Step(r) = "auth" /\ c \in DOMAIN creds /\ ~Usable(creds[c])
        BY <3>2, <4>3 DEF Connects, LateInv
      <4>5. Step(r)' = Step(r)
        BY <4>2 DEF Step
      <4> QED BY <1>0, <4>2, <4>3, <4>4, <4>5 DEF Usable
    <3>3. CASE MovesOn(r)
      <4>1. req'[r] # Idle => /\ req'[r].late = req[r].late
                              /\ Step(r) = "auth" => Authorized(r)
        BY <3>3 DEF MovesOn
      <4>2. Authorized(r) => Usable(creds[req[r].cred])
        BY DEF Authorized, IsActive, Usable
      <4>3. req[r].late => Step(r) = "auth" /\ ~Usable(creds[req[r].cred])
        BY <3>3 DEF MovesOn, LateInv
      <4> QED BY <4>1, <4>2, <4>3
    <3> QED BY <1>5, <3>1, <3>2, <3>3 DEF Handles
  <2>2. req' = [req EXCEPT ![r] = req'[r]]
    BY <1>0, <1>5 DEF Handles, Arrives, Connects, MovesOn
  <2>3. ASSUME NEW s \in Reqs PROVE Fits(s)
    <3>1. s # r => req'[s] = req[s]
      BY <1>0, <2>2
    <3> HIDE DEF Fits
    <3> QED BY <1>1, <2>1, <3>1
  <2> HIDE DEF Fits
  <2> QED BY <1>2, <2>3
<1> QED BY <1>3, <1>4, <1>5, RequestEffects

LEMMA NextAuthorityInv ==
    ASSUME TypeInv, AuthorityInv, [Next]_vars
    PROVE  AuthorityInv'
<1> DEFINE Goal == AuthorityInv'
<1>0. /\ creds \in [DOMAIN creds -> Row] /\ command \in [Operators -> {Idle} \cup Adjustment]
      /\ DOMAIN said = DOMAIN creds
      /\ \A c \in DOMAIN creds : creds[c].scopes = said[c]
      /\ \A o \in Operators : command[o] # Idle =>
            /\ command[o].cred \in DOMAIN creds
            /\ command[o].before = creds[command[o].cred].scopes
      /\ \A o, u \in Operators :
            command[o] # Idle /\ command[u] # Idle /\ command[o].cred = command[u].cred => o = u
  BY DEF TypeInv, TypeOK, AuthorityInv
<1>1. ASSUME command' = command, DOMAIN said' = DOMAIN creds', DOMAIN creds \subseteq DOMAIN creds',
             \A c \in DOMAIN creds : creds'[c].scopes = creds[c].scopes,
             \A c \in DOMAIN creds' : creds'[c].scopes = said'[c]
      PROVE  Goal
  BY <1>0, <1>1 DEF AuthorityInv
<1>2. ASSUME UNCHANGED <<command, said, creds>> PROVE Goal
  BY <1>0, <1>2 DEF AuthorityInv
<1>3. ASSUME NEW r \in Reqs, Authenticate(r) PROVE Goal
  <2>1. command' = command /\ said' = said
    BY <1>3 DEF Authenticate
  <2>2. creds' = creds \/ creds' = [creds EXCEPT ![req[r].cred].used = now]
    BY <1>3 DEF Authenticate
  <2>3. DOMAIN creds' = DOMAIN creds /\ \A c \in DOMAIN creds : creds'[c].scopes = creds[c].scopes
    BY <1>0, <2>2 DEF Row
  <2> QED BY <1>0, <1>1, <2>1, <2>3
<1>4. ASSUME NEW c \in Credentials, NEW p, NEW S, NEW days, Issue(c, p, S, days) PROVE Goal
  <2>1. /\ c \notin DOMAIN creds /\ command' = command
        /\ DOMAIN creds' = DOMAIN creds \cup {c} /\ creds'[c].scopes = S
        /\ \A d \in DOMAIN creds : creds'[d] = creds[d]
    BY <1>4 DEF Issue, With
  <2>2. /\ DOMAIN said' = DOMAIN said \cup {c} /\ said'[c] = S
        /\ \A d \in DOMAIN said : d # c => said'[d] = said[d]
    BY <1>4 DEF Issue, With
  <2>3. DOMAIN said' = DOMAIN creds' /\ \A d \in DOMAIN creds' : creds'[d].scopes = said'[d]
    BY <1>0, <2>1, <2>2
  <2> QED BY <1>0, <1>1, <2>1, <2>3
<1>5. ASSUME NEW c \in Credentials, Revoke(c) PROVE Goal
  <2>1. command' = command /\ said' = said /\ creds' = [creds EXCEPT ![c].revoked = now]
    BY <1>5 DEF Revoke
  <2>2. DOMAIN creds' = DOMAIN creds /\ \A d \in DOMAIN creds : creds'[d].scopes = creds[d].scopes
    BY <1>0, <2>1 DEF Row
  <2> QED BY <1>0, <1>1, <2>1, <2>2
<1>6. ASSUME NEW o \in Operators, NEW c \in Credentials, NEW S \in SUBSET Scopes,
             NEW granting \in BOOLEAN, ReadScopes(o, c, S, granting)
      PROVE  Goal
  <2> DEFINE op == [cred |-> c, scopes |-> S, granting |-> granting, before |-> creds[c].scopes]
  <2>1. /\ command[o] = Idle /\ c \in DOMAIN creds /\ ~RowLocked(c)
        /\ creds' = creds /\ said' = said
    BY <1>6 DEF ReadScopes, Locked
  <2>2. command' = [command EXCEPT ![o] = op]
    BY <1>6 DEF ReadScopes
  <2>3. command'[o] = op /\ \A u \in Operators : u # o => command'[u] = command[u]
    BY <1>0, <2>2
  <2>4. op.cred = c /\ op.before = creds[c].scopes
    OBVIOUS
  <2> HIDE DEF op
  <2>5. \A u \in Operators : command[u] # Idle => command[u].cred # c
    BY <2>1 DEF RowLocked
  <2>6. \A u \in Operators : command'[u] # Idle =>
          /\ command'[u].cred \in DOMAIN creds'
          /\ command'[u].before = creds'[command'[u].cred].scopes
    BY <1>0, <2>1, <2>3, <2>4
  <2>7. ASSUME NEW u \in Operators, NEW v \in Operators, command'[u] # Idle, command'[v] # Idle,
               command'[u].cred = command'[v].cred
        PROVE  u = v
    BY <1>0, <2>3, <2>4, <2>5, <2>7
  <2> QED BY <1>0, <2>1, <2>6, <2>7 DEF AuthorityInv
<1>7. ASSUME NEW o \in Operators, WriteScopes(o) PROVE Goal
  <2>1. PICK op, c : op = command[o] /\ c = op.cred
    OBVIOUS
  <2>2. /\ command[o] # Idle /\ c \in DOMAIN creds /\ op.before = said[c] /\ c \in DOMAIN said
        /\ op.before = creds[c].scopes
    BY <1>0, <1>7, <2>1 DEF WriteScopes
  <2> DEFINE Adjusted(S) == IF op.granting THEN S \cup op.scopes ELSE S \ op.scopes
  <2>3. /\ creds' = [creds EXCEPT ![c].scopes = Adjusted(op.before)]
        /\ said' = [said EXCEPT ![c] = Adjusted(said[c])]
        /\ command' = [command EXCEPT ![o] = Idle]
    BY <1>7, <2>1 DEF WriteScopes
  <2>4. PICK S : S = Adjusted(op.before) /\ S = Adjusted(said[c])
    BY <2>2
  <2>5. creds' = [creds EXCEPT ![c].scopes = S] /\ said' = [said EXCEPT ![c] = S]
    BY <2>3, <2>4
  <2> HIDE DEF Adjusted
  <2>6. /\ DOMAIN creds' = DOMAIN creds /\ creds'[c].scopes = S
        /\ \A d \in DOMAIN creds : d # c => creds'[d] = creds[d]
    BY <1>0, <2>2, <2>5 DEF Row
  <2>7. /\ DOMAIN said' = DOMAIN said /\ said'[c] = S
        /\ \A d \in DOMAIN said : d # c => said'[d] = said[d]
    BY <2>2, <2>5
  <2>8. \A d \in DOMAIN creds' : creds'[d].scopes = said'[d]
    BY <1>0, <2>6, <2>7
  <2>9. command'[o] = Idle /\ \A u \in Operators : u # o => command'[u] = command[u]
    BY <1>0, <2>3
  <2>10. ASSUME NEW u \in Operators, command'[u] # Idle
         PROVE  /\ command'[u].cred \in DOMAIN creds'
                /\ command'[u].before = creds'[command'[u].cred].scopes
    <3>1. u # o /\ command'[u] = command[u] /\ command[u].cred # c
      BY <1>0, <2>1, <2>2, <2>9, <2>10
    <3> QED BY <1>0, <2>6, <2>10, <3>1
  <2>11. \A u, v \in Operators :
           command'[u] # Idle /\ command'[v] # Idle /\ command'[u].cred = command'[v].cred => u = v
    BY <1>0, <2>9
  <2> QED BY <1>0, <2>6, <2>7, <2>8, <2>10, <2>11 DEF AuthorityInv
<1> HIDE DEF Goal
<1>8. ASSUME NEW r \in Reqs
      PROVE  Checkout(r) \/ Saturated(r) \/ Admit(r) \/ Transact(r) \/ Embed(r) \/ Fail(r) => Goal
  BY <1>2 DEF Checkout, Saturated, Admit, Transact, Embed, Fail
<1>9. ASSUME NEW r, NEW via, NEW k, NEW c, Arrive(r, via, k, c) PROVE Goal
  BY <1>2, <1>9 DEF Arrive
<1>10. Restart \/ Tick \/ UNCHANGED vars => Goal
  BY <1>2 DEF Restart, Tick, vars
<1>11. Goal
  BY <1>3, <1>4, <1>5, <1>6, <1>7, <1>8, <1>9, <1>10 DEF Next
<1> QED BY <1>11 DEF Goal

(* A credential carries what its operators said, in the order they said    *)
(* it, however many of them adjust it at once; and nobody gets past the    *)
(* first step with a credential that was revoked or had expired before.    *)
THEOREM AuthorityHolds == Spec => []AuthorityIsTrue
<1>1. Init => AuthorityInv /\ LateInv
  <2> SUFFICES ASSUME Init PROVE AuthorityInv /\ LateInv
    OBVIOUS
  <2>1. DOMAIN said = {} /\ DOMAIN creds = {}
    <3>1. DOMAIN << >> = {}
      OBVIOUS
    <3> QED BY <3>1 DEF Init
  <2> QED BY <2>1 DEF Init, AuthorityInv, LateInv
<1>2. AuthorityInv /\ LateInv => AuthorityIsTrue
  BY DEF AuthorityInv, LateInv, AuthorityIsTrue
<1> QED BY <1>1, <1>2, InitTypeInv, NextTypeInv, NextAuthorityInv, NextLateInv, PTL DEF Spec

-----------------------------------------------------------------------------
(* 4. The quota.                                                           *)

(* What is let in in a stretch of time: before its end and not before its  *)
(* beginning.                                                              *)
Instants == 0..(MaxTime + 1)
Counts == [Instants -> Nat]
Spent(w, from, to) == w[to + 1] - w[from]

LEMMA SpentIsTotal ==
    ASSUME NEW w \in Counts, NEW from \in Instants, NEW to \in -1..MaxTime
    PROVE  Spent(w, from, to) \in Int
<1>1. to + 1 \in Instants
  BY GateAssumption DEF Instants
<1>2. w[to + 1] \in Nat /\ w[from] \in Nat
  BY <1>1 DEF Counts
<1> QED BY <1>2 DEF Spent

LEMMA SpentNothing ==
    ASSUME NEW from \in Instants, NEW to \in -1..MaxTime
    PROVE  Spent([t \in Instants |-> 0], from, to) = 0
<1>1. to + 1 \in Instants
  BY GateAssumption DEF Instants
<1> QED BY <1>1 DEF Spent

(* What was spent in any stretch up to now, and what the bucket holds now, *)
(* together stay within the burst and the refill of the stretch.  It is    *)
(* inductive where QuotaHolds is not: that one says nothing of what may    *)
(* still be spent.                                                         *)
Rate(p, k) == LimitFor(p, BucketOf(k)).refill
Burst(p, k) == Full(p, BucketOf(k))
Held(p, k) == Level(p, BucketOf(k))

Reserve ==
    \A p \in Principals, k \in Kinds, from \in 0..now :
        Parts * Spent(admitted[<<p, k>>], from, now) + Held(p, k)
          <= Burst(p, k) + (now - from) * Rate(p, k)
Within ==
    \A p \in Principals, k \in Kinds, from \in 0..now : \A to \in from..now :
        Parts * Spent(admitted[<<p, k>>], from, to) <= Burst(p, k) + (to - from) * Rate(p, k)
Counted ==
    /\ admitted \in [Principals \X Kinds -> Counts]
    /\ \A x \in Principals \X Kinds, t \in Instants :
          t > now => admitted[x][t] = admitted[x][now + 1]

LEMMA KindFacts ==
    ASSUME NEW p, NEW k \in Kinds
    PROVE  /\ BucketOf(k) \in DOMAIN Limits
           /\ Rate(p, k) \in Nat /\ Burst(p, k) \in Nat /\ Parts \in Nat
<1>1. BucketOf(k) \in DOMAIN Limits
  BY BucketFacts
<1> QED BY <1>1, LimitFacts DEF Rate, Burst

LEMMA HeldFacts ==
    ASSUME BucketsTyped, now \in Nat, NEW p, NEW k \in Kinds
    PROVE  Held(p, k) \in 0..Burst(p, k)
<1>1. BucketOf(k) \in DOMAIN Limits
  BY BucketFacts
<1> QED BY <1>1, LevelFacts DEF Held, Burst

LEMMA WithinIsQuota == Within <=> QuotaHolds
<1>1. ASSUME NEW p, NEW k PROVE /\ Burst(p, k) = Parts * LimitOf(p, k).burst
                                /\ Rate(p, k) = LimitOf(p, k).refill
  BY DEF Burst, Rate, Full, LimitOf, BucketOf
<1> QED BY <1>1 DEF Within, QuotaHolds, Spent

(* A tick adds at most one refill.                                         *)
LEMMA HeldGrows ==
    ASSUME BucketsTyped, now \in Nat, now' = now + 1, buckets' = buckets,
           NEW p, NEW k \in Kinds
    PROVE  Held(p, k)' <= Held(p, k) + Rate(p, k) /\ Held(p, k)' \in 0..Burst(p, k)
<1>1. PICK b : b = BucketOf(k)
  OBVIOUS
<1>2. PICK full, rate : full = Full(p, b) /\ rate = LimitFor(p, b).refill
  OBVIOUS
<1>3. b \in DOMAIN Limits /\ full \in Nat /\ rate \in Nat
  BY <1>1, <1>2, BucketFacts, LimitFacts
<1>4. Level(p, b)' <= Level(p, b) + rate /\ Level(p, b)' \in 0..full
  <2>1. CASE <<p, b>> \notin DOMAIN buckets
    <3>1. Level(p, b) = full /\ Level(p, b)' = full
      BY <1>2, <2>1 DEF Level, Full, LimitFor
    <3> QED BY <1>3, <3>1
  <2>2. CASE <<p, b>> \in DOMAIN buckets
    <3>1. PICK tokens, at : tokens = buckets[<<p, b>>].tokens /\ at = buckets[<<p, b>>].at
      OBVIOUS
    <3>2. tokens \in 0..full /\ at \in 0..now
      BY <1>2, <2>2, <3>1 DEF BucketsTyped
    <3>3. /\ Level(p, b) = Min({full, tokens + (now - at) * rate})
          /\ Level(p, b)' = Min({full, tokens + (now + 1 - at) * rate})
      <4>1. Level(p, b)' = Min({full, tokens + (now' - at) * rate})
        BY <1>2, <2>2, <3>1 DEF Level, Full, LimitFor
      <4>2. now' - at = now + 1 - at
        BY <3>2
      <4>3. Level(p, b) = Min({full, tokens + (now - at) * rate})
        BY <1>2, <2>2, <3>1 DEF Level, Full, LimitFor
      <4> QED BY <4>1, <4>2, <4>3, Zenon
    <3>4. PICK gain : gain = (now - at) * rate
      OBVIOUS
    <3>5. gain \in Nat /\ (now + 1 - at) * rate = gain + rate
      <4>1. now - at \in Nat /\ now + 1 - at = (now - at) + 1
        BY <3>2
      <4> QED BY <1>3, <3>4, <4>1, Products
    <3>6. /\ Level(p, b) = IF full <= tokens + gain THEN full ELSE tokens + gain
          /\ Level(p, b)' = IF full <= tokens + (gain + rate) THEN full
                            ELSE tokens + (gain + rate)
      <4>1. tokens + gain \in Int /\ tokens + (gain + rate) \in Int /\ full \in Int
        BY <1>3, <3>2, <3>5
      <4> QED BY <3>3, <3>4, <3>5, <4>1, MinOfTwo
    <3> QED BY <1>3, <3>2, <3>5, <3>6
  <2> QED BY <2>1, <2>2
<1> QED BY <1>1, <1>2, <1>4 DEF Held, Rate, Burst, BucketOf

(* What the arithmetic of the bounds needs.                                *)
LEMMA Stretch ==
    ASSUME NEW i \in Int, NEW j \in Int, i >= j, NEW rate \in Nat
    PROVE  (i - j) * rate \in Nat /\ (i + 1 - j) * rate = (i - j) * rate + rate
<1>1. PICK d : d = i - j
  OBVIOUS
<1>2. d \in Nat /\ i + 1 - j = d + 1
  BY <1>1
<1> QED BY <1>1, <1>2, Products

LEMMA CountFacts ==
    ASSUME TypeInv, Counted, NEW p \in Principals, NEW k \in Kinds,
           NEW from \in 0..now, NEW to \in from..now
    PROVE  Spent(admitted[<<p, k>>], from, to) \in Int
<1>1. admitted[<<p, k>>] \in Counts
  BY DEF Counted
<1>2. from \in Instants /\ to \in -1..MaxTime
  BY GateAssumption DEF TypeInv, TypeOK, Instants
<1> QED BY <1>1, <1>2, SpentIsTotal

LEMMA OneAdded ==
    ASSUME now \in 0..MaxTime, NEW w \in Counts
    PROVE  /\ OneMore(w) \in Counts
           /\ \A t \in Instants : /\ t > now => OneMore(w)[t] = w[t] + 1
                                  /\ t <= now => OneMore(w)[t] = w[t]
<1>1. DOMAIN w = Instants /\ \A t \in Instants : t \in Int /\ w[t] \in Nat
  BY DEF Counts, Instants
<1>2. now \in Int
  OBVIOUS
<1> QED BY <1>1, <1>2 DEF OneMore, Counts

LEMMA NextCounted ==
    ASSUME TypeInv, Counted, [Next]_vars
    PROVE  Counted'
<1>0. /\ admitted \in [Principals \X Kinds -> Counts] /\ now \in 0..MaxTime /\ MaxTime \in Nat
      /\ \A x \in Principals \X Kinds, t \in Instants :
            t > now => admitted[x][t] = admitted[x][now + 1]
  BY GateAssumption DEF Counted, TypeInv, TypeOK
<1>1. CASE LetsNobodyIn
  BY <1>0, <1>1 DEF LetsNobodyIn, Counted
<1>2. CASE Passes
  <2>1. admitted' = admitted /\ now' = now + 1 /\ now < MaxTime
    BY <1>2 DEF Passes
  <2>2. ASSUME NEW x \in Principals \X Kinds, NEW t \in Instants, t > now'
        PROVE  admitted'[x][t] = admitted'[x][now' + 1]
    <3>1. now' + 1 \in Instants /\ now' + 1 > now /\ t > now
      BY <1>0, <2>1, <2>2 DEF Instants
    <3>2. admitted[x][t] = admitted[x][now + 1] /\ admitted[x][now' + 1] = admitted[x][now + 1]
      BY <1>0, <3>1
    <3> QED BY <2>1, <3>2
  <2> QED BY <1>0, <2>1, <2>2 DEF Counted
<1>3. CASE Forgets
  <2>1. admitted' = NoneYet /\ now' = now
    BY <1>3 DEF Forgets
  <2>2. now + 1 \in Instants
    BY <1>0 DEF Instants
  <2> QED BY <2>1, <2>2 DEF Counted, Counts, NoneYet, Instants
<1>4. ASSUME NEW p \in Principals, NEW k \in Kinds, LetsIn(p, k) PROVE Counted'
  <2>1. PICK x, w, v : x = <<p, k>> /\ w = admitted[x] /\ v = OneMore(w)
    OBVIOUS
  <2>2. x \in Principals \X Kinds /\ w \in Counts
    BY <1>0, <2>1
  <2>3. v \in Counts /\ \A t \in Instants : t > now => v[t] = w[t] + 1
    BY <1>0, <2>1, <2>2, OneAdded
  <2>4. admitted' = [admitted EXCEPT ![x] = v] /\ now' = now
    BY <1>4, <2>1 DEF LetsIn
  <2>5. admitted'[x] = v /\ \A y \in Principals \X Kinds : y # x => admitted'[y] = admitted[y]
    BY <1>0, <2>2, <2>4
  <2>6. now + 1 \in Instants /\ now + 1 > now
    BY <1>0 DEF Instants
  <2>7. \A t \in Instants : t > now => v[t] = v[now + 1]
    BY <1>0, <2>1, <2>2, <2>3, <2>6
  <2> QED BY <1>0, <2>2, <2>3, <2>4, <2>5, <2>7 DEF Counted
<1> QED BY <1>1, <1>2, <1>3, <1>4, BucketEffects

(* One more request of a kind is one more in every stretch that ends now.  *)
LEMMA OneMoreSpent ==
    ASSUME TypeInv, Counted, NEW p \in Principals, NEW k \in Kinds, LetsIn(p, k)
    PROVE  /\ \A x \in Principals \X Kinds : x # <<p, k>> => admitted'[x] = admitted[x]
           /\ admitted'[<<p, k>>] \in Counts
           /\ \A from \in 0..now :
                /\ Spent(admitted'[<<p, k>>], from, now) = Spent(admitted[<<p, k>>], from, now) + 1
                /\ \A to \in from..now : to < now =>
                     Spent(admitted'[<<p, k>>], from, to) = Spent(admitted[<<p, k>>], from, to)
<1>0. /\ admitted \in [Principals \X Kinds -> Counts] /\ now \in 0..MaxTime /\ MaxTime \in Nat
  BY GateAssumption DEF Counted, TypeInv, TypeOK
<1>1. PICK x, w, v : x = <<p, k>> /\ w = admitted[x] /\ v = OneMore(w)
  OBVIOUS
<1>2. x \in Principals \X Kinds /\ w \in Counts
  BY <1>0, <1>1
<1>3. v \in Counts /\ \A t \in Instants : /\ t > now => v[t] = w[t] + 1
                                          /\ t <= now => v[t] = w[t]
  BY <1>0, <1>1, <1>2, OneAdded
<1>4. admitted' = [admitted EXCEPT ![x] = v]
  BY <1>1 DEF LetsIn
<1>5. admitted'[x] = v /\ \A y \in Principals \X Kinds : y # x => admitted'[y] = admitted[y]
  BY <1>0, <1>2, <1>4
<1>6. ASSUME NEW from \in 0..now
      PROVE  /\ Spent(v, from, now) = Spent(w, from, now) + 1
             /\ \A to \in from..now : to < now => Spent(v, from, to) = Spent(w, from, to)
  <2>1. from \in Instants /\ from <= now /\ now + 1 \in Instants /\ now + 1 > now
    BY <1>0 DEF Instants
  <2>2. v[from] = w[from] /\ v[now + 1] = w[now + 1] + 1
    BY <1>3, <2>1
  <2>3. w[from] \in Nat /\ w[now + 1] \in Nat
    BY <1>2, <2>1 DEF Counts
  <2>4. ASSUME NEW to \in from..now, to < now PROVE v[to + 1] = w[to + 1]
    <3>1. to + 1 \in Instants /\ to + 1 <= now
      BY <1>0, <2>1, <2>4 DEF Instants
    <3> QED BY <1>3, <3>1
  <2> QED BY <2>2, <2>3, <2>4 DEF Spent
<1> QED BY <1>1, <1>3, <1>5, <1>6

(* Every bucket holds between nothing and its burst.                       *)
HeldBounded == \A p \in Principals, k \in Kinds : Held(p, k) \in 0..Burst(p, k)

LEMMA BucketsHold == TypeInv => HeldBounded
<1> SUFFICES ASSUME TypeInv PROVE HeldBounded
  OBVIOUS
<1>1. BucketsTyped /\ now \in Nat
  BY GateAssumption DEF TypeInv, TypeOK, BucketsTyped, Full
<1> QED BY <1>1, HeldFacts DEF HeldBounded

LEMMA NextReserve ==
    ASSUME TypeInv, Counted, Reserve, HeldBounded', [Next]_vars
    PROVE  Reserve'
<1>0. BucketsTyped /\ now \in 0..MaxTime /\ MaxTime \in Nat
  BY GateAssumption DEF TypeInv, TypeOK, BucketsTyped, Full
<1>00. ASSUME NEW p \in Principals, NEW k \in Kinds
       PROVE  /\ Held(p, k) \in 0..Burst(p, k) /\ Held(p, k)' \in 0..Burst(p, k)
              /\ Rate(p, k) \in Nat /\ Burst(p, k) \in Nat
              /\ Parts \in Nat /\ BucketOf(k) \in DOMAIN Limits
  <2>1. Held(p, k)' \in 0..Burst(p, k)
    BY DEF HeldBounded, Burst, Full, LimitFor, BucketOf
  <2> QED BY <1>0, <2>1, HeldFacts, KindFacts
<1> DEFINE Fits(p, k, from) ==
      Parts * Spent(admitted'[<<p, k>>], from, now') + Held(p, k)'
        <= Burst(p, k) + (now' - from) * Rate(p, k)
<1>1. ASSUME \A p \in Principals, k \in Kinds, from \in 0..now' : Fits(p, k, from)
      PROVE  Reserve'
  BY <1>1 DEF Reserve, Spent, Burst, Rate, Full, LimitFor, BucketOf
<1>2. ASSUME NEW p \in Principals, NEW k \in Kinds, LevelsFall
      PROVE  Held(p, k)' <= Held(p, k)
  <2>1. PICK b : b = BucketOf(k)
    OBVIOUS
  <2>2. Level(p, b)' <= Level(p, b)
    BY <1>00, <1>2, <2>1 DEF LevelsFall
  <2> QED BY <2>1, <2>2 DEF Held, BucketOf, Level
(* The numbers of one bound, before the step.                              *)
<1>3. ASSUME NEW p \in Principals, NEW k \in Kinds, NEW from \in 0..now
      PROVE  \E s, h, d, top \in Int :
                /\ s = Spent(admitted[<<p, k>>], from, now) /\ h = Held(p, k)
                /\ d = (now - from) * Rate(p, k) /\ top = Burst(p, k)
                /\ Parts * s \in Int /\ Parts * s + h <= top + d
  <2>1. Spent(admitted[<<p, k>>], from, now) \in Int
    BY <1>0, CountFacts
  <2>2. (now - from) * Rate(p, k) \in Nat
    BY <1>0, <1>00, Stretch
  <2>3. Parts \in Int /\ \A i, l \in Int : i * l \in Int
    BY <1>00
  <2>4. Held(p, k) \in Int /\ Burst(p, k) \in Int
    BY <1>00
  <2> QED BY <2>1, <2>2, <2>3, <2>4 DEF Reserve
<1>4. ASSUME NEW p \in Principals, NEW k \in Kinds, NEW from \in 0..now, now' = now,
             admitted'[<<p, k>>] = admitted[<<p, k>>], LevelsFall
      PROVE  Fits(p, k, from)
  <2>1. PICK s, h, d, top \in Int :
                /\ s = Spent(admitted[<<p, k>>], from, now) /\ h = Held(p, k)
                /\ d = (now - from) * Rate(p, k) /\ top = Burst(p, k)
                /\ Parts * s \in Int /\ Parts * s + h <= top + d
    BY <1>3
  <2>2. PICK j : j = Held(p, k)'
    OBVIOUS
  <2>3. j \in Int /\ j <= h
    BY <1>00, <1>2, <1>4, <2>1, <2>2
  <2>4. Parts * s + j <= top + d
    BY <2>1, <2>3
  <2> QED BY <1>4, <2>1, <2>2, <2>4
<1>5. CASE LetsNobodyIn
  BY <1>1, <1>4, <1>5 DEF LetsNobodyIn
<1>6. ASSUME NEW q \in Principals, NEW j \in Kinds, LetsIn(q, j) PROVE Reserve'
  <2>1. now' = now /\ LevelsFall
    BY <1>6 DEF LetsIn
  <2>2. ASSUME NEW p \in Principals, NEW k \in Kinds, NEW from \in 0..now, <<p, k>> # <<q, j>>
        PROVE  Fits(p, k, from)
    <3>1. admitted'[<<p, k>>] = admitted[<<p, k>>]
      BY <1>6, <2>2, OneMoreSpent
    <3> QED BY <1>4, <2>1, <3>1
  <2>3. ASSUME NEW from \in 0..now PROVE Fits(q, j, from)
    <3>1. PICK s, h, d, top \in Int :
                  /\ s = Spent(admitted[<<q, j>>], from, now) /\ h = Held(q, j)
                  /\ d = (now - from) * Rate(q, j) /\ top = Burst(q, j)
                  /\ Parts * s \in Int /\ Parts * s + h <= top + d
      BY <1>3
    <3>2. Spent(admitted'[<<q, j>>], from, now) = s + 1
      BY <1>6, <3>1, OneMoreSpent
    <3>3. Held(q, j)' = h - Parts
      <4>1. PICK b : b = BucketOf(j)
        OBVIOUS
      <4>2. Level(q, b)' = Level(q, b) - Parts
        BY <1>6, <4>1 DEF LetsIn, Level, BucketOf
      <4> QED BY <3>1, <4>1, <4>2 DEF Held, BucketOf, Level
    <3>4. Parts * (s + 1) = Parts * s + Parts /\ Parts \in Int
      BY <1>00, <3>1
    <3>5. PICK x : x = Parts * s
      OBVIOUS
    <3>6. (x + Parts) + (h - Parts) <= top + d
      BY <3>1, <3>4, <3>5
    <3>7. Parts * (s + 1) + (h - Parts) <= top + d
      BY <3>4, <3>5, <3>6
    <3> QED BY <2>1, <3>1, <3>2, <3>3, <3>7
  <2>4. ASSUME NEW p \in Principals, NEW k \in Kinds, NEW from \in 0..now' PROVE Fits(p, k, from)
    <3> HIDE DEF Fits
    <3>1. CASE p = q /\ k = j
      BY <2>1, <2>3, <3>1
    <3>2. CASE <<p, k>> # <<q, j>>
      BY <2>1, <2>2, <3>2
    <3> QED BY <3>1, <3>2
  <2> QED BY <1>1, <2>4
<1>7. CASE Passes
  <2>1. now' = now + 1 /\ now < MaxTime /\ buckets' = buckets /\ admitted' = admitted
    BY <1>7 DEF Passes
  <2>2. ASSUME NEW p \in Principals, NEW k \in Kinds
        PROVE  /\ admitted[<<p, k>>] \in Counts
               /\ admitted[<<p, k>>][now + 2] = admitted[<<p, k>>][now + 1]
               /\ Held(p, k)' <= Held(p, k) + Rate(p, k)
    <3>1. now + 2 \in Instants /\ now + 2 > now
      BY <1>0, <2>1 DEF Instants
    <3> QED BY <1>0, <2>1, <3>1, HeldGrows DEF Counted
  <2>3. ASSUME NEW p \in Principals, NEW k \in Kinds, NEW from \in 0..now
        PROVE  Fits(p, k, from)
    <3>1. PICK s, h, d, top \in Int :
                  /\ s = Spent(admitted[<<p, k>>], from, now) /\ h = Held(p, k)
                  /\ d = (now - from) * Rate(p, k) /\ top = Burst(p, k)
                  /\ Parts * s \in Int /\ Parts * s + h <= top + d
      BY <1>3
    <3>2. Spent(admitted[<<p, k>>], from, now + 1) = s
      <4>1. now + 1 + 1 = now + 2
        BY <1>0
      <4> QED BY <2>2, <3>1, <4>1 DEF Spent
    <3>3. PICK j, rate : j = Held(p, k)' /\ rate = Rate(p, k)
      OBVIOUS
    <3>4. j \in Int /\ rate \in Int /\ j <= h + rate
      BY <1>00, <2>2, <3>1, <3>3
    <3>5. (now + 1 - from) * rate = d + rate
      BY <1>0, <1>00, <3>1, <3>3, Stretch
    <3>6. Parts * s + j <= top + (d + rate)
      BY <3>1, <3>4
    <3>7. Spent(admitted'[<<p, k>>], from, now') = s
      BY <2>1, <3>2
    <3>8. (now' - from) * Rate(p, k) = d + rate
      <4>1. now' - from = now + 1 - from
        BY <1>0, <2>1
      <4> QED BY <3>3, <3>5, <4>1
    <3> QED BY <3>1, <3>3, <3>6, <3>7, <3>8
  <2>4. ASSUME NEW p \in Principals, NEW k \in Kinds, NEW from, from = now + 1
        PROVE  Fits(p, k, from)
    <3>1. Spent(admitted[<<p, k>>], from, from) = 0
      <4>1. from + 1 = now + 2
        BY <1>0, <2>4
      <4>2. from \in Instants
        BY <1>0, <2>4 DEF Instants
      <4>3. PICK w : w = admitted[<<p, k>>]
        OBVIOUS
      <4>4. w[from + 1] = w[from]
        BY <2>2, <2>4, <4>1, <4>3
      <4>5. w[from] \in Nat
        BY <2>2, <4>2, <4>3 DEF Counts
      <4> QED BY <4>3, <4>4, <4>5 DEF Spent
    <3>2. (now' - from) * Rate(p, k) = 0 /\ now' = from
      <4>1. now' - from = 0 /\ now' = from
        BY <1>0, <2>1, <2>4
      <4>2. 0 * Rate(p, k) = 0
        BY <1>00
      <4> QED BY <4>1, <4>2
    <3>3. Parts * 0 = 0 /\ Held(p, k)' <= Burst(p, k) /\ Held(p, k)' \in Int /\ Burst(p, k) \in Int
      BY <1>00
    <3> QED BY <2>1, <3>1, <3>2, <3>3
  <2>5. ASSUME NEW p \in Principals, NEW k \in Kinds, NEW from \in 0..now' PROVE Fits(p, k, from)
    <3> HIDE DEF Fits
    <3>1. from \in 0..now \/ from = now + 1
      BY <1>0, <2>1, <2>5
    <3> QED BY <2>3, <2>4, <3>1
  <2> QED BY <1>1, <2>5
<1>8. CASE Forgets
  <2>1. now' = now /\ DOMAIN buckets' = {}
    BY <1>8 DEF Forgets
  <2>2. ASSUME NEW p \in Principals, NEW k \in Kinds, NEW from \in 0..now PROVE Fits(p, k, from)
    <3>1. admitted'[<<p, k>>] = [t \in Instants |-> 0]
      BY <1>8 DEF Forgets, NoneYet, Instants
    <3>2. PICK w : w = [t \in Instants |-> 0]
      OBVIOUS
    <3>3. Spent(w, from, now) = 0
      <4>1. PICK n : n = now
        OBVIOUS
      <4>2. from \in Instants /\ n \in -1..MaxTime
        BY <1>0, <4>1 DEF Instants
      <4> QED BY <3>2, <4>1, <4>2, SpentNothing
    <3>4. (now - from) * Rate(p, k) \in Nat /\ Parts * 0 = 0
      BY <1>0, <1>00, Stretch
    <3>5. Held(p, k)' <= Burst(p, k) /\ Held(p, k)' \in Int /\ Burst(p, k) \in Int
      BY <1>00
    <3>6. Spent(admitted'[<<p, k>>], from, now') = 0
      BY <2>1, <3>1, <3>2, <3>3
    <3>7. PICK d : d = (now - from) * Rate(p, k)
      OBVIOUS
    <3>8. 0 + Held(p, k)' <= Burst(p, k) + d
      BY <3>4, <3>5, <3>7
    <3> QED BY <2>1, <3>4, <3>6, <3>7, <3>8
  <2> HIDE DEF Fits
  <2> QED BY <1>1, <2>1, <2>2
<1> QED BY <1>5, <1>6, <1>7, <1>8, BucketEffects

LEMMA NextWithin ==
    ASSUME TypeInv, Counted, Reserve, Within, Reserve', HeldBounded', [Next]_vars
    PROVE  Within'
<1>0. now \in 0..MaxTime /\ MaxTime \in Nat
  BY GateAssumption DEF TypeInv, TypeOK
<1> DEFINE Fits(p, k, from, to) ==
      Parts * Spent(admitted'[<<p, k>>], from, to) <= Burst(p, k) + (to - from) * Rate(p, k)
<1>1. ASSUME \A p \in Principals, k \in Kinds, from \in 0..now' : \A to \in from..now' :
                Fits(p, k, from, to)
      PROVE  Within'
  BY <1>1 DEF Within, Spent, Burst, Rate, Full, LimitFor, BucketOf
(* The stretches that end now are those of the reserve.                    *)
<1>2. ASSUME NEW p \in Principals, NEW k \in Kinds, NEW from \in 0..now',
             Counted', now' \in 0..MaxTime
      PROVE  Fits(p, k, from, now')
  <2>1. PICK n, j, top, d, w : /\ n = now' /\ j = Held(p, k)' /\ top = Burst(p, k)
                               /\ d = (now' - from) * Rate(p, k) /\ w = admitted'[<<p, k>>]
    OBVIOUS
  <2>2. Parts * Spent(w, from, n) + j <= top + d
    BY <2>1 DEF Reserve, Spent, Burst, Rate, Full, LimitFor, BucketOf
  <2>3. j \in 0..top /\ top \in Nat /\ Parts \in Nat
    <3>1. Held(p, k)' \in 0..Burst(p, k)
      BY DEF HeldBounded, Burst, Full, LimitFor, BucketOf
    <3> QED BY <2>1, <3>1, KindFacts
  <2>4. d \in Nat
    <3>1. Rate(p, k) \in Nat
      BY KindFacts
    <3> QED BY <1>2, <2>1, <3>1, Stretch
  <2>5. Spent(w, from, n) \in Int
    <3>1. w \in Counts /\ n \in -1..MaxTime /\ from \in Instants
      BY <1>0, <1>2, <2>1 DEF Counted, Instants
    <3> QED BY <3>1, SpentIsTotal
  <2>6. PICK x : x = Parts * Spent(w, from, n)
    OBVIOUS
  <2>7. x \in Int
    BY <2>3, <2>5, <2>6
  <2>8. x <= top + d
    BY <2>2, <2>3, <2>4, <2>6, <2>7
  <2> QED BY <2>1, <2>6, <2>8
<1>3. Counted' /\ now' \in 0..MaxTime
  BY NextCounted, CredEffects
<1>4. ASSUME NEW p \in Principals, NEW k \in Kinds, NEW from \in 0..now, NEW to \in from..now,
             Spent(admitted'[<<p, k>>], from, to) = Spent(admitted[<<p, k>>], from, to)
      PROVE  Fits(p, k, from, to)
  BY <1>4 DEF Within
<1>5. CASE LetsNobodyIn
  BY <1>1, <1>4, <1>5 DEF LetsNobodyIn
<1>6. ASSUME NEW q \in Principals, NEW j \in Kinds, LetsIn(q, j) PROVE Within'
  <2>1. now' = now
    BY <1>6 DEF LetsIn
  <2>2. ASSUME NEW p \in Principals, NEW k \in Kinds, NEW from \in 0..now, NEW to \in from..now
        PROVE  Fits(p, k, from, to)
    <3>1. CASE to = now
      BY <1>2, <1>3, <2>1, <3>1
    <3>2. CASE to # now /\ p = q /\ k = j
      <4>1. to < now
        BY <1>0, <3>2
      <4>2. Spent(admitted'[<<q, j>>], from, to) = Spent(admitted[<<q, j>>], from, to)
        BY <1>6, <4>1, OneMoreSpent
      <4> HIDE DEF Fits
      <4> QED BY <1>4, <3>2, <4>2
    <3>3. CASE <<p, k>> # <<q, j>>
      <4>1. admitted'[<<p, k>>] = admitted[<<p, k>>]
        BY <1>6, <3>3, OneMoreSpent
      <4> HIDE DEF Fits
      <4> QED BY <1>4, <4>1
    <3> HIDE DEF Fits
    <3> QED BY <3>1, <3>2, <3>3
  <2> HIDE DEF Fits
  <2> QED BY <1>1, <2>1, <2>2
<1>7. CASE Passes
  <2>1. now' = now + 1 /\ admitted' = admitted
    BY <1>7 DEF Passes
  <2>2. ASSUME NEW p \in Principals, NEW k \in Kinds, NEW from \in 0..now', NEW to \in from..now'
        PROVE  Fits(p, k, from, to)
    <3>1. CASE to = now'
      <4> HIDE DEF Fits
      <4> QED BY <1>2, <1>3, <3>1
    <3>2. CASE to # now'
      <4>1. from \in 0..now /\ to \in from..now
        BY <1>0, <2>1, <3>2
      <4> HIDE DEF Fits
      <4> QED BY <1>4, <2>1, <4>1
    <3> QED BY <3>1, <3>2
  <2> HIDE DEF Fits
  <2> QED BY <1>1, <2>2
<1>8. CASE Forgets
  <2>1. now' = now
    BY <1>8 DEF Forgets
  <2>2. ASSUME NEW p \in Principals, NEW k \in Kinds, NEW from \in 0..now, NEW to \in from..now
        PROVE  Fits(p, k, from, to)
    <3>1. PICK w : w = [t \in Instants |-> 0]
      OBVIOUS
    <3>2. admitted'[<<p, k>>] = w
      BY <1>8, <3>1 DEF Forgets, NoneYet, Instants
    <3>3. Spent(w, from, to) = 0
      <4>1. from \in Instants /\ to \in -1..MaxTime
        BY <1>0 DEF Instants
      <4> QED BY <3>1, <4>1, SpentNothing
    <3>4. (to - from) * Rate(p, k) \in Nat /\ Burst(p, k) \in Nat /\ Parts * 0 = 0
      <4>1. Rate(p, k) \in Nat /\ Burst(p, k) \in Nat /\ Parts \in Nat
        BY KindFacts
      <4> QED BY <1>0, <4>1, Stretch
    <3>5. PICK d, top : d = (to - from) * Rate(p, k) /\ top = Burst(p, k)
      OBVIOUS
    <3>6. 0 <= top + d
      BY <3>4, <3>5
    <3> QED BY <3>2, <3>3, <3>4, <3>5, <3>6
  <2> HIDE DEF Fits
  <2> QED BY <1>1, <2>1, <2>2
<1> QED BY <1>5, <1>6, <1>7, <1>8, BucketEffects

(* In any stretch of time no principal is let in more often than its burst *)
(* and the refill of the stretch allow, over all its credentials and both  *)
(* transports, whatever buckets were pruned meanwhile.                     *)
THEOREM QuotaIsKept == Spec => []QuotaHolds
<1>1. Init => Counted /\ Reserve /\ Within
  <2> SUFFICES ASSUME Init PROVE Counted /\ Reserve /\ Within
    OBVIOUS
  <2>1. now = 0 /\ DOMAIN buckets = {} /\ MaxTime \in Nat
    <3>1. DOMAIN << >> = {}
      OBVIOUS
    <3> QED BY <3>1, GateAssumption DEF Init
  <2>2. PICK w : w = [t \in Instants |-> 0]
    OBVIOUS
  <2>3. w \in Counts /\ admitted = [x \in Principals \X Kinds |-> w]
    BY <2>2 DEF Init, Counts, NoneYet, Instants
  <2>4. Counted
    <3>1. now + 1 \in Instants
      BY <2>1 DEF Instants
    <3> QED BY <2>2, <2>3, <3>1 DEF Counted
  <2>5. ASSUME NEW p \in Principals, NEW k \in Kinds, NEW from \in 0..now
        PROVE  /\ from = 0 /\ Spent(admitted[<<p, k>>], from, 0) = 0
               /\ Held(p, k) = Burst(p, k) /\ Burst(p, k) \in Nat
               /\ (0 - from) * Rate(p, k) = 0 /\ Parts * 0 = 0
    <3>1. from = 0
      BY <2>1
    <3>2. Spent(w, 0, 0) = 0
      <4>1. 0 \in Instants /\ 0 \in -1..MaxTime
        BY <2>1 DEF Instants
      <4> QED BY <2>2, <4>1, SpentNothing
    <3>3. Held(p, k) = Burst(p, k)
      BY <2>1 DEF Held, Burst, Level, Full
    <3>4. Burst(p, k) \in Nat /\ Rate(p, k) \in Nat /\ Parts \in Nat
      BY KindFacts
    <3> QED BY <2>3, <3>1, <3>2, <3>3, <3>4
  <2>6. Reserve
    BY <2>1, <2>5 DEF Reserve
  <2>7. Within
    <3>1. ASSUME NEW p \in Principals, NEW k \in Kinds, NEW from \in 0..now, NEW to \in from..now
          PROVE  Parts * Spent(admitted[<<p, k>>], from, to)
                   <= Burst(p, k) + (to - from) * Rate(p, k)
      <4>1. to = 0 /\ from = 0
        BY <2>1
      <4> QED BY <2>5, <4>1
    <3> QED BY <3>1 DEF Within
  <2> QED BY <2>4, <2>6, <2>7
<1>2. TypeInv /\ Counted /\ Reserve /\ Within /\ HeldBounded' /\ [Next]_vars
        => Counted' /\ Reserve' /\ Within'
  BY NextCounted, NextReserve, NextWithin
<1> QED BY <1>1, <1>2, InitTypeInv, NextTypeInv, BucketsHold, WithinIsQuota, PTL DEF Spec

=============================================================================
