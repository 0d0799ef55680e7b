----------------------------- MODULE BoardCache -----------------------------
(***************************************************************************)
(* The read-through cache of the leaderboard pages (app/cache.py and the   *)
(* two cached reads of app/leaderboard_routes.py).  A page is looked up,   *)
(* read from the database and stored with a time to live, in three steps   *)
(* of one request; a writer commits, then drops the pages it changed from  *)
(* the one store its worker can reach.                                     *)
(*                                                                         *)
(* A page is abstracted to the number of changes it reflects.              *)
(*                                                                         *)
(* Its names are its own, so that the module of proofs can extend it with *)
(* VaultConsole and VaultWalks.                                            *)
(*                                                                         *)
(* A definition named ...Mutant is a way the one it precedes could be      *)
(* wrong; nothing refers to it.                                            *)
(***************************************************************************)
EXTENDS Integers, Sequences, FiniteSets, FiniteSetsExt

CONSTANTS
    Modes,      \* names of game modes
    Filters,    \* game_modes filters of /latest: the name of one mode, or NoFilter
    Stores,     \* caches: one per worker in memory, one for all with Redis
    Reqs,       \* requests in flight
    TTL,        \* CACHE_TTL
    MaxChanges  \* bound: changes explored

ASSUME BoardCacheAssumption == TTL \in Nat \ {0} /\ MaxChanges \in Nat

VARIABLES
    version,  \* page -> changes committed to what it shows
    cache,    \* store -> key -> entry
    req,      \* the handlers
    settled   \* history: store -> page -> newest change invalidated there

cacheVars == <<version, cache, req, settled>>

NoFilter == "no filter"

ScorePages(m) == {<<"scores", m>>}
BoardPages == ({"scores"} \X Modes) \cup ({"latest"} \X Filters)

(* The pages of /latest that show a score of this mode.                    *)
LatestPages(m) == {<<"latest", f>> : f \in Filters \cap {NoFilter, m}}

(* The two f-strings, leaderboard:{game_mode}:{period}:... for one period  *)
(* and leaderboard:latest:{modes_key}:..., at their colons.                *)
KeyOf(p) == IF p[1] = "scores" THEN <<p[2], "daily">>
                               ELSE <<"latest", IF p[2] = NoFilter THEN "all" ELSE p[2]>>
CacheKeys == {KeyOf(p) : p \in BoardPages}
WithPrefix(x) == {k \in CacheKeys : k[1] = x}

NoEntry == [left |-> 0]
NoRequest == [pc |-> "idle"]
Changes == Max({version[p] : p \in BoardPages})

CacheInit ==
    /\ version = [p \in BoardPages |-> 0]
    /\ cache = [s \in Stores |-> [k \in CacheKeys |-> NoEntry]]
    /\ req = [r \in Reqs |-> NoRequest]
    /\ settled = [s \in Stores |-> [p \in BoardPages |-> 0]]

Cached(s, k) == cache[s][k] # NoEntry

-----------------------------------------------------------------------------
(* get_scores and latest_scores: a miss, or a cache that cannot be read.   *)
(* (A hit answers from the entry and changes nothing.)                     *)
Lookup(r, s, p) ==
    /\ req[r] = NoRequest
    /\ req' = [req EXCEPT ![r] = [pc |-> "read", store |-> s, page |-> p]]
    /\ UNCHANGED <<version, cache, settled>>

ReadBoard(r) ==
    /\ req[r].pc = "read"
    /\ req' = [req EXCEPT ![r] = [pc |-> "fill", store |-> @.store, page |-> @.page,
                                  version |-> version[@.page]]]
    /\ UNCHANGED <<version, cache, settled>>

(* setex: always a new time to live.                                       *)
Fill(r) ==
    /\ req[r].pc = "fill"
    /\ LET p == req[r].page
       IN cache' = [cache EXCEPT ![req[r].store][KeyOf(p)] =
                       [page |-> p, version |-> req[r].version, left |-> TTL,
                        overlapped |-> req[r].version < version[p]]]
    /\ req' = [req EXCEPT ![r] = NoRequest]
    /\ UNCHANGED <<version, settled>>

Bump(P) == version' = [p \in BoardPages |-> IF p \in P THEN version[p] + 1 ELSE version[p]]

(* The commit of submit_score, submit_run (one mode) or rename (any page). *)
Commit(r, s, P, deletes) ==
    /\ req[r] = NoRequest
    /\ Changes < MaxChanges
    /\ Bump(P)
    /\ req' = [req EXCEPT ![r] = [pc |-> "invalidate", store |-> s, deletes |-> deletes,
                                  made |-> [p \in P |-> version[p] + 1]]]
    /\ UNCHANGED <<cache, settled>>

DeletedMutant(m) == <<WithPrefix(m)>>
Deleted(m) == <<WithPrefix(m), WithPrefix("latest")>>
CommitScores(r, s, m) == Commit(r, s, ScorePages(m) \cup LatestPages(m), Deleted(m))
CommitRename(r, s) == Commit(r, s, BoardPages, <<CacheKeys>>)

(* One delete_prefix of _invalidate_score_caches or of                     *)
(* _invalidate_leaderboard_caches.                                         *)
DeletePrefix(r) ==
    /\ req[r].pc = "invalidate"
    /\ LET s == req[r].store
           K == Head(req[r].deletes)
           rest == Tail(req[r].deletes)
           made == req[r].made
       IN /\ cache' = [cache EXCEPT ![s] = [k \in CacheKeys |->
                          IF k \in K THEN NoEntry ELSE cache[s][k]]]
          /\ IF rest = << >>
               THEN /\ req' = [req EXCEPT ![r] = NoRequest]
                    /\ settled' = [settled EXCEPT ![s] = [p \in BoardPages |->
                          IF p \in DOMAIN made THEN Max({settled[s][p], made[p]})
                          ELSE settled[s][p]]]
               ELSE /\ req' = [req EXCEPT ![r].deletes = rest]
                    /\ UNCHANGED settled
    /\ UNCHANGED version

(* A failed cache call is logged and skipped; a lost process skips the     *)
(* rest of the handler as well.                                            *)
Lose(r) ==
    /\ req[r] # NoRequest
    /\ req' = [req EXCEPT ![r] = NoRequest]
    /\ UNCHANGED <<version, cache, settled>>

(* What a page shows changes without an invalidation: a daily or weekly    *)
(* page at midnight, a page whose mode is given another order.             *)
SilentChange(m) ==
    /\ Changes < MaxChanges
    /\ Bump(ScorePages(m))
    /\ UNCHANGED <<cache, req, settled>>

(* Time passes for the entries: one more unit of TTL is used up.           *)
AgedNeverMutant(e) == e
Aged(e) == IF e.left <= 1 THEN NoEntry ELSE [e EXCEPT !.left = @ - 1]

Age ==
    /\ \E s \in Stores, k \in CacheKeys : Cached(s, k)
    /\ cache' = [s \in Stores |-> [k \in CacheKeys |-> Aged(cache[s][k])]]
    /\ UNCHANGED <<version, req, settled>>

(* A full TTLCache drops an entry to make room.                            *)
Evict(s, k) ==
    /\ Cached(s, k)
    /\ cache' = [cache EXCEPT ![s][k] = NoEntry]
    /\ UNCHANGED <<version, req, settled>>

Step(r) == ReadBoard(r) \/ Fill(r) \/ DeletePrefix(r)

CacheNext ==
    \/ \E r \in Reqs, s \in Stores :
          \/ \E p \in BoardPages : Lookup(r, s, p)
          \/ \E m \in Modes : CommitScores(r, s, m)
          \/ CommitRename(r, s)
    \/ \E r \in Reqs : Step(r) \/ Lose(r)
    \/ \E m \in Modes : SilentChange(m)
    \/ Age
    \/ \E s \in Stores, k \in CacheKeys : Evict(s, k)

(* A handler that is not lost makes progress, and the clock moves on.      *)
Fairness == WF_cacheVars(Age) /\ \A r \in Reqs : WF_cacheVars(Step(r))

CacheSpec == CacheInit /\ [][CacheNext]_cacheVars
FairCacheSpec == CacheSpec /\ Fairness

-----------------------------------------------------------------------------
(* Properties.                                                             *)

Shown(s) == {cache[s][k] : k \in {x \in CacheKeys : Cached(s, x)}}

(* A page dropped after a write comes back stale only from a read that     *)
(* overlapped a commit: the two prefixes cover every page a write changes. *)
StaleOnlyByOverlap ==
    \A s \in Stores : \A e \in Shown(s) :
        e.version < settled[s][e.page] => e.overlapped

(* However requests, workers, failed invalidations and midnights fall, a   *)
(* page that stops changing is shown as it is in the end.                  *)
EventuallyCurrent ==
    <>[](\A s \in Stores : \A e \in Shown(s) : e.version = version[e.page])

(* A request is answered from a page made for the modes it asked for:      *)
(* whatever the modes are called, no two pages share a key.                *)
AnswersTheRequest ==
    \A s \in Stores, p \in BoardPages : Cached(s, KeyOf(p)) => cache[s][KeyOf(p)].page = p

=============================================================================
