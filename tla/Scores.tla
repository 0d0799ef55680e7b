------------------------------- MODULE Scores -------------------------------
(***************************************************************************)
(* Score and run submission of the leaderboard service                     *)
(* (app/leaderboard_routes.py, app/validation.py, app/periods.py) over its *)
(* PostgreSQL tables, together with the two jobs that prune those tables   *)
(* (scripts/prune_idempotency_keys.py, scripts/prune_guests.py).           *)
(*                                                                         *)
(* A handler runs as one READ COMMITTED transaction: the configuration of  *)
(* the mode, the earlier run and the write are separate statements, so     *)
(* other transactions commit between them.  The statements of              *)
(* _apply_score_write are one step: the first upsert locks the all-time    *)
(* row of the player, which every writer of that player and mode takes     *)
(* first, and nothing is visible before the commit.                        *)
(*                                                                         *)
(* A definition named ...Mutant is a way the one it precedes could be      *)
(* wrong; nothing refers to it.                                            *)
(***************************************************************************)
EXTENDS Integers, FiniteSets, FiniteSetsExt

CONSTANTS
    Users,        \* account ids
    Newcomers,    \* the accounts that start as guests
    Modes,        \* names a game mode can be created under
    Keys,         \* idempotency keys, and client_run_ids
    Histories,    \* bound: the configurations one mode may go through
    RawScores,    \* scores a client submits to /scores
    RunBodies,    \* runs a client submits to /runs
    Reqs,         \* requests in flight
    DaysPerWeek,  \* 7 in the code
    Retention,    \* IDEMPOTENCY_PRUNE_DAYS
    MaxDay,       \* bound: the last day explored
    BigintMax     \* largest value of the scores.score column

Absent == -1      \* NULL in a score column, None in a request body
NoConfig == [sort |-> "DESC", strategy |-> "none", tier |-> 0,
             ceiling |-> 0, claimedOnly |-> FALSE]
NoRun == "no run"
NoKey == "no key"

Periods == {"alltime", "daily", "weekly"}
Config == [sort : {"ASC", "DESC"}, strategy : {"best", "cumulative"},
           tier : 0..3, ceiling : Nat, claimedOnly : BOOLEAN]
Configs == UNION Histories
RunBody == [log : BOOLEAN, claim : Nat \cup {Absent}, replay : Nat \cup {Absent}]

ASSUME ScoresAssumption ==
    /\ Newcomers \subseteq Users
    /\ Configs \subseteq Config
    /\ RawScores \subseteq 0..BigintMax
    /\ \A c \in Configs : c.ceiling <= BigintMax
    /\ RunBodies \subseteq RunBody
    /\ NoRun \notin Keys /\ NoKey \notin Keys
    /\ DaysPerWeek \in Nat \ {0} /\ Retention \in Nat \ {0}
    /\ MaxDay \in Nat /\ BigintMax \in Nat

VARIABLES
    day,       \* the UTC day
    modes,     \* game_modes
    users,     \* users
    guests,    \* users with is_guest = TRUE
    scores,    \* scores: bucket -> row
    runs,      \* runs: <<user, mode, client_run_id>> -> row
    markers,   \* submission_idempotency: <<user, mode, key>> -> first_seen
    req,       \* the handlers
    pruning,   \* the users the guest pruner is about to delete
    past,      \* history: every configuration a mode has had
    ledger     \* history: every score that reached the board

tables == <<day, modes, users, guests, scores, runs, markers, pruning, past, ledger>>
vars == <<tables, req>>

-----------------------------------------------------------------------------
(* Requests.  A raw submission carries its score as the claim.             *)

RawBodies == [log : {TRUE}, claim : RawScores, replay : {Absent}]
Submissions ==
    [kind : {"raw"}, user : Users, mode : Modes, key : Keys \cup {NoKey}, body : RawBodies]
      \cup
    [kind : {"run"}, user : Users, mode : Modes, key : Keys, body : RunBodies]

Answers == {"standing", "missing", "rejected"}
Idle == [pc |-> "idle"]

(* get_period_start: the all-time bucket has one fixed start.              *)
PeriodStart(p, d) ==
    CASE p = "alltime" -> 0
      [] p = "daily"   -> d
      [] p = "weekly"  -> d - (d % DaysPerWeek)

BucketsOf(u, m, d) == {<<u, m, p, PeriodStart(p, d)>> : p \in Periods}

(* _is_improvement_predicate                                               *)
BetterMutant(sort, a, b) == a > b
Better(sort, a, b) == IF sort = "ASC" THEN a < b ELSE a > b

(* TieredValidator.validate, for the mode's required tier.                 *)
Rejected(tier) == [status |-> "rejected", score |-> Absent, tier |-> tier]
Validated(tier, pts) == [status |-> "validated", score |-> pts, tier |-> tier]

Validate(body, c) ==
    CASE c.tier <= 1 -> IF body.log /\ body.claim # Absent /\ body.claim <= c.ceiling
                          THEN Validated(1, body.claim) ELSE Rejected(1)
      [] c.tier = 2  -> IF body.log /\ body.replay # Absent /\ body.replay <= c.ceiling
                          THEN Validated(2, body.replay) ELSE Rejected(2)
      [] OTHER       -> Rejected(0)

-----------------------------------------------------------------------------
Init ==
    /\ day = 0
    /\ modes = [m \in Modes |-> NoConfig]
    /\ users = Users
    /\ guests = Newcomers
    /\ scores = << >>
    /\ runs = << >>
    /\ markers = << >>
    /\ req = [r \in Reqs |-> Idle]
    /\ pruning = {}
    /\ past = [m \in Modes |-> {}]
    /\ ledger = {}

(* POST /game_modes: an upsert of every column of the mode.                *)
CreateGameMode(m, c) ==
    /\ \E H \in Histories : past[m] \cup {c} \subseteq H
    /\ modes' = [modes EXCEPT ![m] = c]
    /\ past' = [past EXCEPT ![m] = @ \cup {c}]
    /\ UNCHANGED <<day, users, guests, scores, runs, markers, req, pruning, ledger>>

(* POST /claim or /steam/link of another service.                          *)
ClaimAccount(u) ==
    /\ u \in guests
    /\ guests' = guests \ {u}
    /\ UNCHANGED <<day, modes, users, scores, runs, markers, req, pruning, past, ledger>>

(* An answer that reports on the board is kept for the properties; any     *)
(* other refusal or error frees the slot.                                  *)
Refuse(r) == req' = [req EXCEPT ![r] = Idle]
Answer(r, a) == req' = [req EXCEPT ![r] = [pc |-> "done", sub |-> @.sub, answer |-> a]]

(* The request reaches its handler, which reads the clock.  The is_guest   *)
(* claim is the access token's: it may still say guest of an account       *)
(* claimed since, never the opposite.                                      *)
Receive(r, s, guestClaim) ==
    /\ req[r].pc \in {"idle", "done"}
    /\ (s.user \in guests \/ s.user \notin users) => guestClaim
    /\ req' = [req EXCEPT ![r] = [pc |-> "received", sub |-> s, guest |-> guestClaim,
                                  now |-> day]]
    /\ UNCHANGED tables

(* SELECT ... FROM game_modes and the refusals that depend on it.  It is   *)
(* the first statement of the transaction, so NOW() is its instant until   *)
(* the commit.                                                             *)
RefusedGuestMutant(s, guestClaim, c) ==
    \/ c = NoConfig
    \/ s.kind = "raw" /\ (c.tier > 0 \/ s.body.claim > c.ceiling)
    \/ s.kind = "run" /\ c.tier < 1
    \/ c.strategy = "cumulative" /\ s.key = NoKey
Refused(s, guestClaim, c) ==
    \/ c = NoConfig
    \/ s.kind = "raw" /\ (c.tier > 0 \/ s.body.claim > c.ceiling)
    \/ s.kind = "run" /\ c.tier < 1
    \/ c.claimedOnly /\ guestClaim
    \/ c.strategy = "cumulative" /\ s.key = NoKey

ReadMode(r) ==
    /\ req[r].pc = "received"
    /\ LET s == req[r].sub
           c == modes[s.mode]
       IN IF Refused(s, req[r].guest, c)
            THEN Refuse(r)
            ELSE req' = [req EXCEPT ![r] =
                    IF s.kind = "raw"
                      THEN [pc |-> "write", sub |-> s, cfg |-> c, now |-> @.now, began |-> day]
                      ELSE [pc |-> "lookup", sub |-> s, cfg |-> c, now |-> @.now]]
    /\ UNCHANGED tables

(* _existing_run_response: a finished run answers with what it came to.    *)
ReplayMutant(r, id) == req' = [req EXCEPT ![r] = [pc |-> "fetch", sub |-> @.sub]]
Replay(r, id) ==
    IF runs[id].status = "validated"
      THEN req' = [req EXCEPT ![r] = [pc |-> "fetch", sub |-> @.sub]]
      ELSE Answer(r, "rejected")

RunId(s) == <<s.user, s.mode, s.key>>

(* The anti-replay SELECT of submit_run.                                   *)
LookupRun(r) ==
    /\ req[r].pc = "lookup"
    /\ LET id == RunId(req[r].sub)
       IN IF id \in DOMAIN runs
            THEN Replay(r, id)
            ELSE req' = [req EXCEPT ![r].pc = "insert"]
    /\ UNCHANGED tables

(* One upsert of _apply_score_write.                                       *)
NewRow(b, c, pts, run, tier) ==
    LET row == [score |-> pts, run |-> run, tier |-> tier]
    IN IF b \notin DOMAIN scores THEN row
       ELSE IF c.strategy = "cumulative" THEN [row EXCEPT !.score = scores[b].score + pts]
       ELSE IF Better(c.sort, pts, scores[b].score) THEN row
       ELSE scores[b]

(* Which increment of its key this is, so that the ledger tells two apart  *)
(* whose handlers ran side by side.                                        *)
EntryId(e) == <<e.user, e.mode, e.key>>
Nth(s, mark) ==
    IF mark = Absent THEN 0 ELSE Cardinality({e \in ledger : EntryId(e) = RunId(s)})

ApplyScoreWrite(s, c, now, pts, run, tier, mark) ==
    LET touched == BucketsOf(s.user, s.mode, now)
    IN /\ scores' = [b \in DOMAIN scores \cup touched |->
                        IF b \in touched THEN NewRow(b, c, pts, run, tier) ELSE scores[b]]
       /\ ledger' = ledger \cup {[kind |-> s.kind, user |-> s.user, mode |-> s.mode,
                                  key |-> s.key, points |-> pts, tier |-> tier,
                                  now |-> now, at |-> day, mark |-> mark,
                                  nth |-> Nth(s, mark)]}

(* The addition leaves the bigint column: the transaction fails whole.     *)
OverflowsMutant(s, c, now, pts) == FALSE
Overflows(s, c, now, pts) ==
    /\ c.strategy = "cumulative"
    /\ \E b \in BucketsOf(s.user, s.mode, now) \cap DOMAIN scores :
          scores[b].score + pts > BigintMax

(* The marker of this key is there: ON CONFLICT DO NOTHING, rowcount 0.    *)
DuplicateMutant(s, c) == FALSE
Duplicate(s, c) == c.strategy = "cumulative" /\ RunId(s) \in DOMAIN markers

(* The first_seen of the marker a raw score leaves, Absent where it leaves *)
(* none: the default of the column, the instant the transaction began.     *)
Mark(c, began) == IF c.strategy = "cumulative" THEN began ELSE Absent

Committed(r) == req' = [req EXCEPT ![r] = [pc |-> "fetch", sub |-> @.sub]]

(* The write of submit_score and its commit.  A cumulative mode first      *)
(* inserts the idempotency marker; a duplicate commits without a write.    *)
CommitScore(r) ==
    /\ req[r].pc = "write"
    /\ LET s == req[r].sub
           c == req[r].cfg
           id == RunId(s)
           mark == Mark(c, req[r].began)
           duplicate == Duplicate(s, c)
           fails == s.user \notin users
                      \/ (~duplicate /\ Overflows(s, c, req[r].now, s.body.claim))
       IN \/ /\ fails
             /\ Refuse(r)
             /\ UNCHANGED <<scores, markers, ledger>>
          \/ /\ ~fails /\ duplicate
             /\ Committed(r)
             /\ UNCHANGED <<scores, markers, ledger>>
          \/ /\ ~fails /\ ~duplicate
             /\ Committed(r)
             /\ ApplyScoreWrite(s, c, req[r].now, s.body.claim, NoRun, 0, mark)
             /\ markers' = IF mark = Absent THEN markers
                           ELSE [k \in DOMAIN markers \cup {id} |->
                                   IF k = id THEN mark ELSE markers[k]]
    /\ UNCHANGED <<day, modes, users, guests, runs, pruning, past>>

(* INSERT of the run, validation, its outcome and the score, one commit.   *)
(* A row under the same client_run_id makes the INSERT fail: the handler   *)
(* rolls back and looks the run up again.                                  *)
CommitRun(r) ==
    /\ req[r].pc = "insert"
    /\ LET s == req[r].sub
           c == req[r].cfg
           id == RunId(s)
           v == Validate(s.body, c)
       IN \/ /\ s.user \notin users
             /\ Refuse(r)
             /\ UNCHANGED <<scores, runs, ledger>>
          \/ /\ s.user \in users
             /\ id \in DOMAIN runs
             /\ Replay(r, id)
             /\ UNCHANGED <<scores, runs, ledger>>
          \/ /\ s.user \in users
             /\ id \notin DOMAIN runs
             /\ v.status = "rejected"
             /\ runs' = [k \in DOMAIN runs \cup {id} |-> IF k = id THEN v ELSE runs[k]]
             /\ Answer(r, "rejected")
             /\ UNCHANGED <<scores, ledger>>
          \/ /\ s.user \in users
             /\ id \notin DOMAIN runs
             /\ v.status = "validated"
             /\ IF Overflows(s, c, req[r].now, v.score)
                  THEN Refuse(r) /\ UNCHANGED <<scores, runs, ledger>>
                  ELSE /\ runs' = [k \in DOMAIN runs \cup {id} |->
                                      IF k = id THEN v ELSE runs[k]]
                       /\ ApplyScoreWrite(s, c, req[r].now, v.score, s.key, v.tier, Absent)
                       /\ Committed(r)
    /\ UNCHANGED <<day, modes, users, guests, markers, pruning, past>>

(* _fetch_score_with_rank, in a transaction of its own after the commit.   *)
FetchStanding(r) ==
    /\ req[r].pc = "fetch"
    /\ LET s == req[r].sub
       IN Answer(r, IF <<s.user, s.mode, "alltime", 0>> \in DOMAIN scores
                      THEN "standing" ELSE "missing")
    /\ UNCHANGED tables

(* The connection or the process is lost: an open transaction rolls back,  *)
(* a committed one stays, and the client learns nothing either way.        *)
Lose(r) ==
    /\ req[r].pc \notin {"idle", "done"}
    /\ Refuse(r)
    /\ UNCHANGED tables

(* prune_idempotency_keys                                                  *)
PruneKeys ==
    /\ \E k \in DOMAIN markers : markers[k] + Retention < day
    /\ markers' = [k \in {j \in DOMAIN markers : markers[j] + Retention >= day} |->
                      markers[k]]
    /\ UNCHANGED <<day, modes, users, guests, scores, runs, req, pruning, past, ledger>>

(* prune_guests: the DELETE selects, among the guests that are old enough, *)
(* its rows in one snapshot ...                                            *)
HasHistory(u) == \/ \E b \in DOMAIN scores : b[1] = u
                 \/ \E k \in DOMAIN runs : k[1] = u

SelectGuests ==
    /\ pruning = {}
    /\ \E old \in SUBSET guests : pruning' = {u \in old : ~HasHistory(u)}
    /\ pruning' # {}
    /\ UNCHANGED <<day, modes, users, guests, scores, runs, markers, req, past, ledger>>

(* The foreign keys of scores and runs, ON DELETE RESTRICT.                *)
Restricted(u) == HasHistory(u)

(* ... and the RESTRICT foreign keys decide once it holds their locks: a   *)
(* row committed since refuses the whole statement.  A row changed since   *)
(* is read again and dropped from the DELETE when it is no guest any more. *)
DeleteGuests ==
    /\ pruning # {}
    /\ pruning' = {}
    /\ LET doomed == pruning \cap guests
       IN IF \E u \in doomed : Restricted(u)
            THEN UNCHANGED <<users, guests, markers>>
            ELSE /\ users' = users \ doomed
                 /\ guests' = guests \ doomed
                 /\ markers' = [k \in {j \in DOMAIN markers : j[1] \notin doomed} |->
                                   markers[k]]
    /\ UNCHANGED <<day, modes, scores, runs, req, past, ledger>>

NextDay ==
    /\ day < MaxDay
    /\ day' = day + 1
    /\ UNCHANGED <<modes, users, guests, scores, runs, markers, req, pruning, past, ledger>>

Next ==
    \/ \E m \in Modes, c \in Configs : CreateGameMode(m, c)
    \/ \E u \in Users : ClaimAccount(u)
    \/ \E r \in Reqs, s \in Submissions, g \in BOOLEAN : Receive(r, s, g)
    \/ \E r \in Reqs : \/ ReadMode(r) \/ LookupRun(r)
                       \/ CommitScore(r) \/ CommitRun(r)
                       \/ FetchStanding(r) \/ Lose(r)
    \/ PruneKeys
    \/ SelectGuests
    \/ DeleteGuests
    \/ NextDay

Spec == Init /\ [][Next]_vars

-----------------------------------------------------------------------------
(* Properties.                                                             *)

Row == [score : 0..BigintMax, run : Keys \cup {NoRun}, tier : 0..3]
RunRow == [status : {"validated", "rejected"}, score : Nat \cup {Absent}, tier : 0..3]
Entry == [kind : {"raw", "run"}, user : Users, mode : Modes, key : Keys \cup {NoKey},
          points : Nat, tier : 0..3, now : Nat, at : Nat, mark : Nat \cup {Absent}, nth : Nat]
Buckets == Users \X Modes \X Periods \X Int
RunIds == Users \X Modes \X Keys
Request ==
    {Idle}
    \cup [pc : {"received"}, sub : Submissions, guest : BOOLEAN, now : Nat]
    \cup [pc : {"write"}, sub : Submissions, cfg : Configs, now : Nat, began : Nat]
    \cup [pc : {"lookup", "insert"}, sub : Submissions, cfg : Configs, now : Nat]
    \cup [pc : {"fetch"}, sub : Submissions]
    \cup [pc : {"done"}, sub : Submissions, answer : Answers]

(* Pruning never takes an account from under its scores, runs or markers.  *)
HistoryStands ==
    /\ \A u \in Users : HasHistory(u) => u \in users
    /\ \A k \in DOMAIN markers : k[1] \in users

TypeOK ==
    /\ day \in Nat
    /\ modes \in [Modes -> Configs \cup {NoConfig}]
    /\ users \subseteq Users /\ guests \subseteq users /\ pruning \subseteq Users
    /\ DOMAIN scores \subseteq Buckets /\ \A b \in DOMAIN scores : scores[b] \in Row
    /\ DOMAIN runs \subseteq RunIds /\ \A k \in DOMAIN runs : runs[k] \in RunRow
    /\ DOMAIN markers \subseteq RunIds /\ \A k \in DOMAIN markers : markers[k] \in Nat
    /\ req \in [Reqs -> Request]
    /\ past \in [Modes -> SUBSET Configs]
    /\ ledger \subseteq Entry /\ IsFiniteSet(ledger)
    /\ HistoryStands

(* The mode has scored the same way since it was created.                  *)
Always(m, strategy) == \A c \in past[m] : c.strategy = strategy
SortsOneWay(m) == \A c, d \in past[m] : c.sort = d.sort

Entries(b) ==
    {e \in ledger : e.user = b[1] /\ e.mode = b[2] /\ PeriodStart(b[3], e.now) = b[4]}

(* A best board shows, in each of its three buckets, the best of all the   *)
(* scores accepted for that bucket, whatever requests overlapped and       *)
(* whichever side of midnight each one committed.                          *)
BestIsOptimum ==
    /\ \A e \in ledger : BucketsOf(e.user, e.mode, e.now) \subseteq DOMAIN scores
    /\ \A b \in DOMAIN scores :
          Always(b[2], "best") /\ SortsOneWay(b[2]) =>
            /\ \E e \in Entries(b) : e.points = scores[b].score
            /\ \A c \in past[b[2]], e \in Entries(b) :
                  IF c.sort = "ASC" THEN scores[b].score <= e.points
                                    ELSE scores[b].score >= e.points

(* A cumulative total is the sum of the increments accepted for its        *)
(* bucket: none is lost and none is added twice.                           *)
CumulativeIsSum ==
    \A b \in DOMAIN scores :
        Always(b[2], "cumulative") =>
            scores[b].score = MapThenSumSet(LAMBDA e : e.points, Entries(b))

(* Both: no board ever shows more or less than what was accepted for it.   *)
BoardIsExact == CumulativeIsSum /\ BestIsOptimum

(* One idempotency key adds to a total once for as long as its marker is   *)
(* kept, which is from the beginning of the transaction that added, not    *)
(* from its commit; and one client_run_id adds once for ever.              *)
CreditedOnce ==
    \A e, f \in ledger :
        e # f /\ e.kind = f.kind /\ EntryId(e) = EntryId(f)
              /\ Always(e.mode, "cumulative") =>
            e.kind = "raw" /\ (e.at > f.mark + Retention \/ f.at > e.mark + Retention)

(* A marker is committed with the increment it stands for or not at all:   *)
(* a failed write never uses up a key.                                     *)
MarkerHasCredit ==
    \A k \in DOMAIN markers :
        \E e \in ledger : e.kind = "raw" /\ EntryId(e) = k /\ e.mark = markers[k]

(* A run is validated exactly when its canonical score reached the board.  *)
RunHasCredit ==
    /\ \A k \in DOMAIN runs : runs[k].status = "validated" =>
          \E e \in ledger : /\ e.kind = "run" /\ EntryId(e) = k
                            /\ e.points = runs[k].score /\ e.tier = runs[k].tier
    /\ \A e \in ledger : e.kind = "run" =>
          /\ EntryId(e) \in DOMAIN runs
          /\ runs[EntryId(e)] = Validated(e.tier, e.points)

(* What was credited was credited once and is on record, also when         *)
(* handlers overlap, answers are lost and keys are pruned.                 *)
CreditIsRecordedOnce == CreditedOnce /\ MarkerHasCredit /\ RunHasCredit

(* The run a row names is a validated run of the same player and mode, the *)
(* tier shown is the one that run achieved, and an unlinked row shows none.*)
RowNamesItsRun ==
    \A b \in DOMAIN scores :
        LET row == scores[b]
            k == <<b[1], b[2], row.run>>
        IN IF row.run = NoRun THEN row.tier = 0
           ELSE /\ k \in DOMAIN runs
                /\ runs[k].status = "validated" /\ runs[k].tier = row.tier
                /\ Always(b[2], "best") => runs[k].score = row.score

(* A row shows the run and the tier of one score accepted for its bucket.  *)
ShownBy(row, e) ==
    /\ row.tier = e.tier
    /\ row.run = IF e.kind = "run" THEN e.key ELSE NoRun

RowShowsAnEntry == \A b \in DOMAIN scores : \E e \in Entries(b) : ShownBy(scores[b], e)

(* Whatever the operator does to a mode under requests in flight, a score  *)
(* was admitted by one configuration the mode really had, in all of it:    *)
(* the kind of submission, the tier, the ceiling, the claimed account and  *)
(* whether it counts as an increment under a marker.                       *)
Admits(c, e) ==
    /\ e.kind = "raw" <=> c.tier = 0
    /\ e.tier = c.tier
    /\ e.points <= c.ceiling
    /\ c.claimedOnly => e.user \notin guests
    /\ e.kind = "raw" => (c.strategy = "cumulative" <=> e.mark # Absent)

AdmittedByOne == \A e \in ledger : \E c \in past[e.mode] : Admits(c, e)

(* A row says what it stands for, and stands on no board whose             *)
(* configurations have all excluded it.                                    *)
BoardShowsWhatCounts == RowNamesItsRun /\ RowShowsAnEntry /\ AdmittedByOne

(* An answer is true: a standing is given only to a request whose score or *)
(* whose key is on the board, a rejection only for a run rejected on the   *)
(* record, and the "should not happen" answers of the code never happen.   *)
AnswersAreTrue ==
    \A r \in Reqs : req[r].pc = "done" =>
        LET s == req[r].sub
            a == req[r].answer
        IN /\ a # "missing"
           /\ a = "standing" =>
                \E e \in ledger : /\ e.kind = s.kind /\ EntryId(e) = RunId(s)
                                  /\ Always(s.mode, "best") /\ s.kind = "raw" =>
                                        e.points = s.body.claim
           /\ a = "rejected" =>
                RunId(s) \in DOMAIN runs /\ runs[RunId(s)].status = "rejected"

=============================================================================
