---------------------------- MODULE ScoresProofs ----------------------------
(***************************************************************************)
(* Theorems about Scores, for any number of players, modes, keys and       *)
(* handlers in flight, whatever the operator does to a mode meanwhile.     *)
(*                                                                         *)
(* Section 1 has type correctness, with what a handler knows about the     *)
(* mode it has read.  Section 2 shows that what is credited is credited    *)
(* once, section 3 that a row says what it stands for, section 4 what the  *)
(* library's sums are, section 5 that a best board shows the optimum and a *)
(* cumulative one the sum, section 6 that the answers are true.            *)
(***************************************************************************)
EXTENDS Scores, FiniteSetTheorems, TLAPS

-----------------------------------------------------------------------------
(* 1. Type correctness.                                                    *)

LEMMA ConfigFacts ==
    /\ \A c \in Configs : c \in Config /\ c.ceiling <= BigintMax
    /\ \A c \in Configs : /\ c.sort \in {"ASC", "DESC"}
                          /\ c.strategy \in {"best", "cumulative"}
                          /\ c.tier \in 0..3 /\ c.ceiling \in Nat /\ c.claimedOnly \in BOOLEAN
BY ScoresAssumption DEF Config

(* What a submission carries.                                              *)
LEMMA SubmissionFacts ==
    ASSUME NEW s \in Submissions
    PROVE  /\ s.kind \in {"raw", "run"} /\ s.user \in Users /\ s.mode \in Modes
           /\ s.key \in Keys \cup {NoKey}
           /\ s.kind = "raw" => s.body.claim \in 0..BigintMax
           /\ s.kind = "run" => s.key \in Keys /\ s.body \in RunBody
BY ScoresAssumption DEF Submissions, RawBodies

(* A run is validated at the tier the mode requires, with a score that is  *)
(* within the ceiling and fits its column.                                 *)
LEMMA ValidateFacts ==
    ASSUME NEW body \in RunBody, NEW c \in Configs
    PROVE  /\ Validate(body, c) \in RunRow
           /\ Validate(body, c).status = "validated" =>
                /\ Validate(body, c).score \in 0..BigintMax
                /\ Validate(body, c).score <= c.ceiling
                /\ c.tier >= 1 => Validate(body, c).tier = c.tier
                /\ Validate(body, c) = Validated(Validate(body, c).tier, Validate(body, c).score)
<1>1. c.tier \in 0..3 /\ c.ceiling \in Nat /\ c.ceiling <= BigintMax /\ BigintMax \in Nat
  BY ConfigFacts, ScoresAssumption
<1>2. body.claim \in Nat \cup {Absent} /\ body.replay \in Nat \cup {Absent} /\ Absent = -1
  BY DEF RunBody, Absent
<1>3. CASE c.tier <= 1
  BY <1>1, <1>2, <1>3 DEF Validate, Validated, Rejected, RunRow
<1>4. CASE c.tier = 2
  BY <1>1, <1>2, <1>4 DEF Validate, Validated, Rejected, RunRow
<1>5. CASE c.tier = 3
  BY <1>1, <1>2, <1>5 DEF Validate, Validated, Rejected, RunRow
<1> QED BY <1>1, <1>3, <1>4, <1>5

(* The three buckets a submission touches.                                 *)
LEMMA BucketFacts ==
    ASSUME NEW u \in Users, NEW m \in Modes, NEW d \in Nat
    PROVE  /\ BucketsOf(u, m, d) \subseteq Buckets
           /\ \A b \in Buckets :
                 b \in BucketsOf(u, m, d)
                   <=> b[1] = u /\ b[2] = m /\ PeriodStart(b[3], d) = b[4]
           /\ <<u, m, "alltime", 0>> \in BucketsOf(u, m, d)
<1>1. \A p \in Periods : PeriodStart(p, d) \in Int
  BY ScoresAssumption DEF Periods, PeriodStart
<1>2. PeriodStart("alltime", d) = 0 /\ "alltime" \in Periods
  BY DEF PeriodStart, Periods
<1> QED BY <1>1, <1>2 DEF BucketsOf, Buckets

(* A row the upsert leaves fits its column.                                *)
LEMMA NewRowType ==
    ASSUME TypeOK, NEW b, NEW c \in Configs, NEW pts \in 0..BigintMax,
           NEW run \in Keys \cup {NoRun}, NEW tier \in 0..3,
           c.strategy = "cumulative" /\ b \in DOMAIN scores =>
               scores[b].score + pts <= BigintMax
    PROVE  NewRow(b, c, pts, run, tier) \in Row
<1> DEFINE row == [score |-> pts, run |-> run, tier |-> tier]
<1>1. row \in Row
  BY DEF Row
<1>2. ASSUME b \in DOMAIN scores, c.strategy = "cumulative"
      PROVE  [row EXCEPT !.score = scores[b].score + pts] \in Row
  <2>1. scores[b].score \in 0..BigintMax
    BY <1>2 DEF TypeOK, Row
  <2> QED BY <1>2, <2>1, ScoresAssumption DEF Row
<1>3. b \in DOMAIN scores => scores[b] \in Row
  BY DEF TypeOK
<1> QED BY <1>1, <1>2, <1>3 DEF NewRow

(* What a handler knows: the claims it received are true of accounts that  *)
(* are not guests, and the mode it read has been one of its modes, under   *)
(* which the submission was not refused.                                   *)
Sound(q, U, G, P) ==
    /\ q.pc = "received" => (~q.guest => q.sub.user \in U \ G)
    /\ q.pc \in {"write", "lookup", "insert"} =>
         /\ q.cfg \in P[q.sub.mode]
         /\ q.cfg.claimedOnly => q.sub.user \notin G
    /\ q.pc = "write" =>
         /\ q.sub.kind = "raw" /\ q.cfg.tier = 0 /\ q.sub.body.claim <= q.cfg.ceiling
         /\ q.cfg.strategy = "cumulative" => q.sub.key \in Keys
    /\ q.pc \in {"lookup", "insert"} => q.sub.kind = "run" /\ q.cfg.tier >= 1

HandlersSound ==
    /\ \A m \in Modes : modes[m] = NoConfig \/ modes[m] \in past[m]
    /\ \A r \in Reqs : Sound(req[r], users, guests, past)

TypeInv == TypeOK /\ HandlersSound

LEMMA InitType == Init => TypeInv
BY ScoresAssumption, FS_EmptySet
   DEF Init, TypeInv, TypeOK, HandlersSound, Sound, Idle, Request, HistoryStands, HasHistory

(* The fields of a request in each phase.                                  *)
LEMMA RequestFields ==
    ASSUME NEW q \in Request
    PROVE  /\ q.pc \in {"idle", "received", "write", "lookup", "insert", "fetch", "done"}
           /\ q.pc # "idle" => q.sub \in Submissions
           /\ q.pc = "received" => q.guest \in BOOLEAN /\ q.now \in Nat
           /\ q.pc \in {"write", "lookup", "insert"} => q.cfg \in Configs /\ q.now \in Nat
           /\ q.pc = "write" => q.began \in Nat
           /\ q.pc = "lookup" =>
                /\ [q EXCEPT !.pc = "insert"] \in Request
                /\ [q EXCEPT !.pc = "insert"].pc = "insert"
                /\ [q EXCEPT !.pc = "insert"].sub = q.sub
                /\ [q EXCEPT !.pc = "insert"].cfg = q.cfg
<1>1. q = Idle \/ q \in Request \ {Idle}
  OBVIOUS
<1>2. CASE q = Idle
  BY <1>2 DEF Idle
<1>3. CASE q.pc = "lookup" /\ q # Idle
  <2>1. q \in [pc : {"lookup", "insert"}, sub : Submissions, cfg : Configs, now : Nat]
    BY <1>3 DEF Request
  <2> QED BY <1>3, <2>1 DEF Request
<1>4. CASE q.pc # "lookup" /\ q # Idle
  BY <1>4 DEF Request
<1> QED BY <1>2, <1>3, <1>4

(* A handler moves on, and the accounts and modes stay.                    *)
LEMMA HandlersStep ==
    ASSUME TypeInv, NEW r \in Reqs, NEW q \in Request, req' = [req EXCEPT ![r] = q],
           Sound(q, users, guests, past), UNCHANGED <<modes, users, guests, past>>
    PROVE  HandlersSound' /\ req' \in [Reqs -> Request]
BY DEF TypeInv, TypeOK, HandlersSound

(* It needs no knowledge to refuse, to answer or to read the board.        *)
LEMMA EndPhases ==
    /\ Idle \in Request /\ Sound(Idle, users, guests, past)
    /\ \A s \in Submissions :
          LET q == [pc |-> "fetch", sub |-> s]
          IN q \in Request /\ Sound(q, users, guests, past)
    /\ \A s \in Submissions, a \in Answers :
          LET q == [pc |-> "done", sub |-> s, answer |-> a]
          IN q \in Request /\ Sound(q, users, guests, past)
BY DEF Request, Sound, Idle

LEMMA HandlerEnds ==
    ASSUME TypeInv, NEW r \in Reqs, req[r].pc # "idle",
           \/ Refuse(r) \/ Committed(r)
           \/ \E a \in Answers : Answer(r, a)
           \/ \E id : Replay(r, id),
           UNCHANGED <<modes, users, guests, past>>
    PROVE  HandlersSound' /\ req' \in [Reqs -> Request]
<1>1. req[r].sub \in Submissions
  BY RequestFields DEF TypeInv, TypeOK
<1>2. PICK q \in Request : req' = [req EXCEPT ![r] = q] /\ Sound(q, users, guests, past)
  <2>1. CASE Refuse(r)
    BY <2>1, EndPhases DEF Refuse
  <2>2. CASE req' = [req EXCEPT ![r] = [pc |-> "fetch", sub |-> req[r].sub]]
    BY <1>1, <2>2, EndPhases
  <2>3. ASSUME NEW a \in Answers,
               req' = [req EXCEPT ![r] = [pc |-> "done", sub |-> req[r].sub, answer |-> a]]
        PROVE  \E q \in Request :
                  req' = [req EXCEPT ![r] = q] /\ Sound(q, users, guests, past)
    BY <1>1, <2>3, EndPhases
  <2> QED BY <2>1, <2>2, <2>3 DEF Committed, Replay, Answer, Answers
<1> QED BY <1>2, HandlersStep

(* The marker a raw score leaves, and the place of an entry among those of *)
(* its key.                                                                *)
Marks == Nat \cup {Absent}

LEMMA MarkFacts ==
    ASSUME NEW c \in Configs, NEW began \in Nat
    PROVE  /\ Mark(c, began) \in Marks
           /\ c.strategy = "cumulative" <=> Mark(c, began) # Absent
           /\ c.strategy = "cumulative" => Mark(c, began) = began
BY DEF Mark, Marks, Absent

LEMMA AbsentMark == Absent \in Marks
BY DEF Marks

LEMMA NthFacts ==
    ASSUME TypeOK, NEW s, NEW mark
    PROVE  Nth(s, mark) \in Nat
<1> DEFINE before == {e \in ledger : EntryId(e) = RunId(s)}
<1>1. IsFiniteSet(before)
  BY FS_Subset DEF TypeOK
<1>2. Cardinality(before) \in Nat
  BY <1>1, FS_CardinalityType
<1> QED BY <1>2 DEF Nth

(* What one write leaves: rows in their columns, for one more player.      *)
LEMMA WriteType ==
    ASSUME TypeOK, NEW s \in Submissions, NEW c \in Configs, NEW now \in Nat,
           NEW pts \in 0..BigintMax, NEW run \in Keys \cup {NoRun}, NEW tier \in 0..3,
           NEW mark \in Marks,
           ~Overflows(s, c, now, pts), ApplyScoreWrite(s, c, now, pts, run, tier, mark)
    PROVE  /\ DOMAIN scores' = DOMAIN scores \cup BucketsOf(s.user, s.mode, now)
           /\ DOMAIN scores' \subseteq Buckets
           /\ \A b \in DOMAIN scores' : scores'[b] \in Row
           /\ \A b \in DOMAIN scores' : b \in DOMAIN scores \/ b[1] = s.user
           /\ ledger' \subseteq Entry /\ IsFiniteSet(ledger')
<1> DEFINE touched == BucketsOf(s.user, s.mode, now)
<1>1. /\ s.user \in Users /\ s.mode \in Modes /\ s.key \in Keys \cup {NoKey}
      /\ s.kind \in {"raw", "run"}
  BY SubmissionFacts
<1>2. touched \subseteq Buckets /\ \A b \in touched : b[1] = s.user
  <2>1. \A u \in Users, m \in Modes : BucketsOf(u, m, now) \subseteq Buckets
    BY BucketFacts
  <2>2. touched \subseteq Buckets
    BY <1>1, <2>1
  <2>3. \A b \in touched : b[1] = s.user
    BY DEF BucketsOf
  <2> QED BY <2>2, <2>3
<1>3. scores' = [b \in DOMAIN scores \cup touched |->
                   IF b \in touched THEN NewRow(b, c, pts, run, tier) ELSE scores[b]]
  BY DEF ApplyScoreWrite
<1>4. \A b \in touched : NewRow(b, c, pts, run, tier) \in Row
  <2> SUFFICES ASSUME NEW b \in touched PROVE NewRow(b, c, pts, run, tier) \in Row
    OBVIOUS
  <2>1. c.strategy = "cumulative" /\ b \in DOMAIN scores => scores[b].score + pts <= BigintMax
    <3> SUFFICES ASSUME c.strategy = "cumulative", b \in DOMAIN scores
                 PROVE  scores[b].score + pts <= BigintMax
      OBVIOUS
    <3>1. scores[b].score \in Int /\ BigintMax \in Int
      BY ScoresAssumption DEF TypeOK, Row
    <3> QED BY <3>1 DEF Overflows
  <2> QED BY <2>1, NewRowType
<1>5. [kind |-> s.kind, user |-> s.user, mode |-> s.mode, key |-> s.key, points |-> pts,
       tier |-> tier, now |-> now, at |-> day, mark |-> mark, nth |-> Nth(s, mark)] \in Entry
  <2>1. Nth(s, mark) \in Nat
    BY NthFacts
  <2> QED BY <1>1, <2>1, ScoresAssumption DEF Entry, TypeOK, Marks
<1> HIDE DEF touched
<1>6. /\ DOMAIN scores' = DOMAIN scores \cup touched
      /\ \A b \in DOMAIN scores' : scores'[b] \in Row
  BY <1>3, <1>4 DEF TypeOK
<1>7. DOMAIN scores' \subseteq Buckets
      /\ \A b \in DOMAIN scores' : b \in DOMAIN scores \/ b[1] = s.user
  BY <1>2, <1>6 DEF TypeOK
<1>8. ledger' \subseteq Entry /\ IsFiniteSet(ledger')
  BY <1>5, FS_AddElement DEF TypeOK, ApplyScoreWrite
<1> QED BY <1>6, <1>7, <1>8 DEF touched

(* The parts of TypeOK that are not about handlers.                        *)
PlayersType ==
    /\ day \in Nat
    /\ modes \in [Modes -> Configs \cup {NoConfig}]
    /\ users \subseteq Users /\ guests \subseteq users /\ pruning \subseteq Users
    /\ past \in [Modes -> SUBSET Configs]

RecordsType ==
    /\ DOMAIN scores \subseteq Buckets /\ \A b \in DOMAIN scores : scores[b] \in Row
    /\ DOMAIN runs \subseteq RunIds /\ \A k \in DOMAIN runs : runs[k] \in RunRow
    /\ DOMAIN markers \subseteq RunIds /\ \A k \in DOMAIN markers : markers[k] \in Nat
    /\ ledger \subseteq Entry /\ IsFiniteSet(ledger)

LEMMA TypeParts ==
    TypeOK <=> PlayersType /\ RecordsType /\ HistoryStands /\ req \in [Reqs -> Request]
BY DEF TypeOK, PlayersType, RecordsType

LEMMA TypePartsNext ==
    ASSUME PlayersType', RecordsType', HistoryStands', HandlersSound', req' \in [Reqs -> Request]
    PROVE  TypeInv'
BY DEF TypeInv, TypeOK, PlayersType, RecordsType

(* Nothing but the handlers moves.                                         *)
LEMMA TablesStand ==
    ASSUME TypeInv, UNCHANGED tables, HandlersSound', req' \in [Reqs -> Request]
    PROVE  TypeInv'
BY DEF TypeInv, TypeOK, tables, HistoryStands, HasHistory

LEMMA NextType == TypeInv /\ [Next]_vars => TypeInv'
<1> SUFFICES ASSUME TypeInv, [Next]_vars PROVE TypeInv'
  OBVIOUS
<1>0. /\ PlayersType /\ RecordsType /\ HistoryStands /\ HandlersSound
      /\ req \in [Reqs -> Request]
      /\ \A r \in Reqs : req[r] \in Request /\ Sound(req[r], users, guests, past)
      /\ \A r \in Reqs : req[r].pc # "idle" => req[r].sub \in Submissions
  BY TypeParts, RequestFields DEF TypeInv, HandlersSound
<1>1. ASSUME UNCHANGED vars PROVE TypeInv'
  BY <1>0, <1>1 DEF vars, tables, TypeInv, TypeOK, HandlersSound, HistoryStands, HasHistory
<1>2. ASSUME NEW m \in Modes, NEW c \in Configs, CreateGameMode(m, c) PROVE TypeInv'
  <2>1. /\ modes' = [modes EXCEPT ![m] = c] /\ past' = [past EXCEPT ![m] = @ \cup {c}]
        /\ UNCHANGED <<day, users, guests, scores, runs, markers, req, pruning, ledger>>
    BY <1>2 DEF CreateGameMode
  <2>2. PlayersType' /\ RecordsType' /\ HistoryStands'
    BY <1>0, <2>1 DEF PlayersType, RecordsType, HistoryStands, HasHistory
  <2>3. \A n \in Modes : past[n] \subseteq past'[n]
    BY <1>0, <2>1 DEF PlayersType
  <2>4. \A r \in Reqs : req[r].pc # "idle" => req[r].sub.mode \in Modes
    BY <1>0, SubmissionFacts
  <2>5. \A r \in Reqs : Sound(req'[r], users', guests', past')
    BY <1>0, <2>1, <2>3, <2>4 DEF Sound
  <2>6. \A n \in Modes : modes'[n] = NoConfig \/ modes'[n] \in past'[n]
    BY <1>0, <2>1 DEF PlayersType, HandlersSound
  <2> QED BY <1>0, <2>1, <2>2, <2>5, <2>6, TypePartsNext DEF HandlersSound
<1>3. ASSUME NEW u \in Users, ClaimAccount(u) PROVE TypeInv'
  <2>1. /\ guests' = guests \ {u}
        /\ UNCHANGED <<day, modes, users, scores, runs, markers, req, pruning, past, ledger>>
    BY <1>3 DEF ClaimAccount
  <2>2. PlayersType' /\ RecordsType' /\ HistoryStands'
    BY <1>0, <2>1 DEF PlayersType, RecordsType, HistoryStands, HasHistory
  <2>3. \A r \in Reqs : Sound(req'[r], users', guests', past')
    BY <1>0, <2>1 DEF Sound
  <2> QED BY <1>0, <2>1, <2>2, <2>3, TypePartsNext DEF HandlersSound
<1>4. ASSUME NEW r \in Reqs, NEW s \in Submissions, NEW g \in BOOLEAN, Receive(r, s, g)
      PROVE  TypeInv'
  <2> DEFINE q == [pc |-> "received", sub |-> s, guest |-> g, now |-> day]
  <2>1. /\ req' = [req EXCEPT ![r] = q] /\ UNCHANGED tables
        /\ (s.user \in guests \/ s.user \notin users) => g
    BY <1>4 DEF Receive
  <2>2. q \in Request /\ Sound(q, users, guests, past)
    BY <1>0, <2>1 DEF Request, Sound, PlayersType
  <2> QED BY <2>1, <2>2, HandlersStep, TablesStand DEF tables
<1>5. ASSUME NEW r \in Reqs, ReadMode(r) PROVE TypeInv'
  <2> DEFINE s == req[r].sub
             c == modes[s.mode]
             q == IF s.kind = "raw"
                    THEN [pc |-> "write", sub |-> s, cfg |-> c, now |-> req[r].now,
                          began |-> day]
                    ELSE [pc |-> "lookup", sub |-> s, cfg |-> c, now |-> req[r].now]
  <2>1. req[r].pc = "received" /\ UNCHANGED tables
    BY <1>5 DEF ReadMode
  <2>2. CASE Refuse(r)
    BY <2>1, <2>2, HandlerEnds, TablesStand DEF tables
  <2>3. CASE ~Refused(s, req[r].guest, c) /\ req' = [req EXCEPT ![r] = q]
    <3>1. s \in Submissions /\ s.mode \in Modes /\ req[r].guest \in BOOLEAN /\ req[r].now \in Nat
      BY <1>0, <2>1, RequestFields, SubmissionFacts
    <3>2. c \in past[s.mode] /\ c \in Configs
      BY <1>0, <2>3, <3>1 DEF HandlersSound, PlayersType, Refused
    <3>3. q \in Request
      BY <1>0, <3>1, <3>2 DEF Request, PlayersType
    <3>4. /\ s.kind \in {"raw", "run"} /\ s.key \in Keys \cup {NoKey}
          /\ c.tier \in 0..3
      BY <3>1, <3>2, SubmissionFacts, ConfigFacts
    <3>5. c.claimedOnly => s.user \notin guests
      BY <1>0, <2>1, <2>3 DEF Refused, Sound
    <3>6. Sound(q, users, guests, past)
      <4>1. q.sub = s /\ q.cfg = c /\ q.pc = IF s.kind = "raw" THEN "write" ELSE "lookup"
        OBVIOUS
      <4>2. /\ s.kind = "raw" => c.tier = 0 /\ s.body.claim <= c.ceiling
            /\ s.kind = "run" => c.tier >= 1
            /\ c.strategy = "cumulative" => s.key \in Keys
        <5>1. s.kind = "raw" => s.body.claim \in Int /\ c.ceiling \in Int
          BY <3>1, <3>2, SubmissionFacts, ConfigFacts, ScoresAssumption
        <5> QED BY <2>3, <3>4, <5>1 DEF Refused
      <4> HIDE DEF q, s, c
      <4> QED BY <3>2, <3>4, <3>5, <4>1, <4>2 DEF Sound
    <3> QED BY <2>1, <2>3, <3>3, <3>6, HandlersStep, TablesStand DEF tables
  <2> QED BY <1>5, <2>2, <2>3 DEF ReadMode
<1>6. ASSUME NEW r \in Reqs, LookupRun(r) PROVE TypeInv'
  <2>1. req[r].pc = "lookup" /\ UNCHANGED tables
    BY <1>6 DEF LookupRun
  <2>2. CASE \E id : Replay(r, id)
    BY <2>1, <2>2, HandlerEnds, TablesStand DEF tables
  <2>3. CASE req' = [req EXCEPT ![r].pc = "insert"]
    <3>1. PICK q \in Request : q = [req[r] EXCEPT !.pc = "insert"] /\ q.pc = "insert"
                               /\ q.sub = req[r].sub /\ q.cfg = req[r].cfg
      BY <1>0, <2>1, RequestFields
    <3>2. req' = [req EXCEPT ![r] = q]
      BY <2>3, <3>1
    <3>3. Sound(q, users, guests, past)
      BY <1>0, <2>1, <3>1 DEF Sound
    <3> QED BY <2>1, <3>2, <3>3, HandlersStep, TablesStand DEF tables
  <2> QED BY <1>6, <2>2, <2>3 DEF LookupRun
<1>7. ASSUME NEW r \in Reqs, FetchStanding(r) \/ Lose(r) PROVE TypeInv'
  <2>1. req[r].pc # "idle" /\ UNCHANGED tables
        /\ (Refuse(r) \/ \E a \in Answers : Answer(r, a))
    BY <1>7 DEF FetchStanding, Lose, Answers
  <2> QED BY <2>1, HandlerEnds, TablesStand DEF tables
<1>8. ASSUME NEW r \in Reqs, CommitScore(r) PROVE TypeInv'
  <2> DEFINE s == req[r].sub
             c == req[r].cfg
             now == req[r].now
             id == RunId(s)
             mark == Mark(c, req[r].began)
  <2>1. /\ req[r].pc = "write"
        /\ Refuse(r) \/ Committed(r)
        /\ UNCHANGED <<day, modes, users, guests, runs, pruning, past>>
    BY <1>8 DEF CommitScore
  <2>2. HandlersSound' /\ req' \in [Reqs -> Request]
    BY <1>8, <2>1, HandlerEnds DEF CommitScore
  <2>3. PlayersType'
    BY <1>0, <2>1 DEF PlayersType
  <2>4. CASE UNCHANGED <<scores, markers, ledger>>
    BY <1>0, <2>1, <2>2, <2>3, <2>4, TypePartsNext DEF RecordsType, HistoryStands, HasHistory
  <2>5. CASE /\ s.user \in users
             /\ ApplyScoreWrite(s, c, now, s.body.claim, NoRun, 0, mark)
             /\ ~Overflows(s, c, now, s.body.claim)
             /\ markers' = IF mark = Absent THEN markers
                           ELSE [k \in DOMAIN markers \cup {id} |->
                                   IF k = id THEN mark ELSE markers[k]]
    <3>0. mark \in Marks /\ (c.strategy = "cumulative" <=> mark # Absent)
      <4>1. c \in Configs /\ req[r].began \in Nat
        BY <1>0, <2>1, RequestFields
      <4> HIDE DEF c
      <4> QED BY <4>1, MarkFacts
    <3>1. /\ s \in Submissions /\ c \in Configs /\ now \in Nat /\ s.kind = "raw"
          /\ c.strategy = "cumulative" => s.key \in Keys
      BY <1>0, <1>8, RequestFields DEF CommitScore, Sound
    <3>2. s.body.claim \in 0..BigintMax /\ s.user \in Users /\ s.mode \in Modes
      BY <3>1, SubmissionFacts
    <3>3. /\ DOMAIN scores' \subseteq Buckets
          /\ \A b \in DOMAIN scores' : scores'[b] \in Row
          /\ \A b \in DOMAIN scores' : b \in DOMAIN scores \/ b[1] = s.user
          /\ ledger' \subseteq Entry /\ IsFiniteSet(ledger')
      <4> HIDE DEF s, c, now, mark
      <4>1. 0 \in 0..3 /\ NoRun \in Keys \cup {NoRun} /\ TypeOK
        BY DEF TypeInv
      <4> QED BY <2>5, <3>0, <3>1, <3>2, <4>1, WriteType
    <3>4. /\ DOMAIN markers' \subseteq RunIds
          /\ \A k \in DOMAIN markers' : markers'[k] \in Nat
          /\ \A k \in DOMAIN markers' : k \in DOMAIN markers \/ k[1] = s.user
      <4>1. c.strategy \in {"best", "cumulative"}
        BY <3>1, ConfigFacts
      <4>2. c.strategy = "cumulative" => id \in RunIds /\ id[1] = s.user
        BY <3>1, <3>2 DEF RunId, RunIds
      <4> HIDE DEF id, mark
      <4> QED BY <1>0, <2>5, <3>0, <4>1, <4>2 DEF RecordsType, PlayersType, Marks
    <3>5. RecordsType'
      BY <1>0, <2>1, <3>3, <3>4 DEF RecordsType
    <3>6. HistoryStands'
      BY <1>0, <2>1, <2>5, <3>3, <3>4 DEF HistoryStands, HasHistory
    <3> QED BY <2>2, <2>3, <3>5, <3>6, TypePartsNext
  <2> QED BY <1>8, <2>4, <2>5 DEF CommitScore
<1>9. ASSUME NEW r \in Reqs, CommitRun(r) PROVE TypeInv'
  <2> DEFINE s == req[r].sub
             c == req[r].cfg
             now == req[r].now
             id == RunId(s)
             v == Validate(s.body, c)
             inserted == [k \in DOMAIN runs \cup {id} |-> IF k = id THEN v ELSE runs[k]]
  <2>1. /\ req[r].pc = "insert"
        /\ UNCHANGED <<day, modes, users, guests, markers, pruning, past>>
        /\ Refuse(r) \/ Committed(r) \/ Answer(r, "rejected") \/ Replay(r, id)
    BY <1>9 DEF CommitRun
  <2>2. HandlersSound' /\ req' \in [Reqs -> Request]
    BY <2>1, HandlerEnds DEF Answers
  <2>3. PlayersType'
    BY <1>0, <2>1 DEF PlayersType
  <2>4. CASE UNCHANGED <<scores, runs, ledger>>
    BY <1>0, <2>1, <2>2, <2>3, <2>4, TypePartsNext DEF RecordsType, HistoryStands, HasHistory
  <2>5. /\ s \in Submissions /\ c \in Configs /\ now \in Nat /\ s.kind = "run"
    BY <1>0, <2>1, RequestFields DEF Sound
  <2>6. s.key \in Keys /\ s.body \in RunBody /\ s.user \in Users /\ s.mode \in Modes
    BY <2>5, SubmissionFacts
  <2>7. /\ v \in RunRow
        /\ v.status = "validated" => v.score \in 0..BigintMax /\ v.tier \in 0..3
    BY <2>5, <2>6, ValidateFacts DEF RunRow
  <2>8. id \in RunIds /\ id[1] = s.user
    BY <2>6 DEF RunId, RunIds
  <2>9. ASSUME runs' = inserted
        PROVE  /\ DOMAIN runs' \subseteq RunIds
               /\ \A k \in DOMAIN runs' : runs'[k] \in RunRow
               /\ \A k \in DOMAIN runs' : k \in DOMAIN runs \/ k[1] = s.user
    <3> HIDE DEF id, v
    <3> QED BY <1>0, <2>7, <2>8, <2>9 DEF RecordsType
  <2>10. CASE s.user \in users /\ runs' = inserted /\ UNCHANGED <<scores, ledger>>
    <3>1. RecordsType'
      BY <1>0, <2>1, <2>9, <2>10 DEF RecordsType
    <3>2. HistoryStands'
      BY <1>0, <2>1, <2>9, <2>10 DEF HistoryStands, HasHistory
    <3> QED BY <2>2, <2>3, <3>1, <3>2, TypePartsNext
  <2>11. CASE /\ s.user \in users /\ runs' = inserted /\ v.status = "validated"
              /\ ~Overflows(s, c, now, v.score)
              /\ ApplyScoreWrite(s, c, now, v.score, s.key, v.tier, Absent)
    <3>1. /\ DOMAIN scores' \subseteq Buckets
          /\ \A b \in DOMAIN scores' : scores'[b] \in Row
          /\ \A b \in DOMAIN scores' : b \in DOMAIN scores \/ b[1] = s.user
          /\ ledger' \subseteq Entry /\ IsFiniteSet(ledger')
      <4> HIDE DEF s, c, now, v
      <4>1. s.key \in Keys \cup {NoRun} /\ TypeOK
        BY <2>6 DEF TypeInv
      <4> QED BY <2>5, <2>7, <2>11, <4>1, AbsentMark, WriteType
    <3>2. RecordsType'
      BY <1>0, <2>1, <2>9, <2>11, <3>1 DEF RecordsType
    <3>3. HistoryStands'
      BY <1>0, <2>1, <2>9, <2>11, <3>1 DEF HistoryStands, HasHistory
    <3> QED BY <2>2, <2>3, <3>2, <3>3, TypePartsNext
  <2> QED BY <1>9, <2>4, <2>10, <2>11 DEF CommitRun
<1>10. ASSUME PruneKeys \/ SelectGuests \/ NextDay PROVE TypeInv'
  <2>1. UNCHANGED <<modes, users, guests, scores, runs, req, past, ledger>>
    BY <1>10 DEF PruneKeys, SelectGuests, NextDay
  <2>2. /\ day' \in Nat /\ pruning' \subseteq Users
        /\ DOMAIN markers' \subseteq DOMAIN markers
        /\ \A k \in DOMAIN markers' : markers'[k] = markers[k]
    BY <1>0, <1>10 DEF PruneKeys, SelectGuests, NextDay, PlayersType
  <2>3. PlayersType' /\ RecordsType' /\ HistoryStands'
    BY <1>0, <2>1, <2>2 DEF PlayersType, RecordsType, HistoryStands, HasHistory
  <2>4. HandlersSound' /\ req' \in [Reqs -> Request]
    BY <1>0, <2>1 DEF HandlersSound
  <2> QED BY <2>3, <2>4, TypePartsNext
<1>11. ASSUME DeleteGuests PROVE TypeInv'
  <2> DEFINE doomed == pruning \cap guests
  <2>1. UNCHANGED <<day, modes, scores, runs, req, past, ledger>> /\ pruning' = {}
    BY <1>11 DEF DeleteGuests
  <2>2. CASE UNCHANGED <<users, guests, markers>>
    BY <1>0, <2>1, <2>2, TypePartsNext
    DEF PlayersType, RecordsType, HistoryStands, HasHistory, HandlersSound
  <2>3. CASE /\ \A u \in doomed : ~HasHistory(u)
             /\ users' = users \ doomed
             /\ guests' = guests \ doomed
             /\ markers' = [k \in {j \in DOMAIN markers : j[1] \notin doomed} |-> markers[k]]
    <3>1. PlayersType' /\ RecordsType'
      BY <1>0, <2>1, <2>3 DEF PlayersType, RecordsType
    <3>2. HistoryStands'
      BY <1>0, <2>1, <2>3 DEF HistoryStands, HasHistory
    <3>3. \A r \in Reqs : Sound(req'[r], users', guests', past')
      BY <1>0, <2>1, <2>3 DEF Sound
    <3> QED BY <1>0, <2>1, <3>1, <3>2, <3>3, TypePartsNext DEF HandlersSound
  <2> QED BY <1>11, <2>2, <2>3 DEF DeleteGuests, Restricted
<1> QED BY <1>1, <1>2, <1>3, <1>4, <1>5, <1>6, <1>7, <1>8, <1>9, <1>10, <1>11 DEF Next

(* TypeOK, which ScoresBoards checks: every table keeps its type, and the  *)
(* guest pruner never takes an account from under its history.             *)
THEOREM TypeCorrect == Spec => []TypeOK
<1>1. TypeInv => TypeOK
  BY DEF TypeInv
<1> QED BY <1>1, InitType, NextType, PTL DEF Spec

-----------------------------------------------------------------------------
(* 2. Credit.  Seen from the board, a step either writes once, for a raw   *)
(* score or for a run, or leaves the board alone.                          *)

(* What the ledger gains by a write.                                       *)
NewEntry(s, pts, tier, now, mark) ==
    [kind |-> s.kind, user |-> s.user, mode |-> s.mode, key |-> s.key, points |-> pts,
     tier |-> tier, now |-> now, at |-> day, mark |-> mark, nth |-> Nth(s, mark)]

Write(s, c, now, pts, run, tier, mark) ==
    /\ c \in past[s.mode] /\ Admits(c, NewEntry(s, pts, tier, now, mark))
    /\ run = IF s.kind = "run" THEN s.key ELSE NoRun
    /\ ~Overflows(s, c, now, pts)
    /\ ApplyScoreWrite(s, c, now, pts, run, tier, mark)
    /\ UNCHANGED <<day, guests, past>>

RawWrite(s, c, now, mark) ==
    /\ s.kind = "raw" /\ ~Duplicate(s, c)
    /\ c.strategy = "cumulative" => s.key \in Keys
    /\ Write(s, c, now, s.body.claim, NoRun, 0, mark)
    /\ runs' = runs
    /\ markers' = IF mark = Absent THEN markers
                  ELSE [k \in DOMAIN markers \cup {RunId(s)} |->
                          IF k = RunId(s) THEN mark ELSE markers[k]]

Inserted(id, v) == [k \in DOMAIN runs \cup {id} |-> IF k = id THEN v ELSE runs[k]]

RunWrite(s, c, now, pts, tier) ==
    /\ s.kind = "run" /\ s.key \in Keys /\ RunId(s) \notin DOMAIN runs
    /\ Write(s, c, now, pts, s.key, tier, Absent)
    /\ runs' = Inserted(RunId(s), Validated(tier, pts))
    /\ markers' = markers

(* A marker goes when it is old, or with a player who has no history.      *)
Quiet ==
    /\ UNCHANGED <<scores, ledger>>
    /\ \/ runs' = runs
       \/ \E id \in RunIds \ DOMAIN runs, v \in RunRow :
             v.status = "rejected" /\ runs' = Inserted(id, v)
    /\ \A m \in Modes : past[m] \subseteq past'[m]
    /\ guests' \subseteq guests /\ day <= day'
    /\ \A k \in DOMAIN markers' : k \in DOMAIN markers /\ markers'[k] = markers[k]
    /\ \A k \in DOMAIN markers \ DOMAIN markers' :
          markers[k] + Retention < day \/ ~HasHistory(k[1])

LEMMA Steps ==
    ASSUME TypeInv, [Next]_vars
    PROVE  \/ Quiet
           \/ \E s \in Submissions, c \in Configs, now \in Nat,
                 mark \in Marks : RawWrite(s, c, now, mark)
           \/ \E s \in Submissions, c \in Configs, now \in Nat,
                 pts \in 0..BigintMax, tier \in 0..3 : RunWrite(s, c, now, pts, tier)
<1> DEFINE Raw == \E s \in Submissions, c \in Configs, now \in Nat,
                 mark \in Marks : RawWrite(s, c, now, mark)
           Run == \E s \in Submissions, c \in Configs, now \in Nat,
                     pts \in 0..BigintMax, tier \in 0..3 : RunWrite(s, c, now, pts, tier)
           Goal == Quiet \/ Raw \/ Run
<1>0. /\ day \in Nat /\ past \in [Modes -> SUBSET Configs]
      /\ \A r \in Reqs : req[r] \in Request /\ Sound(req[r], users, guests, past)
  BY DEF TypeInv, TypeOK, HandlersSound
<1>1. ASSUME UNCHANGED <<day, guests, scores, runs, markers, past, ledger>> PROVE Goal
  BY <1>0, <1>1 DEF Quiet
<1>2. ASSUME NEW m \in Modes, NEW c \in Configs, CreateGameMode(m, c) PROVE Goal
  <2>1. Quiet
    BY <1>0, <1>2 DEF CreateGameMode, Quiet
  <2> QED BY <2>1
<1>3. ASSUME (\E u \in Users : ClaimAccount(u)) \/ SelectGuests \/ NextDay PROVE Goal
  <2>1. Quiet
    BY <1>0, <1>3 DEF ClaimAccount, SelectGuests, NextDay, Quiet
  <2> QED BY <2>1
<1>4. ASSUME NEW r \in Reqs, \/ \E s \in Submissions, g \in BOOLEAN : Receive(r, s, g)
                             \/ ReadMode(r) \/ LookupRun(r) \/ FetchStanding(r) \/ Lose(r)
      PROVE  Goal
  BY <1>1, <1>4 DEF Receive, ReadMode, LookupRun, FetchStanding, Lose, tables
<1>5. ASSUME NEW r \in Reqs, CommitScore(r) PROVE Goal
  <2> DEFINE s == req[r].sub
             c == req[r].cfg
             now == req[r].now
             mark == Mark(c, req[r].began)
  <2>1. /\ req[r].pc = "write" /\ UNCHANGED <<day, guests, runs, past>>
    BY <1>5 DEF CommitScore
  <2>2. CASE UNCHANGED <<scores, markers, ledger>>
    BY <1>1, <2>1, <2>2
  <2>3. CASE /\ ~Duplicate(s, c) /\ ~Overflows(s, c, now, s.body.claim)
             /\ ApplyScoreWrite(s, c, now, s.body.claim, NoRun, 0, mark)
             /\ markers' = IF mark = Absent THEN markers
                           ELSE [k \in DOMAIN markers \cup {RunId(s)} |->
                                   IF k = RunId(s) THEN mark ELSE markers[k]]
    <3>1. /\ s \in Submissions /\ c \in Configs /\ now \in Nat
          /\ mark \in Marks /\ (c.strategy = "cumulative" <=> mark # Absent)
      <4>1. /\ s \in Submissions /\ c \in Configs /\ now \in Nat
            /\ req[r].began \in Nat
        BY <1>0, <2>1, RequestFields
      <4> HIDE DEF s, c, now
      <4> QED BY <4>1, MarkFacts
    <3>2. /\ c \in past[s.mode] /\ c.tier = 0 /\ s.kind = "raw"
          /\ s.body.claim <= c.ceiling
          /\ c.claimedOnly => s.user \notin guests
          /\ c.strategy = "cumulative" => s.key \in Keys
      BY <1>0, <2>1 DEF Sound
    <3> HIDE DEF s, c, now, mark
    <3>3. Admits(c, NewEntry(s, s.body.claim, 0, now, mark))
      BY <3>1, <3>2 DEF Admits, NewEntry
    <3>4. Write(s, c, now, s.body.claim, NoRun, 0, mark)
      BY <2>1, <2>3, <3>2, <3>3 DEF Write
    <3>5. RawWrite(s, c, now, mark)
      BY <2>1, <2>3, <3>2, <3>4 DEF RawWrite
    <3> QED BY <3>1, <3>5
  <2> QED BY <1>5, <2>2, <2>3 DEF CommitScore
<1>6. ASSUME NEW r \in Reqs, CommitRun(r) PROVE Goal
  <2> DEFINE s == req[r].sub
             c == req[r].cfg
             now == req[r].now
             id == RunId(s)
             v == Validate(s.body, c)
  <2>1. req[r].pc = "insert" /\ UNCHANGED <<day, guests, markers, past>>
    BY <1>6 DEF CommitRun
  <2>2. CASE UNCHANGED <<scores, runs, ledger>>
    BY <1>1, <2>1, <2>2
  <2>3. /\ s \in Submissions /\ c \in Configs /\ now \in Nat /\ s.kind = "run"
        /\ c \in past[s.mode] /\ c.tier >= 1 /\ (c.claimedOnly => s.user \notin guests)
    BY <1>0, <2>1, RequestFields DEF Sound
  <2>4. s.key \in Keys /\ s.body \in RunBody /\ id \in RunIds
    BY <2>3, SubmissionFacts DEF RunId, RunIds
  <2>5. /\ v \in RunRow
        /\ v.status = "validated" => /\ v.score \in 0..BigintMax /\ v.tier \in 0..3
                                     /\ v.tier = c.tier /\ v.score <= c.ceiling
                                     /\ v = Validated(v.tier, v.score)
    BY <2>3, <2>4, ValidateFacts DEF RunRow
  <2>6. CASE /\ id \notin DOMAIN runs /\ v.status = "rejected"
             /\ runs' = Inserted(id, v) /\ UNCHANGED <<scores, ledger>>
    <3> HIDE DEF id, v
    <3>1. Quiet
      BY <1>0, <2>1, <2>4, <2>5, <2>6 DEF Quiet
    <3> QED BY <3>1
  <2>7. CASE /\ id \notin DOMAIN runs /\ v.status = "validated"
             /\ ~Overflows(s, c, now, v.score)
             /\ runs' = Inserted(id, v)
             /\ ApplyScoreWrite(s, c, now, v.score, s.key, v.tier, Absent)
    <3> HIDE DEF s, c, now, v
    <3>0. c.tier # 0
      BY <2>3, ConfigFacts
    <3>1. Admits(c, NewEntry(s, v.score, v.tier, now, Absent))
      BY <2>3, <2>5, <2>7, <3>0 DEF Admits, NewEntry
    <3>3. Write(s, c, now, v.score, s.key, v.tier, Absent)
      BY <2>1, <2>3, <2>5, <2>7, <3>1 DEF Write
    <3>2. RunWrite(s, c, now, v.score, v.tier)
      BY <2>1, <2>3, <2>4, <2>5, <2>7, <3>3 DEF RunWrite
    <3> QED BY <2>3, <2>5, <2>7, <3>2
  <2> QED BY <1>6, <2>2, <2>6, <2>7 DEF CommitRun, Inserted
<1>7. ASSUME PruneKeys PROVE Goal
  <2>1. \A k \in DOMAIN markers : markers[k] \in Nat
    BY DEF TypeInv, TypeOK
  <2>2. Quiet
    BY <1>0, <1>7, <2>1, ScoresAssumption DEF PruneKeys, Quiet
  <2> QED BY <2>2
<1>8. ASSUME DeleteGuests PROVE Goal
  <2>1. Quiet
    BY <1>0, <1>8 DEF DeleteGuests, Restricted, Quiet
  <2> QED BY <2>1
<1> QED BY <1>1, <1>2, <1>3, <1>4, <1>5, <1>6, <1>7, <1>8 DEF Next, vars, tables

LEMMA NewEntryFacts ==
    ASSUME NEW s, NEW pts, NEW tier, NEW now, NEW mark
    PROVE  LET e == NewEntry(s, pts, tier, now, mark)
           IN /\ e.kind = s.kind /\ e.user = s.user /\ e.mode = s.mode /\ e.key = s.key
              /\ e.points = pts /\ e.tier = tier /\ e.now = now /\ e.at = day
              /\ e.mark = mark /\ e.nth = Nth(s, mark) /\ EntryId(e) = RunId(s)
BY DEF NewEntry, EntryId, RunId

(* CreditIsRecordedOnce is not inductive: what stops a second increment    *)
(* under a key is the marker of the first, so until the retention has      *)
(* passed since the transaction of that increment began, its marker must   *)
(* be there, stamped no earlier; and a player with an increment has a row, *)
(* which keeps the pruner away.                                            *)
LedgerFits ==
    \A e \in ledger : /\ e.at <= day
                      /\ BucketsOf(e.user, e.mode, e.now) \subseteq DOMAIN scores

MarkersKept ==
    \A e \in ledger :
        e.kind = "raw" /\ Always(e.mode, "cumulative") =>
            /\ e.mark \in Nat
            /\ \/ EntryId(e) \in DOMAIN markers /\ markers[EntryId(e)] >= e.mark
               \/ e.mark + Retention < day

(* No entry has the place the next one of its key will take.               *)
Under(id) == {e \in ledger : EntryId(e) = id}
PlacesDiffer == \A e \in ledger : e.nth < Cardinality(Under(EntryId(e)))

CreditInv ==
    /\ CreditedOnce /\ MarkerHasCredit /\ RunHasCredit
    /\ LedgerFits /\ MarkersKept /\ PlacesDiffer

LEMMA InitCredit == Init => CreditInv
BY DEF Init, CreditInv, CreditedOnce, MarkerHasCredit, RunHasCredit, LedgerFits, MarkersKept,
       PlacesDiffer

(* A quiet step makes no credit and takes no marker that is still needed. *)
LEMMA QuietCredit == TypeInv /\ TypeInv' /\ CreditInv /\ Quiet => CreditInv'
<1> SUFFICES ASSUME TypeInv, TypeInv', CreditInv, Quiet PROVE CreditInv'
  OBVIOUS
<1>1. /\ \A m \in Modes : past[m] \subseteq past'[m]
      /\ scores' = scores /\ ledger' = ledger /\ day <= day' /\ day \in Nat /\ day' \in Int
      /\ Retention \in Nat
  BY ScoresAssumption DEF Quiet, TypeInv, TypeOK
<1>2. \A e \in ledger : e \in Entry /\ e.mode \in Modes /\ e.at \in Nat
  BY DEF TypeInv, TypeOK, Entry
<1>3. \A m \in Modes : Always(m, "cumulative")' => Always(m, "cumulative")
  BY <1>1 DEF Always
<1>4. CreditedOnce'
  <2> SUFFICES ASSUME NEW e \in ledger, NEW f \in ledger, e # f, e.kind = f.kind,
                      EntryId(e) = EntryId(f), Always(e.mode, "cumulative")
               PROVE  /\ e.kind = "raw"
                      /\ e.at > f.mark + Retention \/ f.at > e.mark + Retention
    BY <1>1, <1>2, <1>3 DEF CreditedOnce, EntryId
  <2> QED BY DEF CreditInv, CreditedOnce
<1>5. MarkerHasCredit'
  BY <1>1 DEF CreditInv, MarkerHasCredit, EntryId, Quiet
<1>6. RunHasCredit'
  <2>1. CASE runs' = runs
    BY <1>1, <2>1 DEF CreditInv, RunHasCredit, EntryId
  <2>2. ASSUME NEW id \in RunIds \ DOMAIN runs, NEW v, v.status = "rejected",
               runs' = Inserted(id, v)
        PROVE  RunHasCredit'
    <3>1. /\ DOMAIN runs' = DOMAIN runs \cup {id} /\ runs'[id].status # "validated"
          /\ \A k \in DOMAIN runs : k # id /\ runs'[k] = runs[k]
      BY <2>2 DEF Inserted
    <3> QED BY <1>1, <3>1 DEF CreditInv, RunHasCredit, EntryId
  <2> QED BY <2>1, <2>2 DEF Quiet
<1>7. LedgerFits'
  BY <1>1, <1>2 DEF CreditInv, LedgerFits
<1>8. MarkersKept'
  <2> SUFFICES ASSUME NEW e \in ledger, e.kind = "raw", Always(e.mode, "cumulative")'
               PROVE  /\ e.mark \in Nat
                      /\ \/ EntryId(e) \in DOMAIN markers' /\ markers'[EntryId(e)] >= e.mark
                         \/ e.mark + Retention < day'
    BY <1>1 DEF MarkersKept, EntryId
  <2> DEFINE k == EntryId(e)
  <2>1. /\ e.mark \in Nat
        /\ \/ k \in DOMAIN markers /\ markers[k] >= e.mark
           \/ e.mark + Retention < day
    BY <1>2, <1>3 DEF CreditInv, MarkersKept
  <2>2. CASE e.mark + Retention < day
    BY <1>1, <2>1, <2>2
  <2>3. CASE k \in DOMAIN markers /\ markers[k] >= e.mark /\ k \in DOMAIN markers'
    BY <2>1, <2>3 DEF Quiet
  <2>4. CASE k \in DOMAIN markers /\ markers[k] >= e.mark /\ k \notin DOMAIN markers'
    <3>1. markers[k] \in Nat
      BY <2>4 DEF TypeInv, TypeOK
    <3>2. HasHistory(k[1])
      <4>1. <<e.user, e.mode, "alltime", 0>> \in DOMAIN scores
        BY <1>2, BucketFacts DEF CreditInv, LedgerFits, Entry
      <4> QED BY <4>1 DEF HasHistory, EntryId
    <3>3. markers[k] + Retention < day
      BY <2>4, <3>2 DEF Quiet
    <3> QED BY <1>1, <2>1, <2>4, <3>1, <3>3
  <2> QED BY <2>1, <2>2, <2>3, <2>4
<1>9. PlacesDiffer'
  BY <1>1 DEF CreditInv, PlacesDiffer, Under, EntryId
<1> QED BY <1>4, <1>5, <1>6, <1>7, <1>8, <1>9 DEF CreditInv

(* The board after a write: the rows touched, and the others as before.    *)
LEMMA WriteEffect ==
    ASSUME NEW s, NEW c, NEW now, NEW pts, NEW run, NEW tier, NEW mark,
           Write(s, c, now, pts, run, tier, mark)
    PROVE  LET touched == BucketsOf(s.user, s.mode, now)
           IN /\ ledger' = ledger \cup {NewEntry(s, pts, tier, now, mark)}
              /\ DOMAIN scores' = DOMAIN scores \cup touched
              /\ \A b \in DOMAIN scores \ touched : scores'[b] = scores[b]
              /\ \A b \in touched : scores'[b] = NewRow(b, c, pts, run, tier)
              /\ UNCHANGED <<day, guests, past>>
BY DEF Write, ApplyScoreWrite, NewEntry

(* A marked entry is a new one, and it leaves a place to the next.         *)
LEMMA NextPlace ==
    ASSUME TypeInv, PlacesDiffer, NEW s, NEW pts, NEW tier, NEW now, NEW mark,
           ledger' = ledger \cup {NewEntry(s, pts, tier, now, mark)}
    PROVE  /\ PlacesDiffer'
           /\ mark # Absent => NewEntry(s, pts, tier, now, mark) \notin ledger
<1> DEFINE e == NewEntry(s, pts, tier, now, mark)
           id == RunId(s)
<1>1. EntryId(e) = id /\ e.nth = Nth(s, mark) /\ e.nth \in Nat
  BY NewEntryFacts, NthFacts DEF TypeInv
<1>2. Nth(s, mark) = IF mark = Absent THEN 0 ELSE Cardinality(Under(id))
  BY DEF Nth, Under
<1>3. \A k : /\ IsFiniteSet(Under(k)) /\ Cardinality(Under(k)) \in Nat
             /\ Cardinality(Under(k) \cup {e}) \in Nat
             /\ Cardinality(Under(k) \cup {e}) >= Cardinality(Under(k))
             /\ e \notin Under(k) => Cardinality(Under(k) \cup {e}) = Cardinality(Under(k)) + 1
  <2> SUFFICES ASSUME NEW k
               PROVE  /\ IsFiniteSet(Under(k)) /\ Cardinality(Under(k)) \in Nat
                      /\ Cardinality(Under(k) \cup {e}) \in Nat
                      /\ Cardinality(Under(k) \cup {e}) >= Cardinality(Under(k))
                      /\ e \notin Under(k) =>
                           Cardinality(Under(k) \cup {e}) = Cardinality(Under(k)) + 1
    OBVIOUS
  <2> HIDE DEF e
  <2>1. IsFiniteSet(Under(k))
    <3>1. Under(k) \subseteq ledger /\ IsFiniteSet(ledger)
      BY DEF Under, TypeInv, TypeOK
    <3> QED BY <3>1, FS_Subset
  <2>2. Cardinality(Under(k)) \in Nat
    BY <2>1, FS_CardinalityType
  <2>3. Cardinality(Under(k) \cup {e}) =
          IF e \in Under(k) THEN Cardinality(Under(k)) ELSE Cardinality(Under(k)) + 1
    BY <2>1, FS_AddElement
  <2> QED BY <2>1, <2>2, <2>3
<1>4. mark # Absent => e \notin ledger
  <2> SUFFICES ASSUME mark # Absent, e \in ledger PROVE FALSE
    OBVIOUS
  <2>1. e.nth < Cardinality(Under(id))
    BY <1>1 DEF PlacesDiffer
  <2> HIDE DEF e, id
  <2> QED BY <1>1, <1>2, <1>3, <2>1
<1>5. \A k : Under(k)' = IF k = id THEN Under(k) \cup {e} ELSE Under(k)
  <2> HIDE DEF e, id
  <2>1. ledger' = ledger \cup {e}
    BY DEF e
  <2> QED BY <1>1, <2>1 DEF Under, EntryId
<1>6. ASSUME NEW f \in ledger' PROVE f.nth < Cardinality(Under(EntryId(f))')
  <2>1. \A g \in ledger : g.nth \in Nat
    BY DEF TypeInv, TypeOK, Entry
  <2>2. ledger' = ledger \cup {e}
    OBVIOUS
  <2> HIDE DEF e, id
  <2>3. CASE f \in ledger
    <3>1. f.nth < Cardinality(Under(EntryId(f)))
      BY <2>3 DEF PlacesDiffer
    <3> QED BY <1>3, <1>5, <2>1, <2>3, <3>1
  <2>4. CASE f = e
    <3>1. Under(EntryId(f))' = Under(id) \cup {e}
      BY <1>1, <1>5, <2>4
    <3>2. Cardinality(Under(id) \cup {e}) # 0
      <4>1. IsFiniteSet(Under(id) \cup {e})
        BY <1>3, FS_AddElement
      <4> QED BY <4>1, FS_EmptySet
    <3>3. mark # Absent => e \notin Under(id)
      BY <1>4 DEF Under
    <3>4. Cardinality(Under(id)) \in Nat /\ Cardinality(Under(id) \cup {e}) \in Nat
      BY <1>3
    <3>5. e \notin Under(id) => Cardinality(Under(id) \cup {e}) = Cardinality(Under(id)) + 1
      BY <1>3
    <3>6. e.nth < Cardinality(Under(id) \cup {e})
      BY <1>1, <1>2, <3>2, <3>3, <3>4, <3>5
    <3> QED BY <2>4, <3>1, <3>6
  <2> QED BY <2>2, <2>3, <2>4
<1>7. PlacesDiffer'
  BY <1>6 DEF PlacesDiffer, EntryId
<1> QED BY <1>4, <1>7

(* The entries of a bucket before and after a write.                       *)
LEMMA EntriesAfter ==
    ASSUME TypeInv, LedgerFits, NEW s \in Submissions, NEW c \in Configs, NEW now \in Nat,
           NEW pts \in 0..BigintMax, NEW run \in Keys \cup {NoRun}, NEW tier \in 0..3,
           NEW mark \in Marks, Write(s, c, now, pts, run, tier, mark),
           NEW b \in Buckets
    PROVE  LET touched == BucketsOf(s.user, s.mode, now)
           IN /\ b \in touched =>
                   /\ b[2] = s.mode
                   /\ Entries(b)' = Entries(b) \cup {NewEntry(s, pts, tier, now, mark)}
              /\ b \notin touched => Entries(b)' = Entries(b)
              /\ b \notin DOMAIN scores => Entries(b) = {}
<1> DEFINE e == NewEntry(s, pts, tier, now, mark)
<1>1. ledger' = ledger \cup {e}
  BY WriteEffect
<1>2. e.user = s.user /\ e.mode = s.mode /\ e.now = now
  <2>1. pts \in Nat
    BY ScoresAssumption
  <2> QED BY <2>1, NewEntryFacts
<1>3. b \in BucketsOf(s.user, s.mode, now)
        <=> b[1] = s.user /\ b[2] = s.mode /\ PeriodStart(b[3], now) = b[4]
  BY DEF BucketsOf, Buckets
<1>4. ASSUME NEW f \in Entries(b) PROVE b \in DOMAIN scores
  <2>1. /\ f \in ledger /\ f.user \in Users /\ f.mode \in Modes /\ f.now \in Nat
        /\ f.user = b[1] /\ f.mode = b[2] /\ PeriodStart(b[3], f.now) = b[4]
    BY <1>4 DEF Entries, TypeInv, TypeOK, Entry
  <2>2. b \in BucketsOf(f.user, f.mode, f.now)
    BY <2>1, BucketFacts
  <2> QED BY <2>1, <2>2 DEF LedgerFits
<1> HIDE DEF e
<1> QED BY <1>1, <1>2, <1>3, <1>4 DEF Entries, e

LEMMA RawCredit ==
    ASSUME TypeInv, CreditInv, NEW s \in Submissions, NEW c \in Configs, NEW now \in Nat,
           NEW mark \in Marks, RawWrite(s, c, now, mark)
    PROVE  CreditInv'
<1> DEFINE e == NewEntry(s, s.body.claim, 0, now, mark)
           id == RunId(s)
<1>1. /\ s.kind = "raw" /\ ~Duplicate(s, c) /\ runs' = runs /\ c \in past[s.mode]
      /\ c.strategy = "cumulative" => s.key \in Keys
      /\ c.strategy \in {"best", "cumulative"}
      /\ s.user \in Users /\ s.mode \in Modes /\ s.body.claim \in 0..BigintMax
      /\ c.strategy = "cumulative" <=> mark # Absent
  BY SubmissionFacts, ConfigFacts DEF RawWrite, Write, Admits, NewEntry
<1>2. /\ ledger' = ledger \cup {e} /\ past' = past /\ day' = day
      /\ DOMAIN scores' = DOMAIN scores \cup BucketsOf(s.user, s.mode, now)
  <2>1. /\ Write(s, c, now, s.body.claim, NoRun, 0, mark) /\ 0 \in 0..3
        /\ NoRun \in Keys \cup {NoRun}
    BY DEF RawWrite
  <2> QED BY <2>1 DEF Write, ApplyScoreWrite, NewEntry
<1>0. s.body.claim \in Nat
  BY <1>1, ScoresAssumption
<1>3. /\ e.kind = "raw" /\ e.user = s.user /\ e.mode = s.mode /\ e.now = now /\ e.at = day
      /\ e.mark = mark /\ EntryId(e) = id
  BY <1>0, <1>1, NewEntryFacts
<1>4. /\ day \in Nat /\ Retention \in Nat \ {0}
      /\ \A f \in ledger : f \in Entry /\ f.at \in Nat /\ f.at <= day
  BY ScoresAssumption DEF TypeInv, TypeOK, Entry, CreditInv, LedgerFits
<1>5. Always(s.mode, "cumulative") => mark \in Nat /\ id \notin DOMAIN markers
  BY <1>1 DEF Always, Duplicate, Marks
<1>6. /\ markers' = IF mark = Absent THEN markers
                    ELSE [k \in DOMAIN markers \cup {id} |-> IF k = id THEN mark ELSE markers[k]]
      /\ mark # Absent => id \notin DOMAIN markers
  BY <1>1 DEF RawWrite, Duplicate
<1>14. PlacesDiffer'
  <2>1. PlacesDiffer /\ 0 \in 0..3
    BY DEF CreditInv
  <2> QED BY <1>0, <1>2, <2>1, NextPlace
<1> HIDE DEF e, id
<1>7. ASSUME NEW f \in ledger, f.kind = "raw", EntryId(f) = id, Always(s.mode, "cumulative"),
             f.mode = s.mode
      PROVE  f.mark \in Nat /\ f.mark + Retention < day
  BY <1>5, <1>7 DEF CreditInv, MarkersKept
<1>8. \A f, g : EntryId(f) = EntryId(g) => f.mode = g.mode
  BY DEF EntryId
<1>9. CreditedOnce'
  <2> SUFFICES ASSUME NEW f \in ledger', NEW g \in ledger', f # g, f.kind = g.kind,
                      EntryId(f) = EntryId(g), Always(f.mode, "cumulative")
               PROVE  /\ f.kind = "raw"
                      /\ f.at > g.mark + Retention \/ g.at > f.mark + Retention
    BY <1>2 DEF CreditedOnce, Always, EntryId
  <2>1. CASE f \in ledger /\ g \in ledger
    BY <2>1 DEF CreditInv, CreditedOnce
  <2>2. CASE f = e /\ g \in ledger
    BY <1>3, <1>4, <1>7, <1>8, <2>2
  <2>3. CASE g = e /\ f \in ledger
    BY <1>3, <1>4, <1>7, <1>8, <2>3
  <2> QED BY <1>2, <2>1, <2>2, <2>3
<1>10. MarkerHasCredit'
  <2> SUFFICES ASSUME NEW k \in DOMAIN markers'
               PROVE  \E f \in ledger' : f.kind = "raw" /\ EntryId(f) = k /\ f.mark = markers'[k]
    BY DEF MarkerHasCredit, EntryId
  <2>1. CASE k \in DOMAIN markers /\ markers'[k] = markers[k]
    BY <1>2, <2>1 DEF CreditInv, MarkerHasCredit
  <2>2. CASE k = id /\ markers'[k] = mark
    BY <1>2, <1>3, <2>2
  <2> QED BY <1>6, <2>1, <2>2
<1>11. RunHasCredit'
  <2>1. \A f \in ledger' : f.kind = "run" => f \in ledger
    BY <1>2, <1>3
  <2> QED BY <1>1, <1>2, <2>1 DEF CreditInv, RunHasCredit, EntryId
<1>12. LedgerFits'
  BY <1>2, <1>3, <1>4 DEF CreditInv, LedgerFits
<1>13. MarkersKept'
  <2> SUFFICES ASSUME NEW f \in ledger', f.kind = "raw", Always(f.mode, "cumulative")
               PROVE  /\ f.mark \in Nat
                      /\ \/ EntryId(f) \in DOMAIN markers' /\ markers'[EntryId(f)] >= f.mark
                         \/ f.mark + Retention < day
    BY <1>2 DEF MarkersKept, Always, EntryId
  <2>1. CASE f = e
    <3>1. f.mark = mark /\ EntryId(f) = id /\ f.mode = s.mode
      BY <1>3, <2>1
    <3>2. mark \in Nat /\ mark # Absent
      BY <1>5, <3>1 DEF Absent
    <3>3. id \in DOMAIN markers' /\ markers'[id] = mark
      BY <1>6, <3>2
    <3> QED BY <3>1, <3>2, <3>3
  <2>2. CASE f \in ledger
    <3>1. /\ f.mark \in Nat
          /\ \/ EntryId(f) \in DOMAIN markers /\ markers[EntryId(f)] >= f.mark
             \/ f.mark + Retention < day
      BY <2>2 DEF CreditInv, MarkersKept
    <3> QED BY <1>4, <1>6, <2>2, <3>1
  <2> QED BY <1>2, <2>1, <2>2
<1> QED BY <1>9, <1>10, <1>11, <1>12, <1>13, <1>14 DEF CreditInv

LEMMA RunCredit ==
    ASSUME TypeInv, CreditInv, NEW s \in Submissions, NEW c \in Configs, NEW now \in Nat,
           NEW pts \in 0..BigintMax, NEW tier \in 0..3, RunWrite(s, c, now, pts, tier)
    PROVE  CreditInv'
<1> DEFINE e == NewEntry(s, pts, tier, now, Absent)
           id == RunId(s)
           v == Validated(tier, pts)
<1>1. /\ s.kind = "run" /\ id \notin DOMAIN runs /\ markers' = markers
      /\ runs' = Inserted(id, v) /\ s.key \in Keys
      /\ Write(s, c, now, pts, s.key, tier, Absent)
  BY DEF RunWrite
<1>2. /\ ledger' = ledger \cup {e} /\ past' = past /\ day' = day
      /\ DOMAIN scores' = DOMAIN scores \cup BucketsOf(s.user, s.mode, now)
  <2>1. s.key \in Keys \cup {NoRun}
    BY <1>1
  <2> QED BY <1>1, <2>1 DEF Write, ApplyScoreWrite, NewEntry
<1>3. /\ e.kind = "run" /\ e.user = s.user /\ e.mode = s.mode /\ e.now = now /\ e.at = day
      /\ e.points = pts /\ e.tier = tier /\ EntryId(e) = id
  <2>1. pts \in Nat
    BY ScoresAssumption
  <2> QED BY <1>1, <2>1, NewEntryFacts
<1>12. PlacesDiffer'
  <2>1. PlacesDiffer /\ pts \in Nat
    BY ScoresAssumption DEF CreditInv
  <2> QED BY <1>2, <2>1, NextPlace
<1>4. /\ day \in Nat
      /\ \A f \in ledger : f.at \in Nat /\ f.at <= day
  BY DEF TypeInv, TypeOK, Entry, CreditInv, LedgerFits
<1>5. /\ DOMAIN runs' = DOMAIN runs \cup {id} /\ runs'[id] = v
      /\ \A k \in DOMAIN runs : k # id /\ runs'[k] = runs[k]
      /\ v.score = pts /\ v.tier = tier
  BY <1>1 DEF Inserted, Validated
<1> HIDE DEF e, id
<1>6. \A f \in ledger : f.kind = "run" => EntryId(f) # id
  BY <1>5 DEF CreditInv, RunHasCredit
<1>7. CreditedOnce'
  <2> SUFFICES ASSUME NEW f \in ledger', NEW g \in ledger', f # g, f.kind = g.kind,
                      EntryId(f) = EntryId(g), Always(f.mode, "cumulative")
               PROVE  /\ f.kind = "raw"
                      /\ f.at > g.mark + Retention \/ g.at > f.mark + Retention
    BY <1>2 DEF CreditedOnce, Always, EntryId
  <2>1. f \in ledger /\ g \in ledger
    BY <1>2, <1>3, <1>6
  <2> QED BY <2>1 DEF CreditInv, CreditedOnce
<1>8. MarkerHasCredit'
  BY <1>1, <1>2 DEF CreditInv, MarkerHasCredit, EntryId
<1>9. RunHasCredit'
  <2>1. ASSUME NEW k \in DOMAIN runs', runs'[k].status = "validated"
        PROVE  \E f \in ledger' : /\ f.kind = "run" /\ EntryId(f) = k
                                  /\ f.points = runs'[k].score /\ f.tier = runs'[k].tier
    <3>1. CASE k = id
      BY <1>2, <1>3, <1>5, <3>1
    <3>2. CASE k \in DOMAIN runs
      BY <1>2, <1>5, <2>1, <3>2 DEF CreditInv, RunHasCredit
    <3> QED BY <1>5, <3>1, <3>2
  <2>2. ASSUME NEW f \in ledger', f.kind = "run"
        PROVE  EntryId(f) \in DOMAIN runs' /\ runs'[EntryId(f)] = Validated(f.tier, f.points)
    <3>1. CASE f = e
      BY <1>3, <1>5, <3>1
    <3>2. CASE f \in ledger
      BY <1>5, <2>2, <3>2 DEF CreditInv, RunHasCredit
    <3> QED BY <1>2, <3>1, <3>2
  <2> QED BY <2>1, <2>2 DEF RunHasCredit, EntryId
<1>10. LedgerFits'
  BY <1>2, <1>3, <1>4 DEF CreditInv, LedgerFits
<1>11. MarkersKept'
  <2>1. \A f \in ledger' : f.kind = "raw" => f \in ledger
    BY <1>2, <1>3
  <2> QED BY <1>1, <1>2, <2>1 DEF CreditInv, MarkersKept, Always, EntryId
<1> QED BY <1>7, <1>8, <1>9, <1>10, <1>11, <1>12 DEF CreditInv

LEMMA NextCredit == TypeInv /\ CreditInv /\ [Next]_vars => CreditInv'
BY NextType, Steps, QuietCredit, RawCredit, RunCredit

(* CreditIsRecordedOnce, which ScoresBoards checks: a retry is credited    *)
(* once for as long as its marker is kept, a run once for ever, and no     *)
(* marker or validated run is without its credit.                          *)
THEOREM CreditedAndRecordedOnce == Spec => []CreditIsRecordedOnce
<1>1. CreditInv => CreditIsRecordedOnce
  BY DEF CreditInv, CreditIsRecordedOnce
<1> QED BY <1>1, InitType, NextType, InitCredit, NextCredit, PTL DEF Spec

-----------------------------------------------------------------------------
(* 3. What a row stands for.  BoardShowsWhatCounts is inductive with the   *)
(* types and with what a handler knows about the mode it read.             *)

(* What the property says of one row, on a board whose mode has had the    *)
(* configurations P and for whose bucket the entries E were accepted.      *)
Shows(b, row, R, P, E) ==
    /\ row.run = NoRun => row.tier = 0
    /\ row.run # NoRun =>
         LET k == <<b[1], b[2], row.run>>
         IN /\ k \in DOMAIN R /\ R[k].status = "validated" /\ R[k].tier = row.tier
            /\ (\A c \in P : c.strategy = "best") => R[k].score = row.score
    /\ \E e \in E : ShownBy(row, e)

RowsShow == \A b \in DOMAIN scores : Shows(b, scores[b], runs, past[b[2]], Entries(b))

LEMMA ShowsByRow == BoardShowsWhatCounts <=> RowsShow /\ AdmittedByOne
BY DEF BoardShowsWhatCounts, RowNamesItsRun, RowShowsAnEntry, RowsShow, Shows, Always

LEMMA ShowsByRowNext ==
    ASSUME \A b \in DOMAIN scores' : Shows(b, scores'[b], runs', past'[b[2]], Entries(b)'),
           AdmittedByOne'
    PROVE  BoardShowsWhatCounts'
<1>1. RowsShow' /\ AdmittedByOne' => BoardShowsWhatCounts'
  BY ShowsByRow, PTL
<1> QED BY <1>1 DEF RowsShow

LEMMA ShowsStays ==
    ASSUME NEW b, NEW row, NEW R, NEW P, NEW E, NEW RNext, NEW PNext, NEW ENext,
           Shows(b, row, R, P, E), P \subseteq PNext, E \subseteq ENext,
           \A k \in DOMAIN R : k \in DOMAIN RNext /\ RNext[k] = R[k]
    PROVE  Shows(b, row, RNext, PNext, ENext)
BY DEF Shows

LEMMA InitShows == Init => BoardShowsWhatCounts
BY DEF Init, BoardShowsWhatCounts, RowNamesItsRun, RowShowsAnEntry, AdmittedByOne

(* What admitted an entry still does when its mode has had more            *)
(* configurations and its player may have claimed the account.             *)
LEMMA AdmittedStays ==
    ASSUME TypeInv, AdmittedByOne, ledger' = ledger, guests' \subseteq guests,
           \A m \in Modes : past[m] \subseteq past'[m]
    PROVE  AdmittedByOne'
<1>1. \A e \in ledger : e.mode \in Modes
  BY DEF TypeInv, TypeOK, Entry
<1>2. \A c, e : Admits(c, e) => Admits(c, e)'
  BY DEF Admits
<1> QED BY <1>1, <1>2 DEF AdmittedByOne

(* A row written under a configuration of its mode, for the points given.  *)
LEMMA WrittenShows ==
    ASSUME TypeInv, NEW s \in Submissions, NEW c \in Configs, NEW now \in Nat,
           NEW pts \in 0..BigintMax, NEW run \in Keys \cup {NoRun}, NEW tier \in 0..3,
           NEW mark \in Marks,
           Write(s, c, now, pts, run, tier, mark), NEW RNext,
           BoardShowsWhatCounts,
           \A k \in DOMAIN runs : k \in DOMAIN RNext /\ RNext[k] = runs[k],
           run = NoRun => tier = 0,
           run # NoRun => /\ <<s.user, s.mode, run>> \in DOMAIN RNext
                          /\ RNext[<<s.user, s.mode, run>>] = Validated(tier, pts),
           NEW b \in BucketsOf(s.user, s.mode, now)
    PROVE  Shows(b, NewRow(b, c, pts, run, tier), RNext, past[b[2]],
                 Entries(b) \cup {NewEntry(s, pts, tier, now, mark)})
<1> DEFINE e == NewEntry(s, pts, tier, now, mark)
           row == [score |-> pts, run |-> run, tier |-> tier]
           total == [row EXCEPT !.score = scores[b].score + pts]
<1>1. b[1] = s.user /\ b[2] = s.mode
  BY DEF BucketsOf
<1>2. /\ c \in past[b[2]]
      /\ e.tier = tier /\ run = IF e.kind = "run" THEN e.key ELSE NoRun
  BY <1>1 DEF Write, NewEntry
<1>3. /\ row.run = run /\ row.tier = tier /\ row.score = pts
      /\ total.run = run /\ total.tier = tier
  OBVIOUS
<1>4. run # NoRun => LET k == <<b[1], b[2], run>>
                     IN /\ k \in DOMAIN RNext /\ RNext[k].status = "validated"
                        /\ RNext[k].tier = tier /\ RNext[k].score = pts
  BY <1>1 DEF Validated
<1> HIDE DEF row, total, e
<1>5. Shows(b, row, RNext, past[b[2]], Entries(b) \cup {e})
  BY <1>1, <1>2, <1>3, <1>4 DEF Shows, ShownBy
<1>6. c.strategy = "cumulative" => Shows(b, total, RNext, past[b[2]], Entries(b) \cup {e})
  BY <1>1, <1>2, <1>3, <1>4 DEF Shows, ShownBy
<1>7. ASSUME b \in DOMAIN scores
      PROVE  Shows(b, scores[b], RNext, past[b[2]], Entries(b) \cup {e})
  <2>1. Shows(b, scores[b], runs, past[b[2]], Entries(b))
    BY <1>7, ShowsByRow DEF RowsShow
  <2> QED BY <2>1, ShowsStays
<1> QED BY <1>5, <1>6, <1>7 DEF NewRow, row, total, e

LEMMA NextShows ==
    TypeInv /\ LedgerFits /\ BoardShowsWhatCounts /\ [Next]_vars => BoardShowsWhatCounts'
<1> SUFFICES ASSUME TypeInv, LedgerFits, BoardShowsWhatCounts, [Next]_vars
             PROVE  BoardShowsWhatCounts'
  OBVIOUS
<1>1. /\ AdmittedByOne
      /\ \A b \in DOMAIN scores :
            /\ b \in Buckets /\ b[2] \in Modes
            /\ Shows(b, scores[b], runs, past[b[2]], Entries(b))
  BY ShowsByRow DEF RowsShow, TypeInv, TypeOK, Buckets
<1>2. ASSUME Quiet PROVE BoardShowsWhatCounts'
  <2>1. \A k \in DOMAIN runs : k \in DOMAIN runs' /\ runs'[k] = runs[k]
    BY <1>2 DEF Quiet, Inserted
  <2>2. \A b : Entries(b)' = Entries(b)
    BY <1>2 DEF Quiet, Entries
  <2>3. \A b \in DOMAIN scores : Shows(b, scores[b], runs', past'[b[2]], Entries(b)')
    BY <1>1, <1>2, <2>1, <2>2, ShowsStays DEF Quiet
  <2>4. AdmittedByOne'
    BY <1>1, <1>2, AdmittedStays DEF Quiet
  <2> QED BY <1>2, <2>3, <2>4, ShowsByRowNext DEF Quiet
<1>3. ASSUME NEW s \in Submissions, NEW c \in Configs, NEW now \in Nat,
             NEW pts \in 0..BigintMax, NEW run \in Keys \cup {NoRun}, NEW tier \in 0..3,
             NEW mark \in Marks, Write(s, c, now, pts, run, tier, mark),
             \A k \in DOMAIN runs : k \in DOMAIN runs' /\ runs'[k] = runs[k],
             run = NoRun => tier = 0,
             run # NoRun => /\ <<s.user, s.mode, run>> \in DOMAIN runs'
                            /\ runs'[<<s.user, s.mode, run>>] = Validated(tier, pts)
      PROVE  BoardShowsWhatCounts'
  <2> DEFINE touched == BucketsOf(s.user, s.mode, now)
             e == NewEntry(s, pts, tier, now, mark)
  <2>1. /\ DOMAIN scores' = DOMAIN scores \cup touched
        /\ \A b \in DOMAIN scores \ touched : scores'[b] = scores[b]
        /\ \A b \in touched : scores'[b] = NewRow(b, c, pts, run, tier)
        /\ ledger' = ledger \cup {e} /\ UNCHANGED <<guests, past>>
    BY <1>3 DEF Write, ApplyScoreWrite, NewEntry
  <2>2. \A b \in touched :
           Shows(b, NewRow(b, c, pts, run, tier), runs', past[b[2]], Entries(b) \cup {e})
    BY <1>3, WrittenShows
  <2>3. \A b \in DOMAIN scores : Shows(b, scores[b], runs', past[b[2]], Entries(b))
    BY <1>1, <1>3, ShowsStays
  <2>4. touched \subseteq Buckets
    <3>1. \A u \in Users, m \in Modes : BucketsOf(u, m, now) \subseteq Buckets
      BY BucketFacts
    <3> QED BY <3>1, SubmissionFacts
  <2>5. \A b \in Buckets :
           /\ b \in touched => Entries(b)' = Entries(b) \cup {e}
           /\ b \notin touched => Entries(b)' = Entries(b)
    BY <1>3, EntriesAfter
  <2>6. AdmittedByOne'
    <3>1. c \in past[s.mode] /\ Admits(c, e) /\ e.mode = s.mode
      BY <1>3 DEF Write, NewEntry
    <3> HIDE DEF e
    <3>2. \A d, f : Admits(d, f)' = Admits(d, f)
      BY <2>1 DEF Admits
    <3> QED BY <1>1, <2>1, <3>1, <3>2 DEF AdmittedByOne
  <2> HIDE DEF touched, e
  <2> QED BY <1>1, <2>1, <2>2, <2>3, <2>4, <2>5, <2>6, ShowsByRowNext
<1>4. ASSUME NEW s \in Submissions, NEW c \in Configs, NEW now \in Nat,
             NEW mark \in Marks, RawWrite(s, c, now, mark)
      PROVE  BoardShowsWhatCounts'
  <2>1. /\ s.body.claim \in 0..BigintMax /\ Write(s, c, now, s.body.claim, NoRun, 0, mark)
        /\ runs' = runs /\ NoRun \in Keys \cup {NoRun} /\ 0 \in 0..3
    BY <1>4, SubmissionFacts DEF RawWrite
  <2> QED BY <1>3, <2>1
<1>5. ASSUME NEW s \in Submissions, NEW c \in Configs, NEW now \in Nat,
             NEW pts \in 0..BigintMax, NEW tier \in 0..3, RunWrite(s, c, now, pts, tier)
      PROVE  BoardShowsWhatCounts'
  <2>1. /\ Write(s, c, now, pts, s.key, tier, Absent) /\ s.key \in Keys /\ s.key # NoRun
        /\ RunId(s) \notin DOMAIN runs /\ runs' = Inserted(RunId(s), Validated(tier, pts))
    BY <1>5, ScoresAssumption DEF RunWrite
  <2>2. /\ \A k \in DOMAIN runs : k \in DOMAIN runs' /\ runs'[k] = runs[k]
        /\ RunId(s) \in DOMAIN runs' /\ runs'[RunId(s)] = Validated(tier, pts)
    BY <2>1 DEF Inserted
  <2> QED BY <1>3, <2>1, <2>2, AbsentMark DEF RunId
<1> QED BY <1>2, <1>4, <1>5, Steps

(* BoardShowsWhatCounts, which ScoresBoards checks: a row shows the run    *)
(* and the tier of a score accepted for its bucket, and every score was    *)
(* admitted by one configuration of its mode, whatever the operator did    *)
(* while it was in flight.                                                 *)
THEOREM BoardsShowWhatCounts == Spec => []BoardShowsWhatCounts
<1>1. CreditInv => LedgerFits
  BY DEF CreditInv
<1> QED BY <1>1, InitType, NextType, InitCredit, NextCredit, InitShows, NextShows, PTL DEF Spec

-----------------------------------------------------------------------------
(* 4. Sums over finite sets, for the section below: adding an element to a *)
(* set adds its weight to the sum, whatever the order in which the         *)
(* library's fold takes the elements.                                      *)

(* A recursive function that takes the elements of a set one by one in the *)
(* order of CHOOSE.                                                        *)
First(T) == CHOOSE x \in T : TRUE
Rest(T) == T \ {First(T)}

SumsUp(g, w, S) ==
    g = [T \in SUBSET S |-> IF T = {} THEN 0 ELSE w[First(T)] + g[Rest(T)]]

LEMMA FirstFacts ==
    ASSUME NEW T, T # {}
    PROVE  /\ First(T) \in T /\ Rest(T) \subseteq T /\ First(T) \notin Rest(T)
           /\ T = Rest(T) \cup {First(T)}
BY DEF First, Rest

(* Induction over the subsets of a finite set: a smallest exception would  *)
(* be no exception.                                                        *)
LEMMA SubsetInduction ==
    ASSUME NEW S, IsFiniteSet(S), NEW C,
           \A T \in SUBSET S : (\A U \in SUBSET T : U # T => U \in C) => T \in C
    PROVE  SUBSET S \subseteq C
<1> DEFINE Bad == (SUBSET S) \ C
           R == StrictSubsetOrdering(S)
<1>1. IsWellFoundedOn(R, SUBSET S)
  BY FS_StrictSubsetOrderingWellFounded, FS_FiniteSubsetsOfFinite
<1>2. SUFFICES ASSUME Bad # {} PROVE FALSE
  OBVIOUS
<1>3. PICK T \in Bad : \A U \in Bad : <<U, T>> \notin R
  <2>1. Bad \subseteq SUBSET S
    OBVIOUS
  <2> HIDE DEF Bad, R
  <2> QED BY <1>1, <1>2, <2>1, WFMin
<1>4. T \in SUBSET S /\ T \notin C
  BY <1>3
<1>5. ASSUME NEW U \in SUBSET T, U # T PROVE U \in C
  <2>1. U \subseteq S
    BY <1>4
  <2>2. <<U, T>> \in R
    BY <1>4, <1>5, <2>1 DEF StrictSubsetOrdering
  <2> HIDE DEF R
  <2> QED BY <1>3, <2>1, <2>2
<1> QED BY <1>4, <1>5

LEMMA SumsUpValue ==
    ASSUME NEW g, NEW w, NEW S, SumsUp(g, w, S)
    PROVE  /\ DOMAIN g = SUBSET S /\ g[{}] = 0
           /\ \A T \in SUBSET S : T # {} => g[T] = w[First(T)] + g[Rest(T)]
BY DEF SumsUp

(* Two such functions agree where both are defined.                        *)
LEMMA SumsAgree ==
    ASSUME NEW S, IsFiniteSet(S), NEW U, S \subseteq U, NEW w, NEW v, NEW g, NEW h,
           SumsUp(g, w, S), SumsUp(h, v, U), \A x \in S : w[x] = v[x]
    PROVE  \A T \in SUBSET S : g[T] = h[T]
<1> DEFINE C == {T \in SUBSET S : g[T] = h[T]}
<1>1. ASSUME NEW T \in SUBSET S, \A V \in SUBSET T : V # T => V \in C
      PROVE  T \in C
  <2>1. CASE T = {}
    BY <2>1, SumsUpValue
  <2>2. CASE T # {}
    <3>1. First(T) \in T /\ Rest(T) \in SUBSET T /\ Rest(T) # T
      BY <2>2, FirstFacts
    <3>2. w[First(T)] = v[First(T)] /\ g[Rest(T)] = h[Rest(T)]
      BY <1>1, <3>1
    <3>3. g[T] = w[First(T)] + g[Rest(T)]
      BY <2>2, SumsUpValue
    <3>4. h[T] = v[First(T)] + h[Rest(T)]
      <4>1. T \in SUBSET U
        OBVIOUS
      <4> QED BY <2>2, <4>1, SumsUpValue
    <3> QED BY <3>2, <3>3, <3>4
  <2> QED BY <2>1, <2>2
<1>2. SUBSET S \subseteq C
  <2> HIDE DEF C
  <2> QED BY <1>1, SubsetInduction
<1> QED BY <1>2

(* There is one, and its values are integers.                              *)
LEMMA SumsExist ==
    ASSUME NEW S, IsFiniteSet(S), NEW w, \A x \in S : w[x] \in Int
    PROVE  \E g \in [SUBSET S -> Int] : SumsUp(g, w, S)
<1> DEFINE Has(T) == \E g \in [SUBSET T -> Int] : SumsUp(g, w, T)
           Of(T) == CHOOSE g \in [SUBSET T -> Int] : SumsUp(g, w, T)
           C == {T \in SUBSET S : Has(T)}
<1>1. ASSUME NEW T \in SUBSET S, \A V \in SUBSET T : V # T => V \in C
      PROVE  T \in C
  <2> DEFINE h == [U \in SUBSET T |->
                     IF U = {} THEN 0 ELSE w[First(U)] + Of(Rest(U))[Rest(U)]]
  <2>1. ASSUME NEW U \in SUBSET T, U # {}
        PROVE  /\ Rest(U) \in SUBSET T /\ w[First(U)] \in Int
               /\ Of(Rest(U)) \in [SUBSET Rest(U) -> Int]
               /\ SumsUp(Of(Rest(U)), w, Rest(U))
    <3>1. First(U) \in S /\ Rest(U) \in SUBSET T /\ Rest(U) # T
      BY <2>1, FirstFacts
    <3>2. Has(Rest(U))
      BY <1>1, <3>1
    <3> QED BY <3>1, <3>2
  <2>2. h \in [SUBSET T -> Int]
    <3>1. ASSUME NEW U \in SUBSET T, U # {} PROVE Of(Rest(U))[Rest(U)] \in Int
      <4> HIDE DEF Of
      <4> QED BY <2>1, <3>1
    <3> DEFINE value(U) == IF U = {} THEN 0 ELSE w[First(U)] + Of(Rest(U))[Rest(U)]
    <3>2. ASSUME NEW U \in SUBSET T PROVE value(U) \in Int
      <4>1. U # {} => w[First(U)] \in Int /\ Of(Rest(U))[Rest(U)] \in Int
        <5> HIDE DEF Of
        <5> QED BY <2>1, <3>1
      <4>2. \A i, j \in Int : i + j \in Int
        OBVIOUS
      <4> HIDE DEF Of
      <4> QED BY <4>1, <4>2
    <3>3. h = [U \in SUBSET T |-> value(U)]
      OBVIOUS
    <3> HIDE DEF value, h
    <3> QED BY <3>2, <3>3
  <2>3. ASSUME NEW U \in SUBSET T, U # {} PROVE h[Rest(U)] = Of(Rest(U))[Rest(U)]
    <3> DEFINE V == Rest(U)
    <3>1. V \in SUBSET T /\ SumsUp(Of(V), w, V)
      BY <2>1, <2>3
    <3>2. CASE V = {}
      <4> HIDE DEF Of
      <4> QED BY <3>1, <3>2, SumsUpValue
    <3>3. CASE V # {}
      <4>1. SumsUp(Of(Rest(V)), w, Rest(V)) /\ Rest(V) \subseteq V
        BY <2>1, <3>1, <3>3, FirstFacts
      <4>2. IsFiniteSet(Rest(V))
        BY <3>1, <4>1, FS_Subset
      <4> HIDE DEF Of
      <4>3. Of(V)[V] = w[First(V)] + Of(V)[Rest(V)]
        <5>1. ASSUME NEW g, SumsUp(g, w, V)
              PROVE  g[V] = w[First(V)] + g[Rest(V)]
          <6>1. \A Q \in SUBSET V : Q # {} => g[Q] = w[First(Q)] + g[Rest(Q)]
            BY <5>1, SumsUpValue
          <6>2. V \in SUBSET V
            OBVIOUS
          <6> HIDE DEF V
          <6> QED BY <3>3, <6>1, <6>2
        <5> QED BY <3>1, <5>1
      <4>4. Of(Rest(V))[Rest(V)] = Of(V)[Rest(V)]
        BY <3>1, <4>1, <4>2, SumsAgree
      <4> QED BY <3>1, <3>3, <4>3, <4>4
    <3> QED BY <3>2, <3>3
  <2>4. SumsUp(h, w, T)
    <3>1. h = [U \in SUBSET T |-> IF U = {} THEN 0 ELSE w[First(U)] + h[Rest(U)]]
      <4>1. \A U \in SUBSET T :
               h[U] = IF U = {} THEN 0 ELSE w[First(U)] + h[Rest(U)]
        <5> HIDE DEF Of
        <5> QED BY <2>3
      <4>2. h = [U \in SUBSET T |-> h[U]]
        OBVIOUS
      <4> HIDE DEF h
      <4> QED BY <4>1, <4>2
    <3> HIDE DEF h
    <3> QED BY <3>1 DEF SumsUp
  <2> HIDE DEF h
  <2> QED BY <2>2, <2>4
<1>2. SUBSET S \subseteq C
  <2> HIDE DEF C
  <2> QED BY <1>1, SubsetInduction
<1> QED BY <1>2

-----------------------------------------------------------------------------
(* The sum of the values of w over S, as the library folds it.             *)
Total(w, S) == (CHOOSE g : SumsUp(g, w, S))[S]

LEMMA TotalIs ==
    ASSUME NEW S, IsFiniteSet(S), NEW w, \A x \in S : w[x] \in Int
    PROVE  \E g \in [SUBSET S -> Int] : SumsUp(g, w, S) /\ Total(w, S) = g[S]
<1> DEFINE g == CHOOSE g : SumsUp(g, w, S)
<1>1. PICK h \in [SUBSET S -> Int] : SumsUp(h, w, S)
  BY SumsExist
<1>2. SumsUp(g, w, S)
  BY <1>1
<1>3. \A T \in SUBSET S : g[T] = h[T]
  <2> HIDE DEF g
  <2> QED BY <1>1, <1>2, SumsAgree
<1>4. Total(w, S) = g[S]
  BY DEF Total
<1> HIDE DEF g
<1> QED BY <1>1, <1>3, <1>4

(* The sum of a subset is among the values of the function for the set.    *)
LEMMA TotalOfSubset ==
    ASSUME NEW S, IsFiniteSet(S), NEW w, \A x \in S : w[x] \in Int,
           NEW g, SumsUp(g, w, S), NEW T \in SUBSET S
    PROVE  g[T] = Total(w, T)
<1>1. IsFiniteSet(T)
  BY FS_Subset
<1>2. PICK h \in [SUBSET T -> Int] : SumsUp(h, w, T) /\ Total(w, T) = h[T]
  BY <1>1, TotalIs
<1>3. h[T] = g[T]
  BY <1>1, <1>2, SumsAgree
<1> QED BY <1>2, <1>3

(* The order of the elements does not matter: any element may come first.  *)
LEMMA AnyFirst ==
    ASSUME NEW S, IsFiniteSet(S), NEW w, \A x \in S : w[x] \in Int,
           NEW g, SumsUp(g, w, S), \A T \in SUBSET S : g[T] \in Int
    PROVE  \A T \in SUBSET S : \A x \in T : g[T] = w[x] + g[T \ {x}]
<1>0. ASSUME NEW T \in SUBSET S, T # {} PROVE g[T] = w[First(T)] + g[Rest(T)]
  <2>1. First(T) \in S /\ Rest(T) \in SUBSET S
    BY <1>0, FirstFacts
  <2>2. w[First(T)] \in Int /\ g[Rest(T)] \in Int /\ g[T] \in Int
    BY <2>1
  <2> QED BY <1>0, <2>2 DEF SumsUp
<1> DEFINE C == {T \in SUBSET S : \A x \in T : g[T] = w[x] + g[T \ {x}]}
<1>1. ASSUME NEW T \in SUBSET S, \A V \in SUBSET T : V # T => V \in C
      PROVE  T \in C
  <2> SUFFICES ASSUME NEW x \in T PROVE g[T] = w[x] + g[T \ {x}]
    OBVIOUS
  <2> DEFINE y == First(T)
  <2>1. y \in T /\ g[T] = w[y] + g[T \ {y}]
    <3>1. y \in T
      BY FirstFacts
    <3> QED BY <1>0, <3>1 DEF Rest
  <2>2. CASE x = y
    BY <2>1, <2>2
  <2>3. CASE x # y
    <3> HIDE DEF y
    <3>1. T \ {y} \in C /\ T \ {x} \in C /\ x \in T \ {y} /\ y \in T \ {x}
      <4>1. T \ {y} # T /\ T \ {x} # T /\ T \ {y} \in SUBSET T /\ T \ {x} \in SUBSET T
        BY <2>1
      <4> HIDE DEF C
      <4> QED BY <1>1, <2>1, <2>3, <4>1
    <3>2. /\ g[T \ {y}] = w[x] + g[(T \ {y}) \ {x}]
          /\ g[T \ {x}] = w[y] + g[(T \ {x}) \ {y}]
      BY <3>1
    <3>3. (T \ {y}) \ {x} = (T \ {x}) \ {y}
      OBVIOUS
    <3>4. w[x] \in Int /\ w[y] \in Int /\ g[(T \ {x}) \ {y}] \in Int
      <4>1. (T \ {x}) \ {y} \in SUBSET S /\ x \in S /\ y \in S
        BY <2>1
      <4> QED BY <4>1
    <3>5. ASSUME NEW i \in Int, NEW j \in Int, NEW k \in Int, NEW a, NEW b, NEW c,
                 a = i + b, b = j + k, c = i + k
          PROVE  a = j + c
      BY <3>5
    <3>6. g[T \ {x}] = w[y] + g[(T \ {y}) \ {x}]
      BY <3>2, <3>3
    <3> HIDE DEF C
    <3> QED BY <2>1, <3>2, <3>3, <3>4, <3>5, <3>6
  <2> QED BY <2>2, <2>3
<1>2. SUBSET S \subseteq C
  <2> HIDE DEF C
  <2> QED BY <1>1, SubsetInduction
<1> QED BY <1>2

(* What the proofs about totals use.                                       *)
LEMMA TotalInt ==
    ASSUME NEW S, IsFiniteSet(S), NEW w, \A x \in S : w[x] \in Int
    PROVE  Total(w, S) \in Int
<1>1. PICK g \in [SUBSET S -> Int] : SumsUp(g, w, S) /\ Total(w, S) = g[S]
  BY TotalIs
<1>2. S \in SUBSET S
  OBVIOUS
<1> QED BY <1>1, <1>2

LEMMA TotalEmpty == \A w : Total(w, {}) = 0
<1> TAKE w
<1>1. IsFiniteSet({})
  BY FS_EmptySet
<1>2. PICK g \in [SUBSET {} -> Int] : SumsUp(g, w, {}) /\ Total(w, {}) = g[{}]
  BY <1>1, TotalIs
<1> QED BY <1>2, SumsUpValue

LEMMA TotalAdd ==
    ASSUME NEW S, IsFiniteSet(S), NEW e, e \notin S, NEW w,
           \A x \in S \cup {e} : w[x] \in Int
    PROVE  Total(w, S \cup {e}) = w[e] + Total(w, S)
<1> DEFINE T == S \cup {e}
<1>0. \A x \in T : w[x] \in Int
  OBVIOUS
<1>1. IsFiniteSet(T)
  BY FS_AddElement
<1>2. PICK g : /\ SumsUp(g, w, T) /\ Total(w, T) = g[T]
               /\ \A U \in SUBSET T : g[U] \in Int
  <2>1. PICK g \in [SUBSET T -> Int] : SumsUp(g, w, T) /\ Total(w, T) = g[T]
    BY <1>1, TotalIs
  <2> QED BY <2>1
<1>3. g[T] = w[e] + g[T \ {e}]
  <2>1. T \in SUBSET T /\ e \in T
    OBVIOUS
  <2> HIDE DEF T
  <2>2. ASSUME NEW U \in SUBSET T, NEW x \in U PROVE g[U] = w[x] + g[U \ {x}]
    <3>1. x \in T /\ U \ {x} \in SUBSET T
      OBVIOUS
    <3>2. w[x] \in Int /\ g[U] \in Int /\ g[U \ {x}] \in Int
      BY <1>0, <1>2, <3>1
    <3> QED BY <1>0, <1>1, <1>2, <3>2, AnyFirst
  <2> QED BY <2>1, <2>2
<1>4. T \ {e} = S /\ S \in SUBSET T
  OBVIOUS
<1>5. g[S] = Total(w, S)
  <2> HIDE DEF T
  <2> QED BY <1>1, <1>2, <1>4, TotalOfSubset
<1> QED BY <1>2, <1>3, <1>4, <1>5

LEMMA TotalSame ==
    ASSUME NEW S, IsFiniteSet(S), NEW w, NEW v,
           \A x \in S : w[x] \in Int /\ v[x] = w[x]
    PROVE  Total(v, S) = Total(w, S)
<1>1. PICK g \in [SUBSET S -> Int] : SumsUp(g, w, S) /\ Total(w, S) = g[S]
  BY TotalIs
<1>2. PICK h \in [SUBSET S -> Int] : SumsUp(h, v, S) /\ Total(v, S) = h[S]
  BY TotalIs
<1>3. \A T \in SUBSET S : g[T] = h[T]
  BY <1>1, <1>2, SumsAgree
<1> QED BY <1>1, <1>2, <1>3

LEMMA TotalZero ==
    ASSUME NEW S, IsFiniteSet(S), NEW w, \A x \in S : w[x] = 0
    PROVE  Total(w, S) = 0
<1>1. \A x \in S : w[x] \in Int
  OBVIOUS
<1>2. PICK g \in [SUBSET S -> Int] : SumsUp(g, w, S) /\ Total(w, S) = g[S]
  BY <1>1, TotalIs
<1> DEFINE C == {T \in SUBSET S : g[T] = 0}
<1>3. ASSUME NEW T \in SUBSET S, \A V \in SUBSET T : V # T => V \in C
      PROVE  T \in C
  <2>1. CASE T = {}
    BY <1>2, <2>1, SumsUpValue
  <2>2. CASE T # {}
    <3>1. First(T) \in S /\ Rest(T) \in SUBSET T /\ Rest(T) # T
      BY <2>2, FirstFacts
    <3>2. w[First(T)] = 0 /\ g[Rest(T)] = 0
      BY <1>3, <3>1
    <3>3. g[T] = w[First(T)] + g[Rest(T)]
      <4>1. SumsUp(g, w, S)
        BY <1>2
      <4>2. w[First(T)] \in Int /\ g[Rest(T)] \in Int /\ g[T] \in Int
        BY <1>2, <3>1, <3>2
      <4> QED BY <2>2, <4>1, <4>2 DEF SumsUp
    <3> QED BY <3>2, <3>3
  <2> QED BY <2>1, <2>2
<1>4. SUBSET S \subseteq C
  <2> HIDE DEF C
  <2> QED BY <1>3, SubsetInduction
<1> QED BY <1>2, <1>4

-----------------------------------------------------------------------------
(* 5. Optima and sums.  BestIsOptimum is inductive with the facts of the   *)
(* sections above: the mode of a row has had a configuration, so that the  *)
(* order of a mode is known once it has a row, and no entry of the ledger  *)
(* is without its rows.  CumulativeIsSum needs that a new increment is not *)
(* in the ledger yet, which its place among those of its key or the run    *)
(* row shows.                                                              *)

(* The sum over the entries as the total of a function.                    *)
Points(S) == [e \in S |-> e.points]
Sum(S) == MapThenSumSet(LAMBDA e : e.points, S)

LEMMA SumIsTotal ==
    ASSUME NEW S, IsFiniteSet(S), \A e \in S : e.points \in Int
    PROVE  Sum(S) = Total(Points(S), S)
<1> DEFINE w == Points(S)
           Step(g) == [T \in SUBSET S |->
                         IF T = {} THEN 0
                         ELSE (CHOOSE x \in T : TRUE).points + g[T \ {CHOOSE x \in T : TRUE}]]
           fold == CHOOSE g : g = Step(g)
<1>1. Sum(S) = fold[S]
  BY DEF Sum, MapThenSumSet, MapThenFoldSet
<1>2. \A x \in S : w[x] \in Int /\ w[x] = x.points
  BY DEF Points
<1>3. ASSUME NEW g PROVE g = Step(g) <=> SumsUp(g, w, S)
  <2>1. \A T \in SUBSET S : T # {} => w[First(T)] = First(T).points
    <3> HIDE DEF w
    <3> QED BY <1>2, FirstFacts
  <2>2. Step(g) = [T \in SUBSET S |-> IF T = {} THEN 0 ELSE w[First(T)] + g[Rest(T)]]
    <3> HIDE DEF w
    <3> QED BY <2>1 DEF First, Rest
  <2> HIDE DEF Step, w
  <2> QED BY <2>2 DEF SumsUp
<1> HIDE DEF w, Step
<1>4. PICK g \in [SUBSET S -> Int] : SumsUp(g, w, S) /\ Total(w, S) = g[S]
  BY <1>2, TotalIs
<1>5. fold = Step(fold)
  BY <1>3, <1>4
<1>6. SumsUp(fold, w, S)
  <2> HIDE DEF fold
  <2> QED BY <1>3, <1>5
<1> HIDE DEF fold
<1>7. fold[S] = g[S]
  BY <1>4, <1>6, SumsAgree
<1> QED BY <1>1, <1>4, <1>7 DEF w

LEMMA SumEmpty == Sum({}) = 0
<1>1. IsFiniteSet({}) /\ \A e \in {} : e.points \in Int
  BY FS_EmptySet
<1> QED BY <1>1, SumIsTotal, TotalEmpty

LEMMA SumAdd ==
    ASSUME NEW S, IsFiniteSet(S), NEW f, f \notin S,
           \A e \in S \cup {f} : e.points \in Int
    PROVE  Sum(S \cup {f}) = f.points + Sum(S)
<1> DEFINE T == S \cup {f}
           w == Points(T)
           v == Points(S)
<1>1. IsFiniteSet(T)
  BY FS_AddElement
<1>2. /\ \A e \in T : w[e] = e.points /\ w[e] \in Int
      /\ \A e \in S : v[e] \in Int /\ v[e] = w[e]
  BY DEF Points
<1>3. Sum(T) = Total(w, T) /\ Sum(S) = Total(v, S)
  BY <1>1, SumIsTotal
<1> HIDE DEF w, v
<1>4. Total(w, T) = w[f] + Total(w, S)
  BY <1>2, TotalAdd
<1>5. Total(v, S) = Total(w, S)
  BY <1>2, TotalSame
<1>6. w[f] = f.points
  BY <1>2
<1> QED BY <1>3, <1>4, <1>5, <1>6

(* What the property says of one row.                                      *)
Optimum(score, P, E) ==
    (\A c \in P : c.strategy = "best") /\ (\A c, d \in P : c.sort = d.sort) =>
        /\ \E e \in E : e.points = score
        /\ \A c \in P, e \in E :
              IF c.sort = "ASC" THEN score <= e.points ELSE score >= e.points

LEMMA OptimumByRow ==
    ASSUME LedgerFits
    PROVE  BestIsOptimum
             <=> \A b \in DOMAIN scores : Optimum(scores[b].score, past[b[2]], Entries(b))
BY DEF BestIsOptimum, LedgerFits, Optimum, Always, SortsOneWay

LEMMA OptimumByRowNext ==
    ASSUME LedgerFits',
           \A b \in DOMAIN scores' : Optimum(scores'[b].score, past'[b[2]], Entries(b)')
    PROVE  BestIsOptimum'
BY DEF BestIsOptimum, LedgerFits, Optimum, Always, SortsOneWay, Entries

(* A mode that has had a configuration keeps its order or is exempt.       *)
LEMMA OptimumStays ==
    ASSUME NEW score, NEW P, P # {}, NEW PNext, P \subseteq PNext, NEW E, Optimum(score, P, E)
    PROVE  Optimum(score, PNext, E)
BY DEF Optimum

(* The best of the entries so far and a new one.                           *)
LEMMA OptimumImproves ==
    ASSUME NEW P, NEW c \in P, NEW E, NEW e, \A f \in E \cup {e} : f.points \in Nat,
           NEW old \in Nat, Optimum(old, P, E), c.sort \in {"ASC", "DESC"}
    PROVE  Optimum(IF Better(c.sort, e.points, old) THEN e.points ELSE old, P, E \cup {e})
<1> SUFFICES ASSUME \A d \in P : d.strategy = "best", \A d, f \in P : d.sort = f.sort
             PROVE  LET new == IF Better(c.sort, e.points, old) THEN e.points ELSE old
                    IN /\ \E f \in E \cup {e} : f.points = new
                       /\ \A d \in P, f \in E \cup {e} :
                             IF d.sort = "ASC" THEN new <= f.points ELSE new >= f.points
  BY DEF Optimum
<1>1. /\ \E f \in E : f.points = old
      /\ \A f \in E : IF c.sort = "ASC" THEN old <= f.points ELSE old >= f.points
      /\ \A d \in P : d.sort = c.sort
  BY DEF Optimum
<1>2. CASE Better(c.sort, e.points, old)
  BY <1>1, <1>2 DEF Better
<1>3. CASE ~Better(c.sort, e.points, old)
  BY <1>1, <1>3 DEF Better
<1> QED BY <1>2, <1>3

LEMMA NextBest ==
    TypeInv /\ CreditInv /\ BoardShowsWhatCounts /\ BestIsOptimum /\ [Next]_vars
        => BestIsOptimum'
<1> SUFFICES ASSUME TypeInv, CreditInv, BoardShowsWhatCounts, BestIsOptimum, [Next]_vars
             PROVE  BestIsOptimum'
  OBVIOUS
<1>1. /\ \A b \in DOMAIN scores :
            /\ b \in Buckets /\ b[2] \in Modes /\ past[b[2]] # {} /\ scores[b].score \in Nat
            /\ Optimum(scores[b].score, past[b[2]], Entries(b))
      /\ LedgerFits /\ LedgerFits'
  <2>1. LedgerFits /\ LedgerFits'
    BY NextCredit DEF CreditInv
  <2>2. \A b \in DOMAIN scores : Optimum(scores[b].score, past[b[2]], Entries(b))
    BY <2>1, OptimumByRow
  <2>3. \A b \in DOMAIN scores : past[b[2]] # {}
    BY DEF BoardShowsWhatCounts, RowShowsAnEntry, AdmittedByOne, Entries
  <2>4. \A b \in DOMAIN scores :
           b \in Buckets /\ b[2] \in Modes /\ scores[b].score \in Nat
    BY ScoresAssumption DEF TypeInv, TypeOK, Buckets, Row
  <2> QED BY <2>1, <2>2, <2>3, <2>4
<1>2. ASSUME Quiet PROVE BestIsOptimum'
  <2>1. \A b \in DOMAIN scores : Optimum(scores[b].score, past'[b[2]], Entries(b))
    BY <1>1, <1>2, OptimumStays DEF Quiet
  <2>2. \A b : Entries(b)' = Entries(b)
    BY <1>2 DEF Quiet, Entries
  <2> QED BY <1>1, <1>2, <2>1, <2>2, OptimumByRowNext DEF Quiet
<1>3. ASSUME NEW s \in Submissions, NEW c \in Configs, NEW now \in Nat,
             NEW pts \in 0..BigintMax, NEW run \in Keys \cup {NoRun}, NEW tier \in 0..3,
             NEW mark \in Marks, Write(s, c, now, pts, run, tier, mark)
      PROVE  BestIsOptimum'
  <2> DEFINE touched == BucketsOf(s.user, s.mode, now)
             e == NewEntry(s, pts, tier, now, mark)
             row == [score |-> pts, run |-> run, tier |-> tier]
  <2>1. /\ DOMAIN scores' = DOMAIN scores \cup touched
        /\ \A b \in DOMAIN scores \ touched : scores'[b] = scores[b]
        /\ \A b \in touched : scores'[b] = NewRow(b, c, pts, run, tier)
        /\ past' = past
    BY <1>3 DEF Write, ApplyScoreWrite, NewEntry
  <2>2. touched \subseteq Buckets /\ pts \in Nat
    <3>1. \A u \in Users, m \in Modes : BucketsOf(u, m, now) \subseteq Buckets
      BY BucketFacts
    <3>2. s.user \in Users /\ s.mode \in Modes
      BY SubmissionFacts
    <3> QED BY <3>1, <3>2, ScoresAssumption
  <2>3. \A b \in Buckets :
           /\ b \in touched => b[2] = s.mode /\ Entries(b)' = Entries(b) \cup {e}
           /\ b \notin touched => Entries(b)' = Entries(b)
           /\ b \notin DOMAIN scores => Entries(b) = {}
    BY <1>1, <1>3, EntriesAfter
  <2>4. /\ e.points = pts /\ c \in past[s.mode] /\ row.score = pts
        /\ c.sort \in {"ASC", "DESC"} /\ c.strategy \in {"best", "cumulative"}
    BY <1>3, <2>2, NewEntryFacts, ConfigFacts DEF Write
  <2>5. \A b : \A f \in Entries(b) : f.points \in Nat
    BY DEF Entries, TypeInv, TypeOK, Entry
  <2> HIDE DEF touched, e, row
  <2>6. ASSUME NEW b \in DOMAIN scores \ touched
        PROVE  Optimum(scores'[b].score, past'[b[2]], Entries(b)')
    BY <1>1, <2>1, <2>3
  <2>7. ASSUME NEW b \in touched, b \notin DOMAIN scores
        PROVE  Optimum(scores'[b].score, past'[b[2]], Entries(b)')
    <3>1. scores'[b].score = pts /\ Entries(b)' = {e}
      BY <2>1, <2>2, <2>3, <2>4, <2>7 DEF NewRow, row
    <3> QED BY <2>2, <2>4, <3>1 DEF Optimum
  <2>8. ASSUME NEW b \in touched, b \in DOMAIN scores
        PROVE  Optimum(scores'[b].score, past'[b[2]], Entries(b)')
    <3>1. /\ Entries(b)' = Entries(b) \cup {e} /\ past'[b[2]] = past[s.mode]
          /\ Optimum(scores[b].score, past[s.mode], Entries(b)) /\ scores[b].score \in Nat
      BY <1>1, <2>1, <2>2, <2>3, <2>8
    <3>2. CASE c.strategy = "cumulative"
      BY <2>4, <3>1, <3>2 DEF Optimum
    <3>3. CASE c.strategy = "best"
      <4>1. scores'[b].score = IF Better(c.sort, e.points, scores[b].score)
                                 THEN e.points ELSE scores[b].score
        BY <2>1, <2>4, <2>8, <3>3 DEF NewRow, row
      <4>2. \A f \in Entries(b) \cup {e} : f.points \in Nat
        BY <2>2, <2>4, <2>5
      <4>3. Optimum(IF Better(c.sort, e.points, scores[b].score) THEN e.points
                    ELSE scores[b].score, past[s.mode], Entries(b) \cup {e})
        BY <2>4, <3>1, <4>2, OptimumImproves
      <4> QED BY <3>1, <4>1, <4>3
    <3> QED BY <2>4, <3>2, <3>3
  <2> QED BY <1>1, <2>1, <2>6, <2>7, <2>8, OptimumByRowNext
<1>4. ASSUME NEW s \in Submissions, NEW c \in Configs, NEW now \in Nat,
             NEW mark \in Marks, RawWrite(s, c, now, mark)
      PROVE  BestIsOptimum'
  <2>1. s.body.claim \in 0..BigintMax /\ Write(s, c, now, s.body.claim, NoRun, 0, mark)
        /\ NoRun \in Keys \cup {NoRun} /\ 0 \in 0..3
    BY <1>4, SubmissionFacts DEF RawWrite
  <2> QED BY <1>3, <2>1
<1>5. ASSUME NEW s \in Submissions, NEW c \in Configs, NEW now \in Nat,
             NEW pts \in 0..BigintMax, NEW tier \in 0..3, RunWrite(s, c, now, pts, tier)
      PROVE  BestIsOptimum'
  <2>1. Write(s, c, now, pts, s.key, tier, Absent) /\ s.key \in Keys \cup {NoRun}
    BY <1>5 DEF RunWrite
  <2> QED BY <1>3, <2>1, AbsentMark
<1> QED BY <1>2, <1>4, <1>5, Steps

(* A cumulative row and its sum.                                           *)
IsTotal(score, P, E) == (\A c \in P : c.strategy = "cumulative") => score = Sum(E)

RowsAreTotals ==
    \A b \in DOMAIN scores : IsTotal(scores[b].score, past[b[2]], Entries(b))

LEMMA TotalByRow == CumulativeIsSum <=> RowsAreTotals
BY DEF CumulativeIsSum, RowsAreTotals, IsTotal, Always, Sum

LEMMA TotalByRowNext ==
    ASSUME \A b \in DOMAIN scores' : IsTotal(scores'[b].score, past'[b[2]], Entries(b)')
    PROVE  CumulativeIsSum'
<1>1. RowsAreTotals' => CumulativeIsSum'
  BY TotalByRow, PTL
<1> QED BY <1>1 DEF RowsAreTotals

LEMMA InitSum == Init => CumulativeIsSum
BY DEF Init, CumulativeIsSum

(* The increment of a write is not in the ledger yet.                      *)
LEMMA RawIsNew ==
    ASSUME TypeInv, CreditInv, NEW s \in Submissions, NEW c \in Configs, NEW now \in Nat,
           NEW mark \in Marks, RawWrite(s, c, now, mark),
           Always(s.mode, "cumulative")
    PROVE  NewEntry(s, s.body.claim, 0, now, mark) \notin ledger
<1>1. mark # Absent
  BY DEF RawWrite, Write, Always, Admits, NewEntry
<1>2. s.body.claim \in 0..BigintMax /\ s.body.claim \in Nat /\ 0 \in 0..3
  BY SubmissionFacts, ScoresAssumption DEF RawWrite
<1>3. Write(s, c, now, s.body.claim, NoRun, 0, mark) /\ NoRun \in Keys \cup {NoRun}
  BY DEF RawWrite
<1>4. ledger' = ledger \cup {NewEntry(s, s.body.claim, 0, now, mark)}
  BY <1>3 DEF Write, ApplyScoreWrite, NewEntry
<1> QED BY <1>1, <1>2, <1>4, NextPlace DEF CreditInv

LEMMA RunIsNew ==
    ASSUME TypeInv, CreditInv, NEW s \in Submissions, NEW c \in Configs, NEW now \in Nat,
           NEW pts \in 0..BigintMax, NEW tier \in 0..3, RunWrite(s, c, now, pts, tier)
    PROVE  NewEntry(s, pts, tier, now, Absent) \notin ledger
<1> DEFINE e == NewEntry(s, pts, tier, now, Absent)
<1>1. e.kind = "run" /\ EntryId(e) = RunId(s)
  <2>1. pts \in Nat /\ s.kind = "run"
    BY ScoresAssumption DEF RunWrite
  <2> QED BY <2>1, NewEntryFacts
<1> HIDE DEF e
<1>2. e \notin ledger
  BY <1>1 DEF RunWrite, CreditInv, RunHasCredit
<1> QED BY <1>2 DEF e

LEMMA NextSum == TypeInv /\ CreditInv /\ CumulativeIsSum /\ [Next]_vars => CumulativeIsSum'
<1> SUFFICES ASSUME TypeInv, CreditInv, CumulativeIsSum, [Next]_vars PROVE CumulativeIsSum'
  OBVIOUS
<1>1. /\ \A b \in DOMAIN scores :
            /\ b \in Buckets /\ b[2] \in Modes /\ scores[b].score \in Nat
            /\ IsTotal(scores[b].score, past[b[2]], Entries(b))
      /\ LedgerFits /\ IsFiniteSet(ledger)
  <2>1. \A b \in DOMAIN scores : IsTotal(scores[b].score, past[b[2]], Entries(b))
    BY TotalByRow DEF RowsAreTotals
  <2>2. \A b \in DOMAIN scores :
           b \in Buckets /\ b[2] \in Modes /\ scores[b].score \in Nat
    BY ScoresAssumption DEF TypeInv, TypeOK, Buckets, Row
  <2> QED BY <2>1, <2>2 DEF CreditInv, TypeInv, TypeOK
<1>2. ASSUME Quiet PROVE CumulativeIsSum'
  <2>1. \A b \in DOMAIN scores : IsTotal(scores[b].score, past'[b[2]], Entries(b))
    BY <1>1, <1>2 DEF Quiet, IsTotal
  <2>2. \A b : Entries(b)' = Entries(b)
    BY <1>2 DEF Quiet, Entries
  <2> QED BY <1>2, <2>1, <2>2, TotalByRowNext DEF Quiet
<1>3. ASSUME NEW s \in Submissions, NEW c \in Configs, NEW now \in Nat,
             NEW pts \in 0..BigintMax, NEW run \in Keys \cup {NoRun}, NEW tier \in 0..3,
             NEW mark \in Marks, Write(s, c, now, pts, run, tier, mark),
             Always(s.mode, "cumulative") => NewEntry(s, pts, tier, now, mark) \notin ledger
      PROVE  CumulativeIsSum'
  <2> DEFINE touched == BucketsOf(s.user, s.mode, now)
             e == NewEntry(s, pts, tier, now, mark)
             row == [score |-> pts, run |-> run, tier |-> tier]
  <2>1. /\ DOMAIN scores' = DOMAIN scores \cup touched
        /\ \A b \in DOMAIN scores \ touched : scores'[b] = scores[b]
        /\ \A b \in touched : scores'[b] = NewRow(b, c, pts, run, tier)
        /\ past' = past
    <3>1. Write(s, c, now, pts, run, tier, mark)
      BY <1>3
    <3> QED BY <3>1 DEF Write, ApplyScoreWrite
  <2>2. touched \subseteq Buckets /\ pts \in Nat
    <3>1. \A u \in Users, m \in Modes : BucketsOf(u, m, now) \subseteq Buckets
      BY BucketFacts
    <3>2. s.user \in Users /\ s.mode \in Modes
      BY SubmissionFacts
    <3> QED BY <3>1, <3>2, ScoresAssumption
  <2>3. \A b \in Buckets :
           /\ b \in touched => b[2] = s.mode /\ Entries(b)' = Entries(b) \cup {e}
           /\ b \notin touched => Entries(b)' = Entries(b)
           /\ b \notin DOMAIN scores => Entries(b) = {}
    BY <1>1, <1>3, EntriesAfter
  <2>4. /\ e.points = pts /\ c \in past[s.mode] /\ row.score = pts
        /\ \A x : [row EXCEPT !.score = x].score = x
    BY <1>3, <2>2, NewEntryFacts DEF Write
  <2>5. \A b : IsFiniteSet(Entries(b)) /\ \A f \in Entries(b) : f.points \in Nat
    <3> SUFFICES ASSUME NEW b
                 PROVE  IsFiniteSet(Entries(b)) /\ \A f \in Entries(b) : f.points \in Nat
      OBVIOUS
    <3>1. Entries(b) \subseteq ledger
      BY DEF Entries
    <3> QED BY <1>1, <3>1, FS_Subset DEF TypeInv, TypeOK, Entry
  <2>6. ASSUME NEW b \in Buckets, \A d \in past[s.mode] : d.strategy = "cumulative"
        PROVE  Sum(Entries(b) \cup {e}) = pts + Sum(Entries(b))
    <3>1. e \notin Entries(b)
      BY <1>3, <2>6 DEF Entries, Always
    <3>2. \A f \in Entries(b) \cup {e} : f.points \in Int
      <4> HIDE DEF e
      <4> QED BY <2>2, <2>4, <2>5
    <3> HIDE DEF e
    <3> QED BY <2>4, <2>5, <3>1, <3>2, SumAdd
  <2> HIDE DEF touched, e
  <2>7. ASSUME NEW b \in DOMAIN scores \ touched
        PROVE  IsTotal(scores'[b].score, past'[b[2]], Entries(b)')
    BY <1>1, <2>1, <2>3
  <2>8. ASSUME NEW b \in touched, b \notin DOMAIN scores
        PROVE  IsTotal(scores'[b].score, past'[b[2]], Entries(b)')
    <3>1. /\ scores'[b].score = pts /\ past'[b[2]] = past[s.mode]
          /\ Entries(b)' = Entries(b) \cup {e} /\ Entries(b) = {}
      BY <2>1, <2>2, <2>3, <2>4, <2>8 DEF NewRow
    <3>2. pts + Sum({}) = pts
      BY <2>2, SumEmpty
    <3>3. b \in Buckets
      BY <2>2, <2>8
    <3> QED BY <2>6, <3>1, <3>2, <3>3 DEF IsTotal
  <2>9. ASSUME NEW b \in touched, b \in DOMAIN scores
        PROVE  IsTotal(scores'[b].score, past'[b[2]], Entries(b)')
    <3> SUFFICES ASSUME \A d \in past'[b[2]] : d.strategy = "cumulative"
                 PROVE  scores'[b].score = Sum(Entries(b)')
      BY DEF IsTotal
    <3>1. /\ b \in Buckets /\ past'[b[2]] = past[s.mode] /\ past[b[2]] = past[s.mode]
          /\ Entries(b)' = Entries(b) \cup {e}
      BY <2>1, <2>2, <2>3, <2>9
    <3>2. c.strategy = "cumulative" /\ scores[b].score = Sum(Entries(b))
      BY <1>1, <2>4, <2>9, <3>1 DEF IsTotal
    <3>3. scores'[b].score = scores[b].score + pts
      BY <2>1, <2>4, <2>9, <3>2 DEF NewRow
    <3>4. Sum(Entries(b) \cup {e}) = pts + Sum(Entries(b))
      BY <2>6, <3>1
    <3>5. scores[b].score \in Nat
      BY <1>1, <2>9
    <3> QED BY <2>2, <3>1, <3>2, <3>3, <3>4, <3>5
  <2> QED BY <2>1, <2>7, <2>8, <2>9, TotalByRowNext
<1>4. ASSUME NEW s \in Submissions, NEW c \in Configs, NEW now \in Nat,
             NEW mark \in Marks, RawWrite(s, c, now, mark)
      PROVE  CumulativeIsSum'
  <2>1. s.body.claim \in 0..BigintMax /\ Write(s, c, now, s.body.claim, NoRun, 0, mark)
        /\ NoRun \in Keys \cup {NoRun} /\ 0 \in 0..3
    BY <1>4, SubmissionFacts DEF RawWrite
  <2>2. Always(s.mode, "cumulative") => NewEntry(s, s.body.claim, 0, now, mark) \notin ledger
    BY <1>4, RawIsNew
  <2> QED BY <1>3, <2>1, <2>2
<1>5. ASSUME NEW s \in Submissions, NEW c \in Configs, NEW now \in Nat,
             NEW pts \in 0..BigintMax, NEW tier \in 0..3, RunWrite(s, c, now, pts, tier)
      PROVE  CumulativeIsSum'
  <2>1. Write(s, c, now, pts, s.key, tier, Absent) /\ s.key \in Keys \cup {NoRun}
    BY <1>5 DEF RunWrite
  <2>2. NewEntry(s, pts, tier, now, Absent) \notin ledger
    BY <1>5, RunIsNew
  <2> QED BY <1>3, <2>1, <2>2, AbsentMark
<1> QED BY <1>2, <1>4, <1>5, Steps

LEMMA InitBest == Init => BestIsOptimum
BY DEF Init, BestIsOptimum

(* BoardIsExact, which ScoresBoards checks: a best board shows the best of *)
(* the scores accepted for each bucket and a cumulative one their sum,     *)
(* whatever requests overlap and whichever side of midnight each commits.  *)
THEOREM BoardsAreExact == Spec => []BoardIsExact
<1>1. CumulativeIsSum /\ BestIsOptimum => BoardIsExact
  BY DEF BoardIsExact
<1>2. CreditInv => LedgerFits
  BY DEF CreditInv
<1> QED BY <1>1, <1>2, InitType, NextType, InitCredit, NextCredit, InitShows, NextShows,
           InitBest, NextBest, InitSum, NextSum, PTL DEF Spec

-----------------------------------------------------------------------------
(* 6. Answers.  What a handler has found committed stays so: the ledger,   *)
(* the runs and the configurations only grow.                              *)

Standing(s, L, P) ==
    \E e \in L : /\ e.kind = s.kind /\ EntryId(e) = RunId(s)
                 /\ (\A c \in P[s.mode] : c.strategy = "best") /\ s.kind = "raw" =>
                       e.points = s.body.claim

Rejection(s, R) == RunId(s) \in DOMAIN R /\ R[RunId(s)].status = "rejected"

(* What a handler answers, or is about to, is on record.                   *)
Truthful(q, L, P, R) ==
    /\ q.pc = "fetch" => Standing(q.sub, L, P)
    /\ q.pc = "done" => /\ q.answer # "missing"
                        /\ q.answer = "standing" => Standing(q.sub, L, P)
                        /\ q.answer = "rejected" => Rejection(q.sub, R)

AnswersInv == \A r \in Reqs : Truthful(req[r], ledger, past, runs)

LEMMA TruthStays ==
    ASSUME NEW q, NEW L, NEW P, NEW R, NEW LNext, NEW PNext, NEW RNext, Truthful(q, L, P, R),
           q.pc # "idle" => q.sub.mode \in Modes,
           L \subseteq LNext, \A m \in Modes : P[m] \subseteq PNext[m],
           \A k \in DOMAIN R : k \in DOMAIN RNext /\ RNext[k] = R[k]
    PROVE  Truthful(q, LNext, PNext, RNext)
<1>1. q.sub.mode \in Modes /\ Standing(q.sub, L, P) => Standing(q.sub, LNext, PNext)
  BY DEF Standing
<1>2. Rejection(q.sub, R) => Rejection(q.sub, RNext)
  BY DEF Rejection
<1> QED BY <1>1, <1>2 DEF Truthful

LEMMA HistoryGrows ==
    ASSUME TypeInv, [Next]_vars
    PROVE  /\ ledger \subseteq ledger' /\ \A m \in Modes : past[m] \subseteq past'[m]
           /\ \A k \in DOMAIN runs : k \in DOMAIN runs' /\ runs'[k] = runs[k]
<1> DEFINE Goal == /\ ledger \subseteq ledger' /\ \A m \in Modes : past[m] \subseteq past'[m]
                   /\ \A k \in DOMAIN runs : k \in DOMAIN runs' /\ runs'[k] = runs[k]
<1>1. ASSUME Quiet PROVE Goal
  BY <1>1 DEF Quiet, Inserted
<1>2. ASSUME NEW s \in Submissions, NEW c \in Configs, NEW now \in Nat,
             NEW mark \in Marks, RawWrite(s, c, now, mark)
      PROVE  Goal
  BY <1>2 DEF RawWrite, Write, ApplyScoreWrite
<1>3. ASSUME NEW s \in Submissions, NEW c \in Configs, NEW now \in Nat,
             NEW pts \in 0..BigintMax, NEW tier \in 0..3, RunWrite(s, c, now, pts, tier)
      PROVE  Goal
  BY <1>3 DEF RunWrite, Write, ApplyScoreWrite, Inserted
<1> QED BY <1>1, <1>2, <1>3, Steps

LEMMA InitAnswers == Init => AnswersInv
BY DEF Init, AnswersInv, Truthful, Idle

(* One handler moves to a phase of which it knows enough.                  *)
LEMMA OneMoves ==
    ASSUME TypeInv, AnswersInv, [Next]_vars, NEW r \in Reqs, NEW q,
           req' = [req EXCEPT ![r] = q], Truthful(q, ledger', past', runs')
    PROVE  AnswersInv'
<1>1. \A p \in Reqs : req[p].pc # "idle" => req[p].sub.mode \in Modes
  BY RequestFields, SubmissionFacts DEF TypeInv, TypeOK
<1>2. \A p \in Reqs : Truthful(req[p], ledger', past', runs')
  BY <1>1, HistoryGrows, TruthStays DEF AnswersInv
<1>3. \A p \in Reqs : req'[p] = IF p = r THEN q ELSE req[p]
  BY DEF TypeInv, TypeOK
<1> QED BY <1>2, <1>3 DEF AnswersInv

LEMMA NoneMoves ==
    ASSUME TypeInv, AnswersInv, [Next]_vars, req' = req
    PROVE  AnswersInv'
<1>1. \A p \in Reqs : req[p].pc # "idle" => req[p].sub.mode \in Modes
  BY RequestFields, SubmissionFacts DEF TypeInv, TypeOK
<1>2. \A p \in Reqs : Truthful(req[p], ledger', past', runs')
  BY <1>1, HistoryGrows, TruthStays DEF AnswersInv
<1> QED BY <1>2 DEF AnswersInv

(* The phases that claim nothing, and those that claim something.          *)
LEMMA EndsTruthful ==
    ASSUME NEW s, NEW L, NEW P, NEW R
    PROVE  /\ Truthful(Idle, L, P, R)
           /\ Standing(s, L, P) => /\ Truthful([pc |-> "fetch", sub |-> s], L, P, R)
                                   /\ Truthful([pc |-> "done", sub |-> s,
                                                answer |-> "standing"], L, P, R)
           /\ Rejection(s, R) =>
                Truthful([pc |-> "done", sub |-> s, answer |-> "rejected"], L, P, R)
BY DEF Truthful, Idle

LEMMA RefuseTrue ==
    ASSUME TypeInv, AnswersInv, [Next]_vars, NEW r \in Reqs, Refuse(r)
    PROVE  AnswersInv'
<1>1. req' = [req EXCEPT ![r] = Idle]
  BY DEF Refuse
<1>2. Truthful(Idle, ledger', past', runs')
  BY EndsTruthful
<1> QED BY <1>1, <1>2, OneMoves

LEMMA CommittedTrue ==
    ASSUME TypeInv, AnswersInv, [Next]_vars, NEW r \in Reqs,
           req' = [req EXCEPT ![r] = [pc |-> "fetch", sub |-> req[r].sub]],
           Standing(req[r].sub, ledger', past')
    PROVE  AnswersInv'
<1>1. Truthful([pc |-> "fetch", sub |-> req[r].sub], ledger', past', runs')
  BY EndsTruthful
<1> QED BY <1>1, OneMoves

LEMMA RejectedTrue ==
    ASSUME TypeInv, AnswersInv, [Next]_vars, NEW r \in Reqs, Answer(r, "rejected"),
           Rejection(req[r].sub, runs')
    PROVE  AnswersInv'
<1>1. req' = [req EXCEPT ![r] = [pc |-> "done", sub |-> req[r].sub, answer |-> "rejected"]]
  BY DEF Answer
<1>2. Truthful([pc |-> "done", sub |-> req[r].sub, answer |-> "rejected"],
               ledger', past', runs')
  BY EndsTruthful
<1> QED BY <1>1, <1>2, OneMoves

(* A finished run answers with what it came to.                            *)
LEMMA ReplayTrue ==
    ASSUME TypeInv, CreditInv, AnswersInv, [Next]_vars, NEW r \in Reqs, req[r].sub.kind = "run",
           RunId(req[r].sub) \in DOMAIN runs, Replay(r, RunId(req[r].sub)),
           UNCHANGED <<runs, ledger>>
    PROVE  AnswersInv'
<1> DEFINE s == req[r].sub
           id == RunId(s)
<1>1. runs[id].status \in {"validated", "rejected"}
  BY DEF TypeInv, TypeOK, RunRow
<1>2. CASE runs[id].status = "validated"
  <2>1. req' = [req EXCEPT ![r] = [pc |-> "fetch", sub |-> s]]
    BY <1>2 DEF Replay
  <2>2. \E e \in ledger : e.kind = "run" /\ EntryId(e) = id
    BY <1>2 DEF CreditInv, RunHasCredit
  <2>3. Standing(s, ledger', past')
    BY <2>2 DEF Standing
  <2> QED BY <2>1, <2>3, CommittedTrue
<1>3. CASE runs[id].status = "rejected"
  <2>1. Answer(r, "rejected")
    BY <1>3 DEF Replay
  <2>2. Rejection(s, runs')
    BY <1>3 DEF Rejection
  <2> QED BY <2>1, <2>2, RejectedTrue
<1> QED BY <1>1, <1>2, <1>3

LEMMA NextAnswers == TypeInv /\ CreditInv /\ AnswersInv /\ [Next]_vars => AnswersInv'
<1> SUFFICES ASSUME TypeInv, CreditInv, AnswersInv, [Next]_vars PROVE AnswersInv'
  OBVIOUS
<1>0. /\ \A r \in Reqs : req[r] \in Request /\ Sound(req[r], users, guests, past)
      /\ \A r \in Reqs : req[r].pc # "idle" => req[r].sub \in Submissions
  BY RequestFields DEF TypeInv, TypeOK, HandlersSound
<1>1. ASSUME UNCHANGED req PROVE AnswersInv'
  BY <1>1, NoneMoves
<1>2. ASSUME NEW r \in Reqs, NEW s \in Submissions, NEW g \in BOOLEAN, Receive(r, s, g)
      PROVE  AnswersInv'
  <2> DEFINE q == [pc |-> "received", sub |-> s, guest |-> g, now |-> day]
  <2>1. req' = [req EXCEPT ![r] = q]
    BY <1>2 DEF Receive
  <2>2. Truthful(q, ledger', past', runs')
    BY DEF Truthful
  <2> QED BY <2>1, <2>2, OneMoves
<1>3. ASSUME NEW r \in Reqs, ReadMode(r) PROVE AnswersInv'
  <2> DEFINE s == req[r].sub
             c == modes[s.mode]
             q == IF s.kind = "raw"
                    THEN [pc |-> "write", sub |-> s, cfg |-> c, now |-> req[r].now,
                          began |-> day]
                    ELSE [pc |-> "lookup", sub |-> s, cfg |-> c, now |-> req[r].now]
  <2>1. CASE req' = [req EXCEPT ![r] = q]
    <3>1. q.pc \in {"write", "lookup"}
      OBVIOUS
    <3> HIDE DEF q
    <3>2. Truthful(q, ledger', past', runs')
      BY <3>1 DEF Truthful
    <3> QED BY <2>1, <3>2, OneMoves
  <2> QED BY <1>3, <2>1, RefuseTrue DEF ReadMode
<1>4. ASSUME NEW r \in Reqs, LookupRun(r) PROVE AnswersInv'
  <2>1. /\ req[r].pc = "lookup" /\ req[r].sub.kind = "run" /\ UNCHANGED <<runs, ledger>>
    BY <1>0, <1>4 DEF LookupRun, Sound, tables
  <2>2. CASE req' = [req EXCEPT ![r].pc = "insert"]
    <3>1. PICK q \in Request : q = [req[r] EXCEPT !.pc = "insert"] /\ q.pc = "insert"
      BY <1>0, <2>1, RequestFields
    <3>2. req' = [req EXCEPT ![r] = q]
      BY <2>2, <3>1
    <3>3. Truthful(q, ledger', past', runs')
      BY <3>1 DEF Truthful
    <3> QED BY <3>2, <3>3, OneMoves
  <2>3. CASE RunId(req[r].sub) \in DOMAIN runs /\ Replay(r, RunId(req[r].sub))
    BY <2>1, <2>3, ReplayTrue
  <2> QED BY <1>4, <2>2, <2>3 DEF LookupRun
<1>5. ASSUME NEW r \in Reqs, CommitScore(r) PROVE AnswersInv'
  <2> DEFINE s == req[r].sub
             c == req[r].cfg
             now == req[r].now
             id == RunId(s)
             mark == Mark(c, req[r].began)
  <2>1. /\ req[r].pc = "write" /\ s.kind = "raw" /\ c \in past[s.mode] /\ past' = past
        /\ s \in Submissions /\ now \in Nat /\ mark \in Marks
    BY <1>0, <1>5, RequestFields, MarkFacts DEF CommitScore, Sound
  <2>2. CASE Duplicate(s, c) /\ Committed(r) /\ UNCHANGED ledger
    <3>1. c.strategy # "best" /\ \E e \in ledger : e.kind = "raw" /\ EntryId(e) = id
      BY <2>2 DEF Duplicate, CreditInv, MarkerHasCredit
    <3>2. Standing(s, ledger', past')
      BY <2>1, <2>2, <3>1 DEF Standing
    <3> QED BY <2>2, <3>2, CommittedTrue DEF Committed
  <2>3. CASE Committed(r) /\ ApplyScoreWrite(s, c, now, s.body.claim, NoRun, 0, mark)
    <3>1. NewEntry(s, s.body.claim, 0, now, mark) \in ledger'
      BY <2>3 DEF ApplyScoreWrite, NewEntry
    <3>2. s.body.claim \in Nat /\ 0 \in 0..3
      BY <2>1, SubmissionFacts, ScoresAssumption
    <3>3. LET e == NewEntry(s, s.body.claim, 0, now, mark)
          IN e.kind = s.kind /\ EntryId(e) = RunId(s) /\ e.points = s.body.claim
      BY <2>1, <3>2, NewEntryFacts
    <3>4. Standing(s, ledger', past')
      BY <3>1, <3>3 DEF Standing
    <3> QED BY <2>3, <3>4, CommittedTrue DEF Committed
  <2> QED BY <1>5, <2>2, <2>3, RefuseTrue DEF CommitScore
<1>6. ASSUME NEW r \in Reqs, CommitRun(r) PROVE AnswersInv'
  <2> DEFINE s == req[r].sub
             c == req[r].cfg
             now == req[r].now
             id == RunId(s)
             v == Validate(s.body, c)
  <2>1. /\ req[r].pc = "insert" /\ s.kind = "run" /\ s \in Submissions /\ now \in Nat
        /\ c \in Configs
    BY <1>0, <1>6, RequestFields DEF CommitRun, Sound
  <2>2. CASE id \in DOMAIN runs /\ Replay(r, id) /\ UNCHANGED <<runs, ledger>>
    BY <2>1, <2>2, ReplayTrue
  <2>3. CASE v.status = "rejected" /\ Answer(r, "rejected") /\ runs' = Inserted(id, v)
    <3>1. Rejection(s, runs')
      <4> HIDE DEF v
      <4> QED BY <2>3 DEF Rejection, Inserted
    <3> QED BY <2>3, <3>1, RejectedTrue
  <2>4. CASE /\ v.status = "validated" /\ Committed(r)
             /\ ApplyScoreWrite(s, c, now, v.score, s.key, v.tier, Absent)
    <3>1. NewEntry(s, v.score, v.tier, now, Absent) \in ledger'
      BY <2>4 DEF ApplyScoreWrite, NewEntry
    <3>2. s.body \in RunBody
      BY <2>1, SubmissionFacts
    <3>3. v.score \in Nat /\ v.tier \in 0..3
      BY <2>1, <2>4, <3>2, ValidateFacts, ScoresAssumption DEF RunRow
    <3> HIDE DEF v
    <3>4. LET e == NewEntry(s, v.score, v.tier, now, Absent)
          IN e.kind = "run" /\ EntryId(e) = RunId(s)
      BY <2>1, <3>3, NewEntryFacts
    <3>5. Standing(s, ledger', past')
      BY <2>1, <3>1, <3>4 DEF Standing
    <3> QED BY <2>4, <3>5, CommittedTrue DEF Committed
  <2> QED BY <1>6, <2>2, <2>3, <2>4, RefuseTrue DEF CommitRun, Inserted
<1>7. ASSUME NEW r \in Reqs, FetchStanding(r) PROVE AnswersInv'
  <2> DEFINE s == req[r].sub
             q == [pc |-> "done", sub |-> s, answer |-> "standing"]
  <2>1. /\ req[r].pc = "fetch" /\ UNCHANGED <<past, ledger>> /\ Standing(s, ledger, past)
        /\ s.user \in Users /\ s.mode \in Modes
    BY <1>0, <1>7, SubmissionFacts DEF FetchStanding, AnswersInv, Truthful, tables
  <2>2. PICK e \in ledger : e.user = s.user /\ e.mode = s.mode
    BY <2>1 DEF Standing, EntryId, RunId
  <2>3. <<s.user, s.mode, "alltime", 0>> \in BucketsOf(s.user, s.mode, e.now)
    BY <2>1, BucketFacts DEF TypeInv, TypeOK, Entry
  <2>4. <<s.user, s.mode, "alltime", 0>> \in DOMAIN scores
    BY <2>2, <2>3 DEF CreditInv, LedgerFits
  <2>5. req' = [req EXCEPT ![r] = q]
    BY <1>7, <2>4 DEF FetchStanding, Answer
  <2>6. Truthful(q, ledger', past', runs')
    BY <2>1, EndsTruthful
  <2> QED BY <2>5, <2>6, OneMoves
<1>8. ASSUME NEW r \in Reqs, Lose(r) PROVE AnswersInv'
  BY <1>8, RefuseTrue DEF Lose
<1>9. ASSUME \/ \E m \in Modes, c \in Configs : CreateGameMode(m, c)
             \/ \E u \in Users : ClaimAccount(u)
             \/ PruneKeys \/ SelectGuests \/ DeleteGuests \/ NextDay
      PROVE  AnswersInv'
  BY <1>1, <1>9
  DEF CreateGameMode, ClaimAccount, PruneKeys, SelectGuests, DeleteGuests, NextDay
<1> QED BY <1>1, <1>2, <1>3, <1>4, <1>5, <1>6, <1>7, <1>8, <1>9 DEF Next, vars

(* AnswersAreTrue, which ScoresBoards checks: a standing is given only to  *)
(* a request whose score or key is on the board, a rejection only for a    *)
(* run rejected on the record, and no row is missing after its commit.     *)
THEOREM AnswersTellTheTruth == Spec => []AnswersAreTrue
<1>1. AnswersInv => AnswersAreTrue
  BY DEF AnswersInv, AnswersAreTrue, Truthful, Standing, Rejection, Always
<1> QED BY <1>1, InitType, NextType, InitCredit, NextCredit, InitAnswers, NextAnswers,
           PTL DEF Spec

=============================================================================
