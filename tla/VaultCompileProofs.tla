------------------------- MODULE VaultCompileProofs -------------------------
(***************************************************************************)
(* Theorems about VaultCompile, for any number of notes, pages, compile    *)
(* runs and requests, and any number of revisions and stamps.              *)
(*                                                                         *)
(* Section 1 has facts about requests and tables, section 2 the types and  *)
(* who may open a run, section 3 what a run may still write, section 4     *)
(* that no change is lost to the planner, and section 5 that runs end.     *)
(***************************************************************************)
EXTENDS VaultCompile, TLAPS

-----------------------------------------------------------------------------
(* 1. Requests and tables.                                                 *)

(* The columns that the step a request is at has.                          *)
LEMMA RequestColumns ==
    ASSUME NEW q \in Request
    PROVE  /\ q.pc \in {"idle", "write", "plan", "page", "refuse", "decline"}
           /\ q.pc = "write" => q.note \in Notes /\ q.at \in Stamps
           /\ q.pc = "plan" => /\ q.run \in Runs /\ q.at \in Stamps
                               /\ q \in [pc : {"plan"}, run : Runs, at : Stamps,
                                         listed : SUBSET PageTables]
           /\ q.pc = "page" => q.run \in Runs /\ q.page \in Pages /\ q.from \in Revisions
           /\ q.pc = "refuse" => q.run \in Runs /\ q.from \in Revisions
           /\ q.pc = "decline" => /\ q.run \in Runs /\ q.at \in Stamps /\ q.from \in Revisions
                                  /\ q.behind \in SUBSET Notes
BY DEF Request, Idle

LEMMA RevisionsAre ==
    ASSUME NEW f \in Revisions
    PROVE  /\ DOMAIN f \subseteq Notes /\ f \in [DOMAIN f -> 1..MaxRev]
           /\ \A n \in DOMAIN f : f[n] \in 1..MaxRev
BY DEF Revisions

(* Every step that ends a request leaves it idle.                          *)
LEMMA IdleRequest == Idle \in Request /\ Idle.pc = "idle"
BY DEF Request, Idle

LEMMA WithFacts ==
    ASSUME NEW f, NEW x, NEW y
    PROVE  /\ DOMAIN With(f, x, y) = DOMAIN f \cup {x}
           /\ With(f, x, y)[x] = y
           /\ \A z \in DOMAIN f : z # x => With(f, x, y)[z] = f[z]
BY DEF With

LEMMA WithTypes ==
    ASSUME NEW f, NEW x, NEW T, f \in [DOMAIN f -> T], NEW y \in T
    PROVE  With(f, x, y) \in [DOMAIN With(f, x, y) -> T]
BY DEF With

LEMMA WithoutFacts ==
    ASSUME NEW f, NEW S
    PROVE  /\ DOMAIN Without(f, S) = DOMAIN f \ S
           /\ \A z \in DOMAIN f \ S : Without(f, S)[z] = f[z]
BY DEF Without

-----------------------------------------------------------------------------
(* 2. Types, and who opens a run.                                          *)

Reads(r) == req[r].pc \in {"page", "refuse", "decline"}

(* A run is opened once, and a request that writes for a run finds its     *)
(* row; inflight is recorded before the run is.                            *)
RunsOpenOnce ==
    /\ \A r \in Reqs : req[r].pc = "plan" =>
          req[r].run \notin DOMAIN runs /\ req[r].run \in DOMAIN inflight
    /\ \A r, q \in Reqs : req[r].pc = "plan" /\ req[q].pc = "plan" /\ req[r].run = req[q].run
                             => r = q
    /\ \A r \in Reqs : Reads(r) => req[r].run \in DOMAIN runs
    /\ DOMAIN runs \subseteq DOMAIN inflight

(* Every stamp was taken, and a refusal's is later than its run's.         *)
StampsPassed ==
    /\ \A n \in DOMAIN notes : notes[n].updated < now /\ notes[n].declined < now
    /\ \A run \in DOMAIN runs : runs[run].started < now
    /\ \A r \in Reqs : req[r].pc \in {"write", "plan", "decline"} => req[r].at < now
    /\ \A r \in Reqs : req[r].pc = "decline" => runs[req[r].run].started < req[r].at

(* A note that a page or a request names is there, or is gone for good;    *)
(* and while it is there it stands.                                        *)
NotesStay ==
    /\ \A p \in DOMAIN pages : pages[p].sources \subseteq DOMAIN notes \cup gone
    /\ \A r \in Reqs : Reads(r) =>
          /\ DOMAIN req[r].from \subseteq DOMAIN notes \cup gone
          /\ \A n \in DOMAIN req[r].from : n \in DOMAIN notes => Active(n)

TypeInv == TypeOK /\ RunsOpenOnce /\ StampsPassed /\ NotesStay

(* A page or a request knows the revision of a note, unless the note's     *)
(* last change was being written when the run was opened.                  *)
Knows(run, n, rev) ==
    notes[n].updated <= runs[run].started => notes[n].rev = rev \/ n \in inflight[run]

(* A writer that began before a run did was seen by it.                    *)
WritersInFlight ==
    /\ \A r \in Reqs, run \in DOMAIN runs :
          req[r].pc = "write" /\ req[r].at <= runs[run].started => req[r].note \in inflight[run]
    /\ \A r, q \in Reqs :
          req[r].pc = "write" /\ req[q].pc = "plan" /\ req[r].at <= req[q].at
             => req[r].note \in inflight[req[q].run]
RequestsKnow ==
    \A r \in Reqs : req[r].pc = "page" =>
       \A n \in DOMAIN req[r].from \cap DOMAIN notes : Knows(req[r].run, n, req[r].from[n])
PagesKnow ==
    \A p \in DOMAIN pages :
       \A n \in pages[p].sources \cap DOMAIN notes : Knows(pages[p].run, n, basis[p][n])
SeenOrInFlight == WritersInFlight /\ RequestsKnow /\ PagesKnow
Based == DOMAIN basis = DOMAIN pages

(* The same of a refusal, and of the notes being written at its stamp.     *)
RefusedWereRead ==
    \A n \in DOMAIN notes : notes[n].declined # Never =>
       /\ n \in DOMAIN refused
       /\ notes[n].updated <= notes[n].declined => refused[n] = notes[n].rev \/ n \in unseen
WritersBehind ==
    \A r \in Reqs :
       req[r].pc = "write" /\ req[r].note \in DOMAIN notes
       /\ req[r].at <= notes[req[r].note].declined => req[r].note \in unseen
RefusalsKnow ==
    \A q \in Reqs : req[q].pc = "decline" =>
       /\ \A n \in DOMAIN req[q].from \cap DOMAIN notes :
             notes[n].updated <= req[q].at
                => notes[n].rev = req[q].from[n] \/ n \in req[q].behind
       /\ \A r \in Reqs :
             req[r].pc = "write" /\ req[r].note \in DOMAIN req[q].from
             /\ req[r].at <= req[q].at => req[r].note \in req[q].behind
RefusalsAreRead == RefusedWereRead /\ WritersBehind /\ RefusalsKnow

(* While a run is the only one and no note has changed, what it has not    *)
(* dealt with includes everything a plan would offer.                      *)
OffersAreTodo ==
    \A run \in DOMAIN todo :
       /\ run \in DOMAIN runs /\ Running \subseteq {run}
       /\ \A n \in DOMAIN notes : notes[n].updated < runs[run].started
       /\ PlanItems(pages, FALSE) \subseteq todo[run]

-----------------------------------------------------------------------------
LEMMA InitTypeInv == Init => TypeInv
<1> SUFFICES ASSUME Init PROVE TypeInv
  OBVIOUS
<1> USE DEF Init
<1>1. DOMAIN << >> = {}
  OBVIOUS
<1>2. /\ pages \in [DOMAIN pages -> Page] /\ DOMAIN pages = {}
      /\ runs \in [DOMAIN runs -> Run] /\ DOMAIN runs = {}
  BY <1>1
<1>3. \A n \in DOMAIN notes : /\ notes[n] \in Note /\ notes[n].updated = -1
                              /\ notes[n].declined = -1
  BY CompileAssumption DEF Note, Never
<1>4. notes \in [DOMAIN notes -> Note] /\ DOMAIN notes \subseteq Notes \ gone
  BY <1>3, CompileAssumption
<1>5. \A r \in Reqs : req[r] = Idle /\ req[r].pc = "idle"
  BY IdleRequest
<1>6. req \in [Reqs -> Request]
  BY IdleRequest
<1>7. now = 0 /\ now \in Stamps
  BY CompileAssumption DEF Stamps
<1>8. TypeOK
  BY <1>2, <1>4, <1>6, <1>7 DEF TypeOK
<1>9. RunsOpenOnce
  BY <1>2, <1>5 DEF RunsOpenOnce, Reads
<1>10. StampsPassed
  BY <1>2, <1>3, <1>5, <1>7 DEF StampsPassed
<1>11. NotesStay
  BY <1>2, <1>5 DEF NotesStay, Reads
<1> QED BY <1>8, <1>9, <1>10, <1>11 DEF TypeInv

(* What the rows hold, field by field.                                     *)
LEMMA Rows ==
    ASSUME TypeOK
    PROVE  /\ \A n \in DOMAIN notes :
                /\ n \in Notes /\ n \notin gone
                /\ notes[n] \in Note
                /\ notes[n].rev \in 1..MaxRev /\ notes[n].status \in {"active", "flagged"}
                /\ notes[n].updated \in Stamps \cup {Never}
                /\ notes[n].declined \in Stamps \cup {Never}
           /\ \A p \in DOMAIN pages :
                /\ p \in Pages /\ pages[p] \in Page
                /\ pages[p].sources \subseteq Notes /\ pages[p].run \in DOMAIN runs
                /\ pages[p].compiled = runs[pages[p].run].started
           /\ \A run \in DOMAIN runs :
                /\ run \in Runs /\ runs[run] \in Run
                /\ runs[run].state \in {"running", "succeeded", "failed"}
                /\ runs[run].started \in Stamps
           /\ \A r \in Reqs : req[r] \in Request
           /\ now \in Stamps
<1>1. \A n \in DOMAIN notes : notes[n] \in Note /\ n \in Notes /\ n \notin gone
  BY DEF TypeOK
<1>2. \A p \in DOMAIN pages : /\ p \in Pages /\ pages[p] \in Page /\ pages[p].run \in DOMAIN runs
                              /\ pages[p].compiled = runs[pages[p].run].started
  BY DEF TypeOK
<1>3. \A run \in DOMAIN runs : run \in Runs /\ runs[run] \in Run
  BY DEF TypeOK
<1>4. (\A r \in Reqs : req[r] \in Request) /\ now \in Stamps
  BY DEF TypeOK
<1>5. \A n \in DOMAIN notes :
         /\ notes[n].rev \in 1..MaxRev /\ notes[n].status \in {"active", "flagged"}
         /\ notes[n].updated \in Stamps \cup {Never}
         /\ notes[n].declined \in Stamps \cup {Never}
  BY <1>1 DEF Note
<1>6. \A p \in DOMAIN pages : pages[p].sources \subseteq Notes
  BY <1>2 DEF Page
<1>7. \A run \in DOMAIN runs : /\ runs[run].state \in {"running", "succeeded", "failed"}
                               /\ runs[run].started \in Stamps
  BY <1>3 DEF Run
<1> QED BY <1>1, <1>2, <1>3, <1>4, <1>5, <1>6, <1>7

LEMMA ReadingIs ==
    ASSUME TypeOK, NEW S \in SUBSET Notes, \A n \in S : Active(n)
    PROVE  Reading(S) \in Revisions /\ DOMAIN Reading(S) = S
           /\ \A n \in S : Reading(S)[n] = notes[n].rev
<1>1. \A n \in S : n \in DOMAIN notes /\ notes[n].rev \in 1..MaxRev
  BY Rows DEF Active
<1>2. Reading(S) \in [S -> 1..MaxRev]
  BY <1>1 DEF Reading
<1> QED BY <1>2 DEF Reading, Revisions

(* A writer begins.                                                        *)
LEMMA BeginWriteTypeInv ==
    ASSUME TypeInv, NEW r \in Reqs, NEW n \in Notes, BeginWrite(r, n)
    PROVE  TypeInv'
<1> DEFINE q == [pc |-> "write", note |-> n, at |-> now]
<1>1. /\ req' = [req EXCEPT ![r] = q] /\ now < MaxTime /\ now' = now + 1 /\ n \notin gone
      /\ UNCHANGED <<notes, pages, runs, gone, inflight>>
  BY DEF BeginWrite, Stamp, Goto, tables, history
<1>2. TypeOK /\ now \in Stamps /\ req \in [Reqs -> Request]
  BY Rows DEF TypeInv, TypeOK
<1>3. now' \in Stamps /\ now \in Int
  BY <1>1, <1>2, CompileAssumption DEF Stamps
<1>4. q \in Request /\ q.pc = "write" /\ q.at = now
  BY <1>2 DEF Request
<1> HIDE DEF q
<1>5. /\ req' \in [Reqs -> Request] /\ req'[r] = q
      /\ \A x \in Reqs : x # r => req'[x] = req[x]
  BY <1>1, <1>2, <1>4
<1>6. TypeOK'
  BY <1>1, <1>2, <1>3, <1>5 DEF TypeOK
<1>7. RunsOpenOnce'
  BY <1>1, <1>4, <1>5 DEF TypeInv, RunsOpenOnce, Reads
<1>8. StampsPassed'
  <2>1. \A n1 \in DOMAIN notes : /\ notes[n1].updated \in Int /\ notes[n1].declined \in Int
    BY <1>2, Rows DEF Stamps, Never
  <2>2. \A run \in DOMAIN runs : runs[run].started \in Int
    BY <1>2, Rows DEF Stamps
  <2>3. \A x \in Reqs : req[x].pc \in {"write", "plan", "decline"} => req[x].at \in Int
    BY <1>2, RequestColumns DEF Stamps
  <2> QED BY <1>1, <1>3, <1>4, <1>5, <2>1, <2>2, <2>3 DEF TypeInv, StampsPassed
<1>9. NotesStay'
  BY <1>1, <1>4, <1>5 DEF TypeInv, NotesStay, Reads, Active
<1> QED BY <1>6, <1>7, <1>8, <1>9 DEF TypeInv

(* Stamps are integers.                                                    *)
LEMMA StampsAreInts ==
    ASSUME TypeOK
    PROVE  /\ now \in Int
           /\ \A n \in DOMAIN notes : notes[n].updated \in Int /\ notes[n].declined \in Int
           /\ \A run \in DOMAIN runs : runs[run].started \in Int
           /\ \A r \in Reqs : req[r].pc \in {"write", "plan", "decline"} => req[r].at \in Int
<1>1. \A n \in DOMAIN notes : notes[n].updated \in Int /\ notes[n].declined \in Int
  BY Rows DEF Stamps, Never
<1>2. now \in Int /\ \A run \in DOMAIN runs : runs[run].started \in Int
  BY Rows DEF Stamps
<1>3. \A r \in Reqs : req[r].pc \in {"write", "plan", "decline"} => req[r].at \in Int
  BY Rows, RequestColumns DEF Stamps
<1> QED BY <1>1, <1>2, <1>3

(* A writer commits: nothing, a new note, or a change to one that stands.  *)
LEMMA WriteDoes ==
    ASSUME TypeOK, NEW r \in Reqs, NEW status \in {"active", "flagged"}, Write(r, status)
    PROVE  /\ req[r].pc = "write" /\ req[r].note \in Notes /\ req[r].at \in Stamps
           /\ req' \in [Reqs -> Request] /\ req'[r] = Idle /\ req'[r].pc = "idle"
           /\ \A x \in Reqs : x # r => req'[x] = req[x]
           /\ UNCHANGED <<pages, runs, now, gone, basis, refused, inflight, unseen>>
           /\ notes' \in [DOMAIN notes' -> Note]
           /\ req[r].note \in gone => UNCHANGED <<notes, todo>>
           /\ req[r].note \notin gone => todo' = << >>
           /\ DOMAIN notes' \subseteq DOMAIN notes \cup {req[r].note}
           /\ DOMAIN notes \subseteq DOMAIN notes'
           /\ \A n \in DOMAIN notes : n # req[r].note => notes'[n] = notes[n]
           /\ notes' # notes =>
                LET n == req[r].note
                IN /\ n \notin gone /\ n \in DOMAIN notes' /\ notes'[n] \in Note
                   /\ notes'[n].updated = req[r].at
                   /\ n \notin DOMAIN notes => notes'[n].declined = Never
                   /\ n \in DOMAIN notes => /\ notes'[n].declined = notes[n].declined
                                            /\ notes'[n].status = notes[n].status
<1>1. req[r].pc = "write" /\ req[r].note \in Notes /\ req[r].at \in Stamps
  BY Rows, RequestColumns DEF Write
<1>2. /\ req' = [req EXCEPT ![r] = Idle]
      /\ UNCHANGED <<pages, runs, now, gone, basis, refused, inflight, unseen>>
  BY DEF Write, Finish, Goto
<1>3. /\ req' \in [Reqs -> Request] /\ req'[r] = Idle /\ req'[r].pc = "idle"
      /\ \A x \in Reqs : x # r => req'[x] = req[x]
  BY <1>2, IdleRequest DEF TypeOK
<1> DEFINE n == req[r].note
<1>4. CASE n \in gone
  <2>1. n \notin DOMAIN notes
    BY <1>4, Rows
  <2>2. UNCHANGED <<notes, todo>>
    BY <1>4, <2>1 DEF Write, Active
  <2> QED BY <1>1, <1>2, <1>3, <1>4, <2>2 DEF TypeOK
<1>5. CASE n \notin gone /\ n \notin DOMAIN notes
  <2> DEFINE row == [rev |-> 1, status |-> status, updated |-> req[r].at, declined |-> Never]
  <2>1. notes' = With(notes, n, row) /\ todo' = << >>
    BY <1>5 DEF Write, Active, Disturb
  <2>2. row \in Note /\ row.updated = req[r].at /\ row.declined = Never
    BY <1>1, CompileAssumption DEF Note
  <2> HIDE DEF row
  <2>3. /\ DOMAIN notes' = DOMAIN notes \cup {n} /\ notes'[n] = row
        /\ \A z \in DOMAIN notes : z # n => notes'[z] = notes[z]
    BY <2>1 DEF With
  <2>4. notes' \in [DOMAIN notes' -> Note]
    BY <2>1, <2>2, WithTypes DEF TypeOK
  <2> QED BY <1>1, <1>2, <1>3, <1>5, <2>1, <2>2, <2>3, <2>4
<1>6. CASE n \notin gone /\ n \in DOMAIN notes
  <2> DEFINE row == [notes[n] EXCEPT !.rev = @ + 1, !.updated = req[r].at]
  <2>1. notes' = [notes EXCEPT ![n] = row] /\ notes[n].rev < MaxRev /\ todo' = << >>
    BY <1>6 DEF Write, Disturb
  <2>2. notes[n] \in Note /\ notes[n].rev \in 1..MaxRev
    BY <1>6, Rows
  <2>3. /\ row \in Note /\ row.updated = req[r].at /\ row.declined = notes[n].declined
        /\ row.status = notes[n].status
    <3>1. notes[n].rev + 1 \in 1..MaxRev
      BY <2>1, <2>2, CompileAssumption
    <3>2. PICK u : u = notes[n]
      OBVIOUS
    <3>3. [u EXCEPT !.rev = u.rev + 1, !.updated = req[r].at] \in Note
      BY <1>1, <2>2, <3>1, <3>2 DEF Note
    <3>4. row = [u EXCEPT !.rev = u.rev + 1, !.updated = req[r].at]
      BY <3>2
    <3>5. u \in Note
      BY <2>2, <3>2
    <3> QED BY <3>2, <3>3, <3>4, <3>5 DEF Note
  <2> HIDE DEF row
  <2>4. DOMAIN notes' = DOMAIN notes
    BY <2>1
  <2>5. notes'[n] = row /\ \A z \in DOMAIN notes : z # n => notes'[z] = notes[z]
    BY <1>6, <2>1
  <2>6. notes' \in [DOMAIN notes' -> Note]
    BY <2>1, <2>3 DEF TypeOK
  <2> QED BY <1>1, <1>2, <1>3, <1>6, <2>1, <2>3, <2>4, <2>5, <2>6
<1> QED BY <1>4, <1>5, <1>6

LEMMA WriteTypeInv ==
    ASSUME TypeInv, NEW r \in Reqs, NEW status \in {"active", "flagged"}, Write(r, status)
    PROVE  TypeInv'
<1> DEFINE n == req[r].note
<1>1. TypeOK /\ notes \in [DOMAIN notes -> Note]
  BY DEF TypeInv, TypeOK
<1>2. /\ n \in Notes /\ req[r].at \in Stamps /\ req[r].pc = "write"
      /\ req' \in [Reqs -> Request] /\ req'[r].pc = "idle"
      /\ \A x \in Reqs : x # r => req'[x] = req[x]
      /\ UNCHANGED <<pages, runs, now, gone, basis, refused, inflight, unseen>>
  BY <1>1, WriteDoes
<1>3. /\ DOMAIN notes' \subseteq DOMAIN notes \cup {n} /\ DOMAIN notes \subseteq DOMAIN notes'
      /\ \A z \in DOMAIN notes : z # n => notes'[z] = notes[z]
  BY <1>1, WriteDoes
<1>4. notes' # notes =>
        /\ n \notin gone /\ n \in DOMAIN notes' /\ notes'[n] \in Note
        /\ notes'[n].updated = req[r].at
        /\ n \notin DOMAIN notes => notes'[n].declined = Never
        /\ n \in DOMAIN notes => /\ notes'[n].declined = notes[n].declined
                                 /\ notes'[n].status = notes[n].status
  BY <1>1, WriteDoes
<1>5. TypeOK'
  <2>1. notes' \in [DOMAIN notes' -> Note]
    BY <1>1, WriteDoes
  <2>2. DOMAIN notes' \subseteq Notes \ gone
    BY <1>1, <1>2, <1>3, <1>4 DEF TypeOK
  <2> QED BY <1>1, <1>2, <2>1, <2>2 DEF TypeOK
<1>6. RunsOpenOnce'
  BY <1>2 DEF TypeInv, RunsOpenOnce, Reads
<1>7. StampsPassed'
  <2>1. req[r].at < now /\ \A z \in DOMAIN notes : notes[z].declined < now /\ notes[z].updated < now
    BY <1>2 DEF TypeInv, StampsPassed
  <2>2. now \in Int /\ req[r].at \in Stamps
    BY <1>1, <1>2, StampsAreInts
  <2>3. Never < now
    BY <2>1, <2>2 DEF Never, Stamps
  <2>4. \A z \in DOMAIN notes' : notes'[z].updated < now /\ notes'[z].declined < now
    BY <1>3, <1>4, <2>1, <2>3
  <2> QED BY <1>2, <2>4 DEF TypeInv, StampsPassed
<1>8. NotesStay'
  <2>1. ASSUME NEW z \in DOMAIN notes, Active(z) PROVE Active(z)'
    BY <1>3, <1>4, <2>1 DEF Active
  <2>2. \A z \in DOMAIN notes' \ DOMAIN notes : z \notin gone
    BY <1>3, <1>4
  <2>3. \A x \in Reqs : Reads(x)' => Reads(x) /\ req'[x] = req[x]
    BY <1>2 DEF Reads
  <2> QED BY <1>2, <1>3, <2>1, <2>2, <2>3 DEF TypeInv, NotesStay
<1> QED BY <1>5, <1>6, <1>7, <1>8 DEF TypeInv

LEMMA PublishTypeInv ==
    ASSUME TypeInv, NEW n \in Notes, Publish(n)
    PROVE  TypeInv'
<1>1. /\ n \in DOMAIN notes /\ notes' = [notes EXCEPT ![n].status = "active"]
      /\ UNCHANGED <<pages, runs, now, req, gone, basis, refused, inflight, unseen>>
  BY DEF Publish
<1>2. TypeOK /\ notes[n] \in Note
  BY <1>1, Rows DEF TypeInv
<1>3. PICK u : u = [notes[n] EXCEPT !.status = "active"]
  OBVIOUS
<1>4. /\ u \in Note /\ u.updated = notes[n].updated /\ u.declined = notes[n].declined
      /\ u.status = "active"
  BY <1>2, <1>3 DEF Note
<1>5. /\ DOMAIN notes' = DOMAIN notes /\ notes'[n] = u
      /\ \A z \in DOMAIN notes : z # n => notes'[z] = notes[z]
  BY <1>1, <1>3
<1>6. notes' \in [DOMAIN notes' -> Note]
  BY <1>1, <1>2, <1>3, <1>4 DEF TypeOK
<1>7. TypeOK'
  BY <1>1, <1>2, <1>5, <1>6 DEF TypeOK
<1>8. RunsOpenOnce'
  BY <1>1 DEF TypeInv, RunsOpenOnce, Reads
<1>9. StampsPassed'
  BY <1>1, <1>4, <1>5 DEF TypeInv, StampsPassed
<1>10. NotesStay'
  <2>1. ASSUME NEW z, Active(z) PROVE Active(z)'
    BY <1>4, <1>5, <2>1 DEF Active
  <2> QED BY <1>1, <1>5, <2>1 DEF TypeInv, NotesStay, Reads
<1> QED BY <1>7, <1>8, <1>9, <1>10 DEF TypeInv

LEMMA RemoveTypeInv ==
    ASSUME TypeInv, NEW n \in Notes, Remove(n)
    PROVE  TypeInv'
<1>1. /\ n \in DOMAIN notes /\ notes' = Without(notes, {n}) /\ gone' = gone \cup {n}
      /\ UNCHANGED <<pages, runs, now, req, basis, inflight>>
  BY DEF Remove
<1>2. TypeOK /\ notes \in [DOMAIN notes -> Note]
  BY DEF TypeInv, TypeOK
<1>3. /\ DOMAIN notes' = DOMAIN notes \ {n} /\ notes' \in [DOMAIN notes' -> Note]
      /\ \A z \in DOMAIN notes' : notes'[z] = notes[z]
  BY <1>1, <1>2 DEF Without
<1>4. TypeOK'
  BY <1>1, <1>2, <1>3 DEF TypeOK
<1>5. RunsOpenOnce'
  BY <1>1 DEF TypeInv, RunsOpenOnce, Reads
<1>6. StampsPassed'
  BY <1>1, <1>3 DEF TypeInv, StampsPassed
<1>7. NotesStay'
  <2>1. \A z \in DOMAIN notes' : Active(z) => Active(z)'
    BY <1>3 DEF Active
  <2> QED BY <1>1, <1>3, <2>1 DEF TypeInv, NotesStay, Reads
<1> QED BY <1>4, <1>5, <1>6, <1>7 DEF TypeInv

LEMMA BeginPlanTypeInv ==
    ASSUME TypeInv, NEW r \in Reqs, NEW run \in Runs, BeginPlan(r, run)
    PROVE  TypeInv'
<1> DEFINE q == [pc |-> "plan", run |-> run, at |-> now, listed |-> {}]
<1>1. /\ req' = [req EXCEPT ![r] = q] /\ now < MaxTime /\ now' = now + 1
      /\ run \notin DOMAIN runs
      /\ \A x \in Reqs : req[x].pc = "plan" => req[x].run # run
      /\ inflight' = With(inflight, run, BeingWritten)
      /\ UNCHANGED <<notes, pages, runs, gone>>
  BY DEF BeginPlan, Stamp, Goto, tables
<1>2. TypeOK /\ now \in Stamps /\ req \in [Reqs -> Request]
  BY Rows DEF TypeInv, TypeOK
<1>3. now' \in Stamps
  BY <1>1, <1>2, CompileAssumption DEF Stamps
<1>4. q \in Request /\ q.pc = "plan" /\ q.at = now /\ q.run = run
  BY <1>2 DEF Request
<1> HIDE DEF q
<1>5. /\ req' \in [Reqs -> Request] /\ req'[r] = q
      /\ \A x \in Reqs : x # r => req'[x] = req[x]
  BY <1>1, <1>2, <1>4
<1>6. TypeOK'
  BY <1>1, <1>2, <1>3, <1>5 DEF TypeOK
<1>7. RunsOpenOnce'
  <2>1. DOMAIN inflight' = DOMAIN inflight \cup {run}
    BY <1>1 DEF With
  <2> QED BY <1>1, <1>4, <1>5, <2>1 DEF TypeInv, RunsOpenOnce, Reads
<1>8. StampsPassed'
  BY <1>1, <1>2, <1>4, <1>5, StampsAreInts DEF TypeInv, StampsPassed
<1>9. NotesStay'
  BY <1>1, <1>4, <1>5 DEF TypeInv, NotesStay, Reads, Active
<1> QED BY <1>6, <1>7, <1>8, <1>9 DEF TypeInv

(* A plan that has read the pages is the plan it was.                      *)
LEMMA ListPagesDoes ==
    ASSUME TypeOK, NEW r \in Reqs, ListPages(r)
    PROVE  /\ req' \in [Reqs -> Request] /\ req[r].pc = "plan" /\ req'[r].pc = "plan"
           /\ req'[r].run = req[r].run /\ req'[r].at = req[r].at
           /\ \A x \in Reqs : x # r => req'[x] = req[x]
           /\ UNCHANGED <<tables, now, history>>
<1>1. req[r].pc = "plan" /\ req[r] \in Request /\ UNCHANGED <<tables, now, history>>
  BY DEF ListPages, TypeOK
<1>2. req[r] \in [pc : {"plan"}, run : Runs, at : Stamps, listed : SUBSET PageTables]
  BY <1>1, RequestColumns
<1>3. pages \in PageTables
  BY DEF TypeOK, PageTables
<1>4. PICK q : q = [req[r] EXCEPT !.listed = {pages}]
  OBVIOUS
<1>5. q \in [pc : {"plan"}, run : Runs, at : Stamps, listed : SUBSET PageTables]
  BY <1>2, <1>3, <1>4
<1>6. q \in Request
  BY <1>5 DEF Request
<1>7. q.pc = "plan" /\ q.run = req[r].run /\ q.at = req[r].at
  BY <1>2, <1>4
<1>8. req' = [req EXCEPT ![r] = q]
  BY <1>4 DEF ListPages
<1> QED BY <1>1, <1>6, <1>7, <1>8 DEF TypeOK

LEMMA ListPagesTypeInv ==
    ASSUME TypeInv, NEW r \in Reqs, ListPages(r)
    PROVE  TypeInv'
<1>1. /\ req' \in [Reqs -> Request] /\ req[r].pc = "plan" /\ req'[r].pc = "plan"
      /\ req'[r].run = req[r].run /\ req'[r].at = req[r].at
      /\ \A x \in Reqs : x # r => req'[x] = req[x]
      /\ UNCHANGED <<notes, pages, runs, now, gone, inflight>>
  BY ListPagesDoes DEF TypeInv, tables, history
<1>2. TypeOK'
  BY <1>1 DEF TypeInv, TypeOK
<1>3. RunsOpenOnce'
  BY <1>1 DEF TypeInv, RunsOpenOnce, Reads
<1>4. StampsPassed' /\ NotesStay'
  BY <1>1 DEF TypeInv, StampsPassed, NotesStay, Reads, Active
<1> QED BY <1>2, <1>3, <1>4 DEF TypeInv

(* The run is entered, with the stamp its transaction took.                *)
LEMMA PlanDoes ==
    ASSUME TypeInv, NEW r \in Reqs, NEW all \in AllPages, Plan(r, all)
    PROVE  LET run == req[r].run
           IN /\ req[r].pc = "plan" /\ run \in Runs /\ run \notin DOMAIN runs
              /\ req[r].at \in Stamps
              /\ req' \in [Reqs -> Request] /\ req'[r].pc = "idle"
              /\ \A x \in Reqs : x # r => req'[x] = req[x]
              /\ DOMAIN runs' = DOMAIN runs \cup {run}
              /\ runs' \in [DOMAIN runs' -> Run]
              /\ runs'[run].started = req[r].at /\ runs'[run].state = "running"
              /\ \A z \in DOMAIN runs : runs'[z] = runs[z]
              /\ UNCHANGED <<notes, pages, now, gone, basis, refused, inflight, unseen>>
<1> DEFINE run == req[r].run
           row == [state |-> "running", started |-> req[r].at]
<1>1. /\ req[r].pc = "plan" /\ runs' = With(runs, run, row)
      /\ req' = [req EXCEPT ![r] = Idle]
      /\ UNCHANGED <<notes, pages, now, gone, basis, refused, inflight, unseen>>
  BY DEF Plan, Finish, Goto
<1>2. TypeOK /\ run \in Runs /\ req[r].at \in Stamps /\ run \notin DOMAIN runs
  BY <1>1, Rows, RequestColumns DEF TypeInv, RunsOpenOnce
<1>3. /\ req' \in [Reqs -> Request] /\ req'[r].pc = "idle"
      /\ \A x \in Reqs : x # r => req'[x] = req[x]
  BY <1>1, <1>2, IdleRequest DEF TypeOK
<1>4. row \in Run /\ row.started = req[r].at /\ row.state = "running"
  BY <1>2 DEF Run
<1> HIDE DEF row
<1>5. /\ DOMAIN runs' = DOMAIN runs \cup {run} /\ runs'[run] = row
      /\ \A z \in DOMAIN runs : z # run => runs'[z] = runs[z]
  BY <1>1 DEF With
<1>6. runs' \in [DOMAIN runs' -> Run]
  BY <1>1, <1>2, <1>4 DEF With, TypeOK
<1> QED BY <1>1, <1>2, <1>3, <1>4, <1>5, <1>6

LEMMA PlanTypeInv ==
    ASSUME TypeInv, NEW r \in Reqs, NEW all \in AllPages, Plan(r, all)
    PROVE  TypeInv'
<1> DEFINE run == req[r].run
<1>1. /\ req[r].pc = "plan" /\ run \in Runs /\ run \notin DOMAIN runs
      /\ req' \in [Reqs -> Request] /\ req'[r].pc = "idle"
      /\ \A x \in Reqs : x # r => req'[x] = req[x]
      /\ DOMAIN runs' = DOMAIN runs \cup {run}
      /\ runs' \in [DOMAIN runs' -> Run]
      /\ runs'[run].started = req[r].at
      /\ \A z \in DOMAIN runs : runs'[z] = runs[z]
      /\ UNCHANGED <<notes, pages, now, gone, basis, refused, inflight, unseen>>
  BY PlanDoes
<1>2. TypeOK'
  BY <1>1 DEF TypeInv, TypeOK
<1>3. RunsOpenOnce'
  BY <1>1 DEF TypeInv, RunsOpenOnce, Reads
<1>4. StampsPassed'
  BY <1>1 DEF TypeInv, StampsPassed, RunsOpenOnce, Reads
<1>5. NotesStay'
  BY <1>1 DEF TypeInv, NotesStay, Reads, Active
<1> QED BY <1>2, <1>3, <1>4, <1>5 DEF TypeInv

LEMMA RunningFacts ==
    /\ Running \subseteq DOMAIN runs
    /\ \A run \in Running : runs[run].state = "running"
BY DEF Running

(* The agent starts on a page, or on a refusal.                            *)
LEMMA BeginReadDoes ==
    ASSUME TypeOK, NEW r \in Reqs, NEW run \in Runs, NEW S \in SUBSET Notes,
           (\E p \in Pages : BeginPage(r, run, p, S)) \/ BeginDecline(r, run, S)
    PROVE  /\ req[r].pc = "idle" /\ run \in Running /\ \A n \in S : Active(n)
           /\ req' \in [Reqs -> Request]
           /\ req'[r].pc \in {"page", "refuse"} /\ req'[r].run = run
           /\ DOMAIN req'[r].from = S /\ \A n \in S : req'[r].from[n] = notes[n].rev
           /\ \A x \in Reqs : x # r => req'[x] = req[x]
           /\ UNCHANGED <<tables, now, history>>
<1>1. ASSUME NEW p \in Pages, BeginPage(r, run, p, S)
      PROVE  \E f \in BOOLEAN :
                req' = [req EXCEPT ![r] = [pc |-> "page", run |-> run, page |-> p,
                                           fresh |-> f, from |-> Reading(S)]]
  BY <1>1 DEF BeginPage, Goto
<1>2. BeginDecline(r, run, S) =>
        req' = [req EXCEPT ![r] = [pc |-> "refuse", run |-> run, from |-> Reading(S)]]
  BY DEF BeginDecline, Goto
<1>3. /\ req[r] = Idle /\ run \in Running /\ UNCHANGED <<tables, now, history>>
      /\ \A n \in S : Active(n)
  BY DEF BeginPage, BeginDecline
<1>4. /\ Reading(S) \in Revisions /\ DOMAIN Reading(S) = S
      /\ \A n \in S : Reading(S)[n] = notes[n].rev
  BY <1>3, ReadingIs
<1>5. PICK q : /\ req' = [req EXCEPT ![r] = q] /\ q \in Request
               /\ q.pc \in {"page", "refuse"} /\ q.run = run /\ q.from = Reading(S)
  <2> HIDE DEF Reading
  <2>1. ASSUME NEW p \in Pages, NEW f \in BOOLEAN
        PROVE  [pc |-> "page", run |-> run, page |-> p, fresh |-> f, from |-> Reading(S)]
                  \in Request
    BY <1>4 DEF Request
  <2>2. [pc |-> "refuse", run |-> run, from |-> Reading(S)] \in Request
    BY <1>4 DEF Request
  <2>3. CASE BeginDecline(r, run, S)
    BY <1>2, <2>2, <2>3
  <2>4. CASE \E p \in Pages : BeginPage(r, run, p, S)
    <3>1. PICK p \in Pages, f \in BOOLEAN :
             req' = [req EXCEPT ![r] = [pc |-> "page", run |-> run, page |-> p,
                                        fresh |-> f, from |-> Reading(S)]]
      BY <1>1, <2>4
    <3>2. PICK u : u = [pc |-> "page", run |-> run, page |-> p, fresh |-> f,
                        from |-> Reading(S)]
      OBVIOUS
    <3>3. /\ req' = [req EXCEPT ![r] = u] /\ u \in Request
          /\ u.pc = "page" /\ u.run = run /\ u.from = Reading(S)
      BY <2>1, <3>1, <3>2
    <3> QED BY <3>3
  <2> QED BY <2>3, <2>4
<1>6. /\ req' \in [Reqs -> Request] /\ req'[r] = q
      /\ \A x \in Reqs : x # r => req'[x] = req[x]
  BY <1>5 DEF TypeOK
<1> QED BY <1>3, <1>4, <1>5, <1>6, IdleRequest

LEMMA BeginReadTypeInv ==
    ASSUME TypeInv, NEW r \in Reqs, NEW run \in Runs, NEW S \in SUBSET Notes,
           (\E p \in Pages : BeginPage(r, run, p, S)) \/ BeginDecline(r, run, S)
    PROVE  TypeInv'
<1>1. /\ run \in Running /\ \A n \in S : Active(n)
      /\ req' \in [Reqs -> Request]
      /\ req'[r].pc \in {"page", "refuse"} /\ req'[r].run = run
      /\ DOMAIN req'[r].from = S
      /\ \A x \in Reqs : x # r => req'[x] = req[x]
      /\ UNCHANGED <<notes, pages, runs, now, gone, inflight>>
  BY BeginReadDoes DEF TypeInv, tables, history
<1>2. TypeOK'
  BY <1>1 DEF TypeInv, TypeOK
<1>3. RunsOpenOnce'
  BY <1>1, RunningFacts DEF TypeInv, RunsOpenOnce, Reads
<1>4. StampsPassed'
  BY <1>1 DEF TypeInv, StampsPassed
<1>5. NotesStay'
  BY <1>1 DEF TypeInv, NotesStay, Reads, Active
<1> QED BY <1>2, <1>3, <1>4, <1>5 DEF TypeInv

(* A page is written, or nothing is.                                       *)
LEMMA WritePageDoes ==
    ASSUME TypeOK, NEW r \in Reqs, WritePage(r)
    PROVE  LET q == req[r]
           IN /\ q.pc = "page" /\ q.run \in Runs /\ q.page \in Pages /\ q.from \in Revisions
              /\ req' \in [Reqs -> Request] /\ req'[r].pc = "idle"
              /\ \A x \in Reqs : x # r => req'[x] = req[x]
              /\ UNCHANGED <<notes, runs, now, gone, refused, inflight, unseen>>
              /\ \/ UNCHANGED <<tables, history>>
                 \/ /\ q.run \in Running /\ DOMAIN q.from \subseteq DOMAIN notes
                    /\ DOMAIN pages' = DOMAIN pages \cup {q.page}
                    /\ pages' \in [DOMAIN pages' -> Page]
                    /\ pages'[q.page].sources = DOMAIN q.from
                    /\ pages'[q.page].run = q.run
                    /\ pages'[q.page].compiled = runs[q.run].started
                    /\ basis'[q.page] = q.from
                    /\ \A p \in DOMAIN pages : p # q.page => pages'[p] = pages[p]
                    /\ \A p \in DOMAIN basis : p # q.page => basis'[p] = basis[p]
                    /\ DOMAIN basis' = DOMAIN basis \cup {q.page}
                    /\ todo' = [x \in DOMAIN todo |->
                                  (todo[x] \ Done(q.page, DOMAIN q.from))
                                     \cup LeftOut(q.page, DOMAIN q.from)]
<1> DEFINE q == req[r]
           S == DOMAIN q.from
           row == [sources |-> S, run |-> q.run, compiled |-> runs[q.run].started]
<1>1. q.pc = "page" /\ q.run \in Runs /\ q.page \in Pages /\ q.from \in Revisions
  BY Rows, RequestColumns DEF WritePage
<1>2. /\ req' \in [Reqs -> Request] /\ req'[r].pc = "idle"
      /\ \A x \in Reqs : x # r => req'[x] = req[x]
  BY IdleRequest DEF WritePage, Finish, Goto, TypeOK
<1>3. UNCHANGED <<notes, runs, now, gone, refused, inflight, unseen>>
  BY DEF WritePage, tables, history
<1>4. \/ UNCHANGED <<tables, history>>
      \/ /\ q.run \in Running /\ S \subseteq DOMAIN notes
         /\ pages' = With(pages, q.page, row) /\ basis' = With(basis, q.page, q.from)
         /\ todo' = [x \in DOMAIN todo |-> (todo[x] \ Done(q.page, S)) \cup LeftOut(q.page, S)]
  BY DEF WritePage, StillOpen, AllThere, CompiledAt
<1>5. CASE UNCHANGED <<tables, history>>
  BY <1>1, <1>2, <1>3, <1>5
<1>6. CASE /\ q.run \in Running /\ S \subseteq DOMAIN notes
           /\ pages' = With(pages, q.page, row) /\ basis' = With(basis, q.page, q.from)
           /\ todo' = [x \in DOMAIN todo |->
                         (todo[x] \ Done(q.page, S)) \cup LeftOut(q.page, S)]
  <2>1. runs[q.run].started \in Stamps /\ S \subseteq Notes
    BY <1>1, <1>6, Rows, RunningFacts, RevisionsAre
  <2>2. /\ row \in Page /\ row.sources = S /\ row.run = q.run
        /\ row.compiled = runs[q.run].started
    BY <1>1, <2>1 DEF Page
  <2> HIDE DEF row
  <2>3. /\ DOMAIN pages' = DOMAIN pages \cup {q.page} /\ pages'[q.page] = row
        /\ \A p \in DOMAIN pages : p # q.page => pages'[p] = pages[p]
    BY <1>6 DEF With
  <2>4. /\ DOMAIN basis' = DOMAIN basis \cup {q.page} /\ basis'[q.page] = q.from
        /\ \A p \in DOMAIN basis : p # q.page => basis'[p] = basis[p]
    BY <1>6 DEF With
  <2>5. pages' \in [DOMAIN pages' -> Page]
    BY <1>6, <2>2 DEF With, TypeOK
  <2> QED BY <1>1, <1>2, <1>3, <1>6, <2>2, <2>3, <2>4, <2>5
<1> QED BY <1>4, <1>5, <1>6

LEMMA WritePageTypeInv ==
    ASSUME TypeInv, NEW r \in Reqs, WritePage(r)
    PROVE  TypeInv'
<1> DEFINE q == req[r]
<1>1. /\ q.pc = "page" /\ q.page \in Pages
      /\ req' \in [Reqs -> Request] /\ req'[r].pc = "idle"
      /\ \A x \in Reqs : x # r => req'[x] = req[x]
      /\ UNCHANGED <<notes, runs, now, gone, refused, inflight, unseen>>
  BY WritePageDoes DEF TypeInv
<1>2. \/ UNCHANGED <<tables, history>>
      \/ /\ q.run \in Running /\ DOMAIN q.from \subseteq DOMAIN notes
         /\ DOMAIN pages' = DOMAIN pages \cup {q.page}
         /\ pages' \in [DOMAIN pages' -> Page]
         /\ pages'[q.page].sources = DOMAIN q.from
         /\ pages'[q.page].run = q.run
         /\ pages'[q.page].compiled = runs[q.run].started
         /\ \A p \in DOMAIN pages : p # q.page => pages'[p] = pages[p]
  BY WritePageDoes DEF TypeInv
<1>3. TypeOK'
  <2>1. CASE UNCHANGED <<tables, history>>
    BY <1>1, <2>1 DEF TypeInv, TypeOK, tables, history
  <2>2. CASE ~UNCHANGED <<tables, history>>
    <3>1. q.run \in DOMAIN runs
      BY <1>2, <2>2, RunningFacts
    <3>2. \A p \in DOMAIN pages' : /\ pages'[p].run \in DOMAIN runs
                                   /\ pages'[p].compiled = runs[pages'[p].run].started
      BY <1>2, <2>2, <3>1 DEF TypeInv, TypeOK
    <3> QED BY <1>1, <1>2, <2>2, <3>2 DEF TypeInv, TypeOK
  <2> QED BY <2>1, <2>2
<1>4. RunsOpenOnce'
  BY <1>1 DEF TypeInv, RunsOpenOnce, Reads
<1>5. StampsPassed'
  BY <1>1 DEF TypeInv, StampsPassed
<1>6. NotesStay'
  <2>1. \A x \in Reqs : Reads(x)' => Reads(x) /\ req'[x] = req[x]
    BY <1>1 DEF Reads
  <2>2. \A p \in DOMAIN pages' : pages'[p].sources \subseteq DOMAIN notes \cup gone
    BY <1>2 DEF TypeInv, NotesStay, tables
  <2> QED BY <1>1, <2>1, <2>2 DEF TypeInv, NotesStay, Active
<1> QED BY <1>3, <1>4, <1>5, <1>6 DEF TypeInv

(* A refusal takes its stamp; it was behind the notes that had changed.    *)
LEMMA StampDeclineDoes ==
    ASSUME TypeOK, NEW r \in Reqs, StampDecline(r)
    PROVE  LET q == req[r]
           IN /\ q.pc = "refuse" /\ q.run \in Runs /\ q.from \in Revisions
              /\ now' = now + 1 /\ now < MaxTime
              /\ req' \in [Reqs -> Request]
              /\ req'[r].pc = "decline" /\ req'[r].run = q.run /\ req'[r].from = q.from
              /\ req'[r].at = now
              /\ \A n \in DOMAIN q.from :
                    (n \in BeingWritten \/ ~Active(n) \/ notes[n].rev # q.from[n])
                       => n \in req'[r].behind
              /\ \A x \in Reqs : x # r => req'[x] = req[x]
              /\ UNCHANGED <<tables, history>>
<1> DEFINE q == req[r]
           B == {n \in DOMAIN q.from : \/ n \in BeingWritten \/ ~Active(n)
                                       \/ notes[n].rev # q.from[n]}
<1>1. q.pc = "refuse" /\ q.run \in Runs /\ q.from \in Revisions
  BY Rows, RequestColumns DEF StampDecline
<1>2. /\ now' = now + 1 /\ now < MaxTime /\ UNCHANGED <<tables, history>>
      /\ req' = [req EXCEPT ![r] = [pc |-> "decline", run |-> q.run, from |-> q.from,
                                    at |-> now, behind |-> B]]
  BY DEF StampDecline, Stamp, Goto
<1>3. B \subseteq Notes /\ now \in Stamps
  BY <1>1, RevisionsAre, Rows
<1>4. \A n \in DOMAIN q.from :
         (n \in BeingWritten \/ ~Active(n) \/ notes[n].rev # q.from[n]) => n \in B
  OBVIOUS
<1> HIDE DEF B
<1>5. PICK u : u = [pc |-> "decline", run |-> q.run, from |-> q.from, at |-> now, behind |-> B]
  OBVIOUS
<1>6. /\ u \in Request /\ u.pc = "decline" /\ u.run = q.run /\ u.from = q.from
      /\ u.at = now /\ u.behind = B
  BY <1>1, <1>3, <1>5 DEF Request
<1>7. /\ req' \in [Reqs -> Request] /\ req'[r] = u
      /\ \A x \in Reqs : x # r => req'[x] = req[x]
  BY <1>2, <1>5, <1>6 DEF TypeOK
<1> QED BY <1>1, <1>2, <1>4, <1>6, <1>7

LEMMA StampDeclineTypeInv ==
    ASSUME TypeInv, NEW r \in Reqs, StampDecline(r)
    PROVE  TypeInv'
<1> DEFINE q == req[r]
<1>1. /\ q.pc = "refuse" /\ now' = now + 1 /\ now < MaxTime
      /\ req' \in [Reqs -> Request]
      /\ req'[r].pc = "decline" /\ req'[r].run = q.run /\ req'[r].from = q.from
      /\ req'[r].at = now
      /\ \A x \in Reqs : x # r => req'[x] = req[x]
      /\ UNCHANGED <<notes, pages, runs, gone, inflight>>
  BY StampDeclineDoes DEF TypeInv, tables, history
<1>2. TypeOK /\ now \in Stamps
  BY Rows DEF TypeInv
<1>3. now' \in Stamps
  BY <1>1, <1>2, CompileAssumption DEF Stamps
<1>4. TypeOK'
  BY <1>1, <1>2, <1>3 DEF TypeOK
<1>5. RunsOpenOnce'
  BY <1>1 DEF TypeInv, RunsOpenOnce, Reads
<1>6. StampsPassed'
  <2>1. q.run \in DOMAIN runs
    BY <1>1 DEF TypeInv, RunsOpenOnce, Reads
  <2>2. \A x \in Reqs : req'[x].pc = "decline" => runs[req'[x].run].started < req'[x].at
    BY <1>1, <2>1 DEF TypeInv, StampsPassed
  <2> QED BY <1>1, <1>2, <2>2, StampsAreInts DEF TypeInv, StampsPassed
<1>7. NotesStay'
  BY <1>1 DEF TypeInv, NotesStay, Reads, Active
<1> QED BY <1>4, <1>5, <1>6, <1>7 DEF TypeInv

(* Notes are refused, all of them or none.                                 *)
LEMMA DeclineDoes ==
    ASSUME TypeOK, NEW r \in Reqs, Decline(r)
    PROVE  LET q == req[r]
               D == DOMAIN req[r].from
           IN /\ q.pc = "decline" /\ q.at \in Stamps /\ q.from \in Revisions
              /\ req' \in [Reqs -> Request] /\ req'[r].pc = "idle"
              /\ \A x \in Reqs : x # r => req'[x] = req[x]
              /\ UNCHANGED <<pages, runs, now, gone, basis, inflight>>
              /\ \/ UNCHANGED <<tables, history>>
                 \/ /\ q.run \in Running /\ D \subseteq DOMAIN notes
                    /\ DOMAIN notes' = DOMAIN notes /\ notes' \in [DOMAIN notes' -> Note]
                    /\ \A n \in DOMAIN notes \ D : notes'[n] = notes[n]
                    /\ \A n \in D : /\ notes'[n].declined = q.at
                                    /\ notes'[n].rev = notes[n].rev
                                    /\ notes'[n].status = notes[n].status
                                    /\ notes'[n].updated = notes[n].updated
                    /\ DOMAIN refused' = DOMAIN refused \cup D
                    /\ \A n \in D : refused'[n] = q.from[n]
                    /\ \A n \in DOMAIN refused \ D : refused'[n] = refused[n]
                    /\ unseen' = (unseen \ D) \cup q.behind
                    /\ todo' = [x \in DOMAIN todo |-> todo[x] \ D]
<1> DEFINE q == req[r]
           D == DOMAIN q.from
           row(n) == [notes[n] EXCEPT !.declined = q.at]
<1>1. q.pc = "decline" /\ q.at \in Stamps /\ q.from \in Revisions
  BY Rows, RequestColumns DEF Decline
<1>2. /\ req' \in [Reqs -> Request] /\ req'[r].pc = "idle"
      /\ \A x \in Reqs : x # r => req'[x] = req[x]
  BY IdleRequest DEF Decline, Finish, Goto, TypeOK
<1>3. UNCHANGED <<pages, runs, now, gone, basis, inflight>>
  BY DEF Decline, tables, history
<1>4. \/ UNCHANGED <<tables, history>>
      \/ /\ q.run \in Running /\ D \subseteq DOMAIN notes
         /\ notes' = [n \in DOMAIN notes |-> IF n \in D THEN row(n) ELSE notes[n]]
         /\ refused' = [n \in DOMAIN refused \cup D |->
                          IF n \in D THEN q.from[n] ELSE refused[n]]
         /\ unseen' = (unseen \ D) \cup q.behind
         /\ todo' = [x \in DOMAIN todo |-> todo[x] \ D]
  BY DEF Decline, StillOpen, AllThere
<1>5. \A n \in DOMAIN notes : /\ row(n) \in Note /\ row(n).declined = q.at
                              /\ row(n).rev = notes[n].rev /\ row(n).status = notes[n].status
                              /\ row(n).updated = notes[n].updated
  BY <1>1, Rows DEF Note
<1> HIDE DEF row
<1>6. CASE UNCHANGED <<tables, history>>
  BY <1>1, <1>2, <1>3, <1>6
<1>7. CASE ~UNCHANGED <<tables, history>>
  <2>1. /\ q.run \in Running /\ D \subseteq DOMAIN notes
        /\ notes' = [n \in DOMAIN notes |-> IF n \in D THEN row(n) ELSE notes[n]]
        /\ refused' = [n \in DOMAIN refused \cup D |->
                         IF n \in D THEN q.from[n] ELSE refused[n]]
        /\ unseen' = (unseen \ D) \cup q.behind
        /\ todo' = [x \in DOMAIN todo |-> todo[x] \ D]
    BY <1>4, <1>7
  <2>2. /\ DOMAIN notes' = DOMAIN notes
        /\ \A n \in DOMAIN notes \ D : notes'[n] = notes[n]
        /\ \A n \in D : notes'[n] = row(n)
    BY <2>1
  <2>3. notes' \in [DOMAIN notes' -> Note]
    BY <1>5, <2>1 DEF TypeOK
  <2>4. /\ DOMAIN refused' = DOMAIN refused \cup D
        /\ \A n \in D : refused'[n] = q.from[n]
        /\ \A n \in DOMAIN refused \ D : refused'[n] = refused[n]
    BY <2>1
  <2> QED BY <1>1, <1>2, <1>3, <1>5, <2>1, <2>2, <2>3, <2>4
<1> QED BY <1>6, <1>7

LEMMA DeclineTypeInv ==
    ASSUME TypeInv, NEW r \in Reqs, Decline(r)
    PROVE  TypeInv'
<1> DEFINE q == req[r]
<1>1. /\ q.pc = "decline" /\ q.at \in Stamps
      /\ req' \in [Reqs -> Request] /\ req'[r].pc = "idle"
      /\ \A x \in Reqs : x # r => req'[x] = req[x]
      /\ UNCHANGED <<pages, runs, now, gone, basis, inflight>>
  BY DeclineDoes DEF TypeInv
<1>2. /\ DOMAIN notes' = DOMAIN notes /\ notes' \in [DOMAIN notes' -> Note]
      /\ \A n \in DOMAIN notes :
            /\ notes'[n].declined = notes[n].declined \/ notes'[n].declined = q.at
            /\ notes'[n].updated = notes[n].updated /\ notes'[n].status = notes[n].status
  <2>1. CASE notes' = notes
    BY <2>1 DEF TypeInv, TypeOK
  <2>2. CASE notes' # notes
    BY <2>2, DeclineDoes DEF TypeInv, tables
  <2> QED BY <2>1, <2>2
<1>3. TypeOK'
  BY <1>1, <1>2 DEF TypeInv, TypeOK
<1>4. RunsOpenOnce'
  BY <1>1 DEF TypeInv, RunsOpenOnce, Reads
<1>5. StampsPassed'
  BY <1>1, <1>2 DEF TypeInv, StampsPassed
<1>6. NotesStay'
  BY <1>1, <1>2 DEF TypeInv, NotesStay, Reads, Active
<1> QED BY <1>3, <1>4, <1>5, <1>6 DEF TypeInv

LEMMA CloseDoes ==
    ASSUME TypeOK, NEW run \in Runs, NEW state \in {"succeeded", "failed"}, Close(run, state)
    PROVE  /\ DOMAIN runs' = DOMAIN runs /\ runs' \in [DOMAIN runs' -> Run]
           /\ \A z \in DOMAIN runs : /\ runs'[z].started = runs[z].started
                                     /\ z \notin Running => runs'[z] = runs[z]
           /\ Running' \subseteq Running
           /\ UNCHANGED <<notes, pages, now, req, history>>
<1>1. CASE run \notin Running
  BY <1>1 DEF Close, Settle, TypeOK, Running
<1>2. CASE run \in Running
  <2>1. /\ runs' = [runs EXCEPT ![run].state = state] /\ run \in DOMAIN runs
        /\ UNCHANGED <<notes, pages, now, req, history>>
    BY <1>2 DEF Close, Settle
  <2>2. PICK u : u = [runs[run] EXCEPT !.state = state]
    OBVIOUS
  <2>3. u \in Run /\ u.started = runs[run].started /\ u.state = state
    BY <2>1, <2>2, Rows DEF Run
  <2>4. runs' = [runs EXCEPT ![run] = u]
    BY <2>1, <2>2
  <2>5. /\ DOMAIN runs' = DOMAIN runs /\ runs'[run] = u
        /\ \A z \in DOMAIN runs : z # run => runs'[z] = runs[z]
    BY <2>1, <2>4
  <2>6. runs' \in [DOMAIN runs' -> Run]
    BY <2>1, <2>3, <2>4 DEF TypeOK
  <2>7. Running' \subseteq Running
    BY <2>3, <2>5 DEF Running
  <2> QED BY <1>2, <2>1, <2>3, <2>5, <2>6, <2>7
<1> QED BY <1>1, <1>2

LEMMA CloseTypeInv ==
    ASSUME TypeInv, NEW run \in Runs, NEW state \in {"succeeded", "failed"}, Close(run, state)
    PROVE  TypeInv'
<1>1. /\ DOMAIN runs' = DOMAIN runs /\ runs' \in [DOMAIN runs' -> Run]
      /\ \A z \in DOMAIN runs : runs'[z].started = runs[z].started
      /\ UNCHANGED <<notes, pages, now, req, gone, inflight>>
  BY CloseDoes DEF TypeInv, history
<1>2. TypeOK'
  BY <1>1 DEF TypeInv, TypeOK
<1>3. RunsOpenOnce'
  BY <1>1 DEF TypeInv, RunsOpenOnce, Reads
<1>4. StampsPassed'
  BY <1>1 DEF TypeInv, StampsPassed, RunsOpenOnce, Reads
<1>5. NotesStay'
  BY <1>1 DEF TypeInv, NotesStay, Reads, Active
<1> QED BY <1>2, <1>3, <1>4, <1>5 DEF TypeInv

LEMMA LoseDoes ==
    ASSUME TypeOK, NEW r \in Reqs, Lose(r)
    PROVE  /\ req' \in [Reqs -> Request] /\ req'[r].pc = "idle"
           /\ \A x \in Reqs : x # r => req'[x] = req[x]
           /\ UNCHANGED <<tables, now, history>>
BY IdleRequest DEF Lose, Finish, Goto, TypeOK

LEMMA LoseTypeInv ==
    ASSUME TypeInv, NEW r \in Reqs, Lose(r)
    PROVE  TypeInv'
<1>1. /\ req' \in [Reqs -> Request] /\ req'[r].pc = "idle"
      /\ \A x \in Reqs : x # r => req'[x] = req[x]
      /\ UNCHANGED <<notes, pages, runs, now, gone, inflight>>
  BY LoseDoes DEF TypeInv, tables, history
<1>2. TypeOK'
  BY <1>1 DEF TypeInv, TypeOK
<1>3. RunsOpenOnce' /\ StampsPassed' /\ NotesStay'
  BY <1>1 DEF TypeInv, RunsOpenOnce, StampsPassed, NotesStay, Reads, Active
<1> QED BY <1>2, <1>3 DEF TypeInv

LEMMA NextTypeInv == TypeInv /\ [Next]_vars => TypeInv'
<1> SUFFICES ASSUME TypeInv, [Next]_vars PROVE TypeInv'
  OBVIOUS
<1>1. CASE UNCHANGED vars
  BY <1>1 DEF vars, TypeInv, TypeOK, RunsOpenOnce, StampsPassed, NotesStay, Reads, Active
<1>2. ASSUME NEW r \in Reqs, NEW n \in Notes, BeginWrite(r, n) PROVE TypeInv'
  BY <1>2, BeginWriteTypeInv
<1>3. ASSUME NEW r \in Reqs, NEW s \in {"active", "flagged"}, Write(r, s) PROVE TypeInv'
  BY <1>3, WriteTypeInv
<1>4. ASSUME NEW r \in Reqs, NEW run \in Runs, BeginPlan(r, run) PROVE TypeInv'
  BY <1>4, BeginPlanTypeInv
<1>5. ASSUME NEW r \in Reqs, NEW run \in Runs, NEW S \in SUBSET Notes,
             (\E p \in Pages : BeginPage(r, run, p, S)) \/ BeginDecline(r, run, S)
      PROVE  TypeInv'
  BY <1>5, BeginReadTypeInv
<1>6. ASSUME NEW r \in Reqs, NEW all \in AllPages, Plan(r, all) PROVE TypeInv'
  BY <1>6, PlanTypeInv
<1>7. ASSUME NEW r \in Reqs, WritePage(r) \/ StampDecline(r) \/ Decline(r) \/ Lose(r)
      PROVE  TypeInv'
  BY <1>7, WritePageTypeInv, StampDeclineTypeInv, DeclineTypeInv, LoseTypeInv
<1>8. ASSUME NEW n \in Notes, Publish(n) \/ Remove(n) PROVE TypeInv'
  BY <1>8, PublishTypeInv, RemoveTypeInv
<1>9. ASSUME NEW run \in Runs, Close(run, "succeeded") \/ Close(run, "failed") PROVE TypeInv'
  BY <1>9, CloseTypeInv
<1>10. ASSUME NEW r \in Reqs, ListPages(r) PROVE TypeInv'
  BY <1>10, ListPagesTypeInv
<1>11. CASE Next
  BY <1>2, <1>3, <1>4, <1>5, <1>6, <1>7, <1>8, <1>9, <1>10, <1>11 DEF Next
<1> QED BY <1>1, <1>11

(* Rows have their columns, every page names a run that exists, and a      *)
(* page's stamp is its run's: a run is opened once.                        *)
THEOREM TypeCorrect == Spec => []TypeOK
<1>1. TypeInv => TypeOK
  BY DEF TypeInv
<1> QED BY <1>1, InitTypeInv, NextTypeInv, PTL DEF Spec

-----------------------------------------------------------------------------
(* 3. What a run may still write.                                          *)

LEMMA StepIsClosed ==
    ASSUME TypeInv, [Next]_vars
    PROVE  /\ \A run \in DOMAIN runs \ Running :
                /\ runs'[run] = runs[run]
                /\ \A p \in DOMAIN pages' :
                      pages'[p].run = run => p \in DOMAIN pages /\ pages'[p] = pages[p]
           /\ \A p \in DOMAIN pages' :
                (p \notin DOMAIN pages \/ pages'[p] # pages[p])
                    => pages'[p].sources \subseteq DOMAIN notes
<1> DEFINE Closed ==
             /\ \A run \in DOMAIN runs \ Running :
                  /\ runs'[run] = runs[run]
                  /\ \A p \in DOMAIN pages' :
                        pages'[p].run = run => p \in DOMAIN pages /\ pages'[p] = pages[p]
             /\ \A p \in DOMAIN pages' :
                  (p \notin DOMAIN pages \/ pages'[p] # pages[p])
                      => pages'[p].sources \subseteq DOMAIN notes
<1>1. CASE UNCHANGED <<pages, runs>>
  BY <1>1
<1>2. ASSUME NEW r \in Reqs, NEW all \in AllPages, Plan(r, all) PROVE Closed
  BY <1>2, PlanDoes
<1>3. ASSUME NEW r \in Reqs, WritePage(r) PROVE Closed
  <2>1. CASE UNCHANGED <<tables, history>>
    BY <2>1 DEF tables
  <2>2. CASE ~UNCHANGED <<tables, history>>
    <3> DEFINE q == req[r]
    <3>1. /\ q.run \in Running /\ DOMAIN q.from \subseteq DOMAIN notes /\ runs' = runs
          /\ DOMAIN pages' = DOMAIN pages \cup {q.page}
          /\ pages'[q.page].sources = DOMAIN q.from
          /\ pages'[q.page].run = q.run
          /\ \A p \in DOMAIN pages : p # q.page => pages'[p] = pages[p]
      BY <1>3, <2>2, WritePageDoes DEF TypeInv
    <3> HIDE DEF q
    <3> QED BY <3>1
  <2> QED BY <2>1, <2>2
<1>4. ASSUME NEW run \in Runs, Close(run, "succeeded") \/ Close(run, "failed") PROVE Closed
  <2>1. pages' = pages /\ \A z \in DOMAIN runs \ Running : runs'[z] = runs[z]
    BY <1>4, CloseDoes DEF TypeInv
  <2> QED BY <2>1
<1> HIDE DEF Closed
<1>5. CASE Next
  <2>1. ASSUME NEW r \in Reqs, NEW n \in Notes, BeginWrite(r, n)
        PROVE  UNCHANGED <<pages, runs>>
    BY <2>1 DEF BeginWrite, tables
  <2>2. ASSUME NEW n \in Notes, Publish(n) \/ Remove(n) PROVE UNCHANGED <<pages, runs>>
    BY <2>2 DEF Publish, Remove
  <2>3. ASSUME NEW r \in Reqs, NEW s \in {"active", "flagged"}, Write(r, s)
        PROVE  UNCHANGED <<pages, runs>>
    BY <2>3 DEF Write
  <2>4. ASSUME NEW r \in Reqs, NEW run \in Runs, NEW S \in SUBSET Notes, NEW p \in Pages,
               BeginPage(r, run, p, S)
        PROVE  UNCHANGED <<pages, runs>>
    BY <2>4 DEF BeginPage, tables
  <2>5. ASSUME NEW r \in Reqs, NEW run \in Runs, NEW S \in SUBSET Notes,
               BeginPlan(r, run) \/ BeginDecline(r, run, S)
        PROVE  UNCHANGED <<pages, runs>>
    BY <2>5 DEF BeginPlan, BeginDecline, tables
  <2>6. ASSUME NEW r \in Reqs, ListPages(r) \/ StampDecline(r) \/ Decline(r) \/ Lose(r)
        PROVE  UNCHANGED <<pages, runs>>
    BY <2>6 DEF ListPages, StampDecline, Decline, Lose, tables
  <2> QED
    BY <1>1, <1>2, <1>3, <1>4, <1>5, <2>1, <2>2, <2>3, <2>4, <2>5, <2>6 DEF Next, Closed
<1>6. CASE UNCHANGED vars
  BY <1>1, <1>6 DEF vars
<1> QED BY <1>5, <1>6 DEF Closed

(* The outcome a run has reported is final: no page is added to it, no     *)
(* second finish overturns it, and the notes a page names are there when   *)
(* it is written, whatever was settled or removed while its text was being *)
(* embedded.                                                               *)
THEOREM ReportsAreFinal == Spec => SettledIsClosed
<1>1. TypeInv /\ [Next]_vars =>
        [/\ \A run \in DOMAIN runs \ Running :
              /\ runs'[run] = runs[run]
              /\ \A p \in DOMAIN pages' :
                    pages'[p].run = run => p \in DOMAIN pages /\ pages'[p] = pages[p]
         /\ \A p \in DOMAIN pages' :
              (p \notin DOMAIN pages \/ pages'[p] # pages[p])
                  => pages'[p].sources \subseteq DOMAIN notes]_vars
  BY StepIsClosed
<1> QED BY <1>1, InitTypeInv, NextTypeInv, PTL DEF Spec, SettledIsClosed

-----------------------------------------------------------------------------
(* 4. No change is lost to the planner.                                    *)

(* Publishing, removing and refusing notes, settling a run and losing a    *)
(* request move no revision and open nothing.                              *)
LEMMA QuietSteps ==
    ASSUME TypeInv,
           \/ \E n \in Notes : Publish(n) \/ Remove(n)
           \/ \E r \in Reqs : StampDecline(r) \/ Decline(r) \/ Lose(r)
           \/ \E run \in Runs, s \in {"succeeded", "failed"} : Close(run, s)
    PROVE  /\ \A x \in Reqs : req'[x] = req[x] \/ req'[x].pc \in {"idle", "decline"}
           /\ DOMAIN runs' = DOMAIN runs
           /\ \A run \in DOMAIN runs : runs'[run].started = runs[run].started
           /\ DOMAIN notes' \subseteq DOMAIN notes
           /\ \A n \in DOMAIN notes' : /\ notes'[n].updated = notes[n].updated
                                       /\ notes'[n].rev = notes[n].rev
           /\ UNCHANGED <<pages, basis, inflight>>
<1> DEFINE Quiet ==
           /\ \A x \in Reqs : req'[x] = req[x] \/ req'[x].pc \in {"idle", "decline"}
           /\ DOMAIN runs' = DOMAIN runs
           /\ \A run \in DOMAIN runs : runs'[run].started = runs[run].started
           /\ DOMAIN notes' \subseteq DOMAIN notes
           /\ \A n \in DOMAIN notes' : /\ notes'[n].updated = notes[n].updated
                                       /\ notes'[n].rev = notes[n].rev
           /\ UNCHANGED <<pages, basis, inflight>>
<1>1. ASSUME NEW n \in Notes, Publish(n) PROVE Quiet
  <2>1. /\ n \in DOMAIN notes /\ notes' = [notes EXCEPT ![n].status = "active"]
        /\ notes[n] \in Note /\ UNCHANGED <<pages, runs, req, basis, inflight>>
    BY <1>1, Rows DEF Publish, TypeInv
  <2>2. PICK u : u = [notes[n] EXCEPT !.status = "active"]
    OBVIOUS
  <2>3. u.updated = notes[n].updated /\ u.rev = notes[n].rev
    BY <2>1, <2>2 DEF Note
  <2>4. notes' = [notes EXCEPT ![n] = u]
    BY <2>1, <2>2
  <2> QED BY <2>1, <2>3, <2>4
<1>2. ASSUME NEW n \in Notes, Remove(n) PROVE Quiet
  BY <1>2 DEF Remove, Without
<1>3. ASSUME NEW r \in Reqs, StampDecline(r) PROVE Quiet
  BY <1>3, StampDeclineDoes DEF TypeInv, tables, history
<1>4. ASSUME NEW r \in Reqs, Decline(r) PROVE Quiet
  <2>1. /\ req'[r].pc = "idle" /\ \A x \in Reqs : x # r => req'[x] = req[x]
        /\ UNCHANGED <<pages, runs, now, gone, basis, inflight>>
    BY <1>4, DeclineDoes DEF TypeInv
  <2>2. /\ DOMAIN notes' = DOMAIN notes
        /\ \A n \in DOMAIN notes : /\ notes'[n].updated = notes[n].updated
                                   /\ notes'[n].rev = notes[n].rev
    <3>1. CASE notes' = notes
      BY <3>1
    <3>2. CASE notes' # notes
      BY <1>4, <3>2, DeclineDoes DEF TypeInv, tables
    <3> QED BY <3>1, <3>2
  <2> QED BY <2>1, <2>2
<1>5. ASSUME NEW r \in Reqs, Lose(r) PROVE Quiet
  BY <1>5, LoseDoes DEF TypeInv, tables, history
<1>6. ASSUME NEW run \in Runs, NEW s \in {"succeeded", "failed"}, Close(run, s) PROVE Quiet
  BY <1>6, CloseDoes DEF TypeInv, history
<1> HIDE DEF Quiet
<1>7. Quiet
  BY <1>1, <1>2, <1>3, <1>4, <1>5, <1>6
<1> QED BY <1>7 DEF Quiet

LEMMA QuietSeen ==
    ASSUME TypeInv, SeenOrInFlight,
           \/ \E n \in Notes : Publish(n) \/ Remove(n)
           \/ \E r \in Reqs : StampDecline(r) \/ Decline(r) \/ Lose(r)
           \/ \E run \in Runs, s \in {"succeeded", "failed"} : Close(run, s)
    PROVE  SeenOrInFlight'
<1>1. /\ \A x \in Reqs : req'[x] = req[x] \/ req'[x].pc \in {"idle", "decline"}
      /\ DOMAIN runs' = DOMAIN runs
      /\ \A run \in DOMAIN runs : runs'[run].started = runs[run].started
      /\ DOMAIN notes' \subseteq DOMAIN notes
      /\ \A n \in DOMAIN notes' : /\ notes'[n].updated = notes[n].updated
                                  /\ notes'[n].rev = notes[n].rev
      /\ UNCHANGED <<pages, basis, inflight>>
  BY QuietSteps
<1>2. WritersInFlight'
  BY <1>1 DEF SeenOrInFlight, WritersInFlight
<1>3. RequestsKnow'
  <2>1. \A r \in Reqs : req[r].pc = "page" => req[r].run \in DOMAIN runs
    BY DEF TypeInv, RunsOpenOnce, Reads
  <2> QED BY <1>1, <2>1 DEF SeenOrInFlight, RequestsKnow, Knows
<1>4. PagesKnow'
  BY <1>1, Rows DEF SeenOrInFlight, PagesKnow, Knows, TypeInv
<1> QED BY <1>2, <1>3, <1>4 DEF SeenOrInFlight

LEMMA BeginWriteDoes ==
    ASSUME TypeOK, NEW r \in Reqs, NEW n \in Notes, BeginWrite(r, n)
    PROVE  /\ n \notin gone /\ now' = now + 1
           /\ req'[r].pc = "write" /\ req'[r].note = n /\ req'[r].at = now
           /\ \A x \in Reqs : x # r => req'[x] = req[x]
           /\ UNCHANGED <<tables, history>>
BY DEF BeginWrite, Stamp, Goto, TypeOK

LEMMA BeginPlanDoes ==
    ASSUME TypeOK, NEW r \in Reqs, NEW run \in Runs, BeginPlan(r, run)
    PROVE  /\ run \notin DOMAIN runs /\ now' = now + 1
           /\ \A x \in Reqs : req[x].pc = "plan" => req[x].run # run
           /\ req'[r].pc = "plan" /\ req'[r].run = run /\ req'[r].at = now
           /\ \A x \in Reqs : x # r => req'[x] = req[x]
           /\ inflight'[run] = BeingWritten
           /\ \A z \in DOMAIN inflight : z # run => inflight'[z] = inflight[z]
           /\ UNCHANGED <<notes, pages, runs, gone, basis, refused, unseen, todo>>
<1>1. /\ run \notin DOMAIN runs /\ now' = now + 1
      /\ req' = [req EXCEPT ![r] = [pc |-> "plan", run |-> run, at |-> now, listed |-> {}]]
      /\ inflight' = With(inflight, run, BeingWritten)
      /\ \A x \in Reqs : req[x].pc = "plan" => req[x].run # run
      /\ UNCHANGED <<notes, pages, runs, gone, basis, refused, unseen, todo>>
  BY DEF BeginPlan, Stamp, Goto, tables
<1>2. /\ req'[r].pc = "plan" /\ req'[r].run = run /\ req'[r].at = now
      /\ \A x \in Reqs : x # r => req'[x] = req[x]
  BY <1>1 DEF TypeOK
<1>3. /\ inflight'[run] = BeingWritten
      /\ \A z \in DOMAIN inflight : z # run => inflight'[z] = inflight[z]
  BY <1>1 DEF With
<1> QED BY <1>1, <1>2, <1>3

(* A step of the writers, of a plan or of a page keeps what is known.      *)
LEMMA BeginWriteSeen ==
    ASSUME TypeInv, SeenOrInFlight, NEW r \in Reqs, NEW n \in Notes, BeginWrite(r, n)
    PROVE  SeenOrInFlight'
<1>1. /\ req'[r].pc = "write" /\ req'[r].at = now
      /\ \A x \in Reqs : x # r => req'[x] = req[x]
      /\ UNCHANGED <<notes, pages, runs, gone, basis, inflight>>
  BY BeginWriteDoes DEF TypeInv, tables, history
<1>2. /\ \A run \in DOMAIN runs : ~(now <= runs[run].started)
      /\ \A q \in Reqs : req[q].pc = "plan" => ~(now <= req[q].at)
  BY StampsAreInts DEF TypeInv, StampsPassed
<1>3. WritersInFlight'
  BY <1>1, <1>2 DEF SeenOrInFlight, WritersInFlight
<1> QED BY <1>1, <1>3 DEF SeenOrInFlight, RequestsKnow, PagesKnow, Knows

LEMMA WriteSeen ==
    ASSUME TypeInv, SeenOrInFlight, NEW r \in Reqs, NEW s \in {"active", "flagged"}, Write(r, s)
    PROVE  SeenOrInFlight'
<1> DEFINE n == req[r].note
<1>1. /\ req[r].pc = "write" /\ req'[r].pc = "idle"
      /\ \A x \in Reqs : x # r => req'[x] = req[x]
      /\ UNCHANGED <<pages, runs, now, gone, basis, inflight>>
  BY WriteDoes DEF TypeInv
<1>2. /\ DOMAIN notes' \subseteq DOMAIN notes \cup {n}
      /\ \A z \in DOMAIN notes : z # n => notes'[z] = notes[z]
      /\ notes' # notes => n \notin gone /\ notes'[n].updated = req[r].at
  BY WriteDoes DEF TypeInv
<1>3. WritersInFlight'
  BY <1>1 DEF SeenOrInFlight, WritersInFlight
<1>4. ASSUME NEW run \in DOMAIN runs, NEW z \in DOMAIN notes \cup gone, NEW rev,
             z \in DOMAIN notes => Knows(run, z, rev), z \in DOMAIN notes'
      PROVE  Knows(run, z, rev)'
  <2>1. CASE notes' = notes
    BY <1>1, <1>4, <2>1 DEF Knows
  <2>2. CASE notes' # notes /\ z # n
    BY <1>1, <1>2, <1>4, <2>2 DEF Knows
  <2>3. CASE notes' # notes /\ z = n
    <3>1. notes'[z].updated <= runs[run].started => z \in inflight[run]
      BY <1>1, <1>2, <2>3 DEF SeenOrInFlight, WritersInFlight
    <3> QED BY <1>1, <3>1 DEF Knows
  <2> QED BY <2>1, <2>2, <2>3
<1>5. RequestsKnow'
  <2>1. \A x \in Reqs : req'[x].pc = "page" => req'[x] = req[x] /\ req[x].pc = "page"
    BY <1>1
  <2>2. \A x \in Reqs : req[x].pc = "page" => /\ req[x].run \in DOMAIN runs
                                              /\ DOMAIN req[x].from \subseteq DOMAIN notes \cup gone
    BY DEF TypeInv, RunsOpenOnce, NotesStay, Reads
  <2> QED BY <1>1, <1>4, <2>1, <2>2 DEF SeenOrInFlight, RequestsKnow
<1>6. PagesKnow'
  <2>1. \A p \in DOMAIN pages : /\ pages[p].run \in DOMAIN runs
                                /\ pages[p].sources \subseteq DOMAIN notes \cup gone
    BY Rows DEF TypeInv, NotesStay
  <2> QED BY <1>1, <1>4, <2>1 DEF SeenOrInFlight, PagesKnow
<1> QED BY <1>3, <1>5, <1>6 DEF SeenOrInFlight

LEMMA BeginPlanSeen ==
    ASSUME TypeInv, SeenOrInFlight, NEW r \in Reqs, NEW run \in Runs, BeginPlan(r, run)
    PROVE  SeenOrInFlight'
<1>1. /\ run \notin DOMAIN runs
      /\ \A x \in Reqs : req[x].pc = "plan" => req[x].run # run
      /\ req'[r].pc = "plan" /\ req'[r].run = run /\ req'[r].at = now
      /\ \A x \in Reqs : x # r => req'[x] = req[x]
      /\ inflight'[run] = BeingWritten
      /\ \A z \in DOMAIN inflight : z # run => inflight'[z] = inflight[z]
      /\ UNCHANGED <<notes, pages, runs, gone, basis>>
  BY BeginPlanDoes DEF TypeInv
<1>2. \A z \in DOMAIN runs : inflight'[z] = inflight[z]
  BY <1>1 DEF TypeInv, RunsOpenOnce
<1>3. \A x \in Reqs : x # r /\ req[x].pc = "plan" => inflight'[req[x].run] = inflight[req[x].run]
  BY <1>1 DEF TypeInv, RunsOpenOnce
<1>4. WritersInFlight'
  <2>1. \A x \in Reqs : req[x].pc = "write" => req[x].note \in BeingWritten
    BY DEF BeingWritten
  <2>2. ASSUME NEW x \in Reqs, NEW q \in Reqs, req'[x].pc = "write", req'[q].pc = "plan",
               req'[x].at <= req'[q].at
        PROVE  req'[x].note \in inflight'[req'[q].run]
    <3>1. x # r /\ req'[x] = req[x] /\ req[x].pc = "write"
      BY <1>1, <2>2
    <3>2. CASE q = r
      BY <1>1, <2>1, <3>1, <3>2
    <3>3. CASE q # r
      BY <1>1, <1>3, <2>2, <3>1, <3>3 DEF SeenOrInFlight, WritersInFlight
    <3> QED BY <3>2, <3>3
  <2>3. ASSUME NEW x \in Reqs, NEW z \in DOMAIN runs, req'[x].pc = "write",
               req'[x].at <= runs[z].started
        PROVE  req'[x].note \in inflight'[z]
    BY <1>1, <1>2, <2>3 DEF SeenOrInFlight, WritersInFlight
  <2> QED BY <1>1, <2>2, <2>3 DEF WritersInFlight
<1>5. RequestsKnow'
  <2>1. \A x \in Reqs : req[x].pc = "page" => req[x].run \in DOMAIN runs
    BY DEF TypeInv, RunsOpenOnce, Reads
  <2> QED BY <1>1, <1>2, <2>1 DEF SeenOrInFlight, RequestsKnow, Knows
<1>6. PagesKnow'
  BY <1>1, <1>2, Rows DEF SeenOrInFlight, PagesKnow, Knows, TypeInv
<1> QED BY <1>4, <1>5, <1>6 DEF SeenOrInFlight

LEMMA PlanSeen ==
    ASSUME TypeInv, SeenOrInFlight, NEW r \in Reqs, NEW all \in AllPages, Plan(r, all)
    PROVE  SeenOrInFlight'
<1> DEFINE run == req[r].run
<1>1. /\ req[r].pc = "plan" /\ run \notin DOMAIN runs /\ req'[r].pc = "idle"
      /\ \A x \in Reqs : x # r => req'[x] = req[x]
      /\ DOMAIN runs' = DOMAIN runs \cup {run}
      /\ runs'[run].started = req[r].at
      /\ \A z \in DOMAIN runs : runs'[z] = runs[z]
      /\ UNCHANGED <<notes, pages, now, gone, basis, inflight>>
  BY PlanDoes
<1>2. WritersInFlight'
  <2>1. ASSUME NEW x \in Reqs, NEW z \in DOMAIN runs', req'[x].pc = "write",
               req'[x].at <= runs'[z].started
        PROVE  req'[x].note \in inflight[z]
    <3>1. req'[x] = req[x]
      BY <1>1, <2>1
    <3>2. CASE z = run
      BY <1>1, <2>1, <3>1, <3>2 DEF SeenOrInFlight, WritersInFlight
    <3>3. CASE z # run
      BY <1>1, <2>1, <3>1, <3>3 DEF SeenOrInFlight, WritersInFlight
    <3> QED BY <3>2, <3>3
  <2>2. ASSUME NEW x \in Reqs, NEW q \in Reqs, req'[x].pc = "write", req'[q].pc = "plan",
               req'[x].at <= req'[q].at
        PROVE  req'[x].note \in inflight[req'[q].run]
    BY <1>1, <2>2 DEF SeenOrInFlight, WritersInFlight
  <2> QED BY <1>1, <2>1, <2>2 DEF WritersInFlight
<1>3. RequestsKnow'
  <2>1. \A x \in Reqs : req[x].pc = "page" => req[x].run \in DOMAIN runs
    BY DEF TypeInv, RunsOpenOnce, Reads
  <2> QED BY <1>1, <2>1 DEF SeenOrInFlight, RequestsKnow, Knows
<1>4. PagesKnow'
  BY <1>1, Rows DEF SeenOrInFlight, PagesKnow, Knows, TypeInv
<1> QED BY <1>2, <1>3, <1>4 DEF SeenOrInFlight

LEMMA BeginReadSeen ==
    ASSUME TypeInv, SeenOrInFlight, NEW r \in Reqs, NEW run \in Runs, NEW S \in SUBSET Notes,
           (\E p \in Pages : BeginPage(r, run, p, S)) \/ BeginDecline(r, run, S)
    PROVE  SeenOrInFlight'
<1>1. /\ req'[r].pc \in {"page", "refuse"} /\ req'[r].run = run
      /\ DOMAIN req'[r].from = S /\ \A n \in S : req'[r].from[n] = notes[n].rev
      /\ \A x \in Reqs : x # r => req'[x] = req[x]
      /\ UNCHANGED <<notes, pages, runs, now, gone, basis, inflight>>
  BY BeginReadDoes DEF TypeInv, tables, history
<1>2. WritersInFlight'
  BY <1>1 DEF SeenOrInFlight, WritersInFlight
<1>3. RequestsKnow'
  BY <1>1 DEF SeenOrInFlight, RequestsKnow, Knows
<1>4. PagesKnow'
  BY <1>1 DEF SeenOrInFlight, PagesKnow, Knows
<1> QED BY <1>2, <1>3, <1>4 DEF SeenOrInFlight

LEMMA WritePageSeen ==
    ASSUME TypeInv, SeenOrInFlight, DOMAIN basis = DOMAIN pages, NEW r \in Reqs, WritePage(r)
    PROVE  SeenOrInFlight'
<1> DEFINE q == req[r]
<1>1. /\ q.pc = "page" /\ req'[r].pc = "idle"
      /\ \A x \in Reqs : x # r => req'[x] = req[x]
      /\ UNCHANGED <<notes, runs, now, gone, inflight>>
  BY WritePageDoes DEF TypeInv
<1>2. WritersInFlight' /\ RequestsKnow'
  BY <1>1 DEF SeenOrInFlight, WritersInFlight, RequestsKnow, Knows
<1>3. PagesKnow'
  <2>1. CASE UNCHANGED <<tables, history>>
    BY <1>1, <2>1 DEF SeenOrInFlight, PagesKnow, Knows, tables, history
  <2>2. CASE ~UNCHANGED <<tables, history>>
    <3>1. /\ DOMAIN pages' = DOMAIN pages \cup {q.page}
          /\ pages'[q.page].sources = DOMAIN q.from
          /\ pages'[q.page].run = q.run
          /\ basis'[q.page] = q.from
          /\ \A p \in DOMAIN pages : p # q.page => pages'[p] = pages[p]
          /\ \A p \in DOMAIN basis : p # q.page => basis'[p] = basis[p]
      BY <2>2, WritePageDoes DEF TypeInv
    <3>2. \A n \in DOMAIN q.from \cap DOMAIN notes : Knows(q.run, n, q.from[n])
      BY <1>1 DEF SeenOrInFlight, RequestsKnow
    <3> HIDE DEF q
    <3> QED BY <1>1, <3>1, <3>2 DEF SeenOrInFlight, PagesKnow, Knows
  <2> QED BY <2>1, <2>2
<1> QED BY <1>2, <1>3 DEF SeenOrInFlight

LEMMA ListPagesSeen ==
    ASSUME TypeInv, SeenOrInFlight, NEW r \in Reqs, ListPages(r)
    PROVE  SeenOrInFlight'
<1>1. /\ req[r].pc = "plan" /\ req'[r].pc = "plan"
      /\ req'[r].run = req[r].run /\ req'[r].at = req[r].at
      /\ \A x \in Reqs : x # r => req'[x] = req[x]
      /\ UNCHANGED <<notes, pages, runs, basis, inflight>>
  BY ListPagesDoes DEF TypeInv, tables, history
<1>2. WritersInFlight'
  BY <1>1 DEF SeenOrInFlight, WritersInFlight
<1>3. RequestsKnow'
  BY <1>1 DEF SeenOrInFlight, RequestsKnow, Knows
<1>4. PagesKnow'
  BY <1>1 DEF SeenOrInFlight, PagesKnow, Knows
<1> QED BY <1>2, <1>3, <1>4 DEF SeenOrInFlight

LEMMA NextSeen ==
    ASSUME TypeInv, Based, SeenOrInFlight, [Next]_vars
    PROVE  Based' /\ SeenOrInFlight'
<1>1. ASSUME NEW r \in Reqs, NEW n \in Notes, BeginWrite(r, n) PROVE Based' /\ SeenOrInFlight'
  BY <1>1, BeginWriteSeen DEF Based, BeginWrite, tables, history
<1>2. ASSUME NEW r \in Reqs, NEW s \in {"active", "flagged"}, Write(r, s)
      PROVE  Based' /\ SeenOrInFlight'
  BY <1>2, WriteSeen DEF Based, Write
<1>3. ASSUME NEW r \in Reqs, NEW run \in Runs, BeginPlan(r, run)
      PROVE  Based' /\ SeenOrInFlight'
  BY <1>3, BeginPlanSeen DEF Based, BeginPlan, tables
<1>4. ASSUME NEW r \in Reqs, NEW run \in Runs, NEW S \in SUBSET Notes,
             (\E p \in Pages : BeginPage(r, run, p, S)) \/ BeginDecline(r, run, S)
      PROVE  Based' /\ SeenOrInFlight'
  BY <1>4, BeginReadSeen DEF Based, BeginPage, BeginDecline, tables, history
<1>5. ASSUME NEW r \in Reqs, NEW all \in AllPages, Plan(r, all)
      PROVE  Based' /\ SeenOrInFlight'
  BY <1>5, PlanSeen DEF Based, Plan
<1>10. ASSUME NEW r \in Reqs, ListPages(r) PROVE Based' /\ SeenOrInFlight'
  BY <1>10, ListPagesSeen DEF Based, ListPages, tables, history
<1>6. ASSUME NEW r \in Reqs, WritePage(r) PROVE Based' /\ SeenOrInFlight'
  <2>1. SeenOrInFlight'
    BY <1>6, WritePageSeen DEF Based
  <2>2. CASE UNCHANGED <<tables, history>>
    BY <2>1, <2>2 DEF Based, tables, history
  <2>3. CASE ~UNCHANGED <<tables, history>>
    BY <1>6, <2>1, <2>3, WritePageDoes DEF Based, TypeInv
  <2> QED BY <2>2, <2>3
<1>7. ASSUME \/ \E n \in Notes : Publish(n) \/ Remove(n)
             \/ \E r \in Reqs : StampDecline(r) \/ Decline(r) \/ Lose(r)
             \/ \E run \in Runs, s \in {"succeeded", "failed"} : Close(run, s)
      PROVE  Based' /\ SeenOrInFlight'
  BY <1>7, QuietSteps, QuietSeen DEF Based
<1>8. CASE UNCHANGED vars
  BY <1>8 DEF vars, Based, SeenOrInFlight, WritersInFlight, RequestsKnow, PagesKnow, Knows
<1>9. CASE Next
  <2> DEFINE Goal == Based' /\ SeenOrInFlight'
  <2> HIDE DEF Goal
  <2>1. ASSUME NEW r \in Reqs, StampDecline(r) \/ Decline(r) \/ Lose(r) PROVE Goal
    BY <1>7, <2>1 DEF Goal
  <2>2. ASSUME NEW n \in Notes, Publish(n) \/ Remove(n) PROVE Goal
    BY <1>7, <2>2 DEF Goal
  <2>3. ASSUME NEW run \in Runs, Close(run, "succeeded") \/ Close(run, "failed") PROVE Goal
    BY <1>7, <2>3 DEF Goal
  <2>4. Goal
    BY <1>1, <1>2, <1>3, <1>4, <1>5, <1>6, <1>9, <1>10, <2>1, <2>2, <2>3 DEF Next, Goal
  <2> QED BY <2>4 DEF Goal
<1> QED BY <1>8, <1>9

(* Steps that neither write nor refuse a note.                             *)
LEMMA StillSteps ==
    ASSUME TypeInv,
           \/ \E n \in Notes : Publish(n) \/ Remove(n)
           \/ \E r \in Reqs, run \in Runs :
                 \/ BeginPlan(r, run)
                 \/ \E S \in SUBSET Notes :
                       (\E p \in Pages : BeginPage(r, run, p, S)) \/ BeginDecline(r, run, S)
           \/ \E r \in Reqs : \/ ListPages(r) \/ \E all \in AllPages : Plan(r, all)
                             \/ WritePage(r) \/ Lose(r)
           \/ \E run \in Runs, s \in {"succeeded", "failed"} : Close(run, s)
    PROVE  /\ \A x \in Reqs : req'[x] = req[x] \/ req'[x].pc \notin {"write", "decline"}
           /\ DOMAIN notes' \subseteq DOMAIN notes
           /\ \A n \in DOMAIN notes' :
                 /\ notes'[n].updated = notes[n].updated /\ notes'[n].rev = notes[n].rev
                 /\ notes'[n].declined = notes[n].declined
                 /\ n \in DOMAIN refused => n \in DOMAIN refused' /\ refused'[n] = refused[n]
                 /\ n \in unseen => n \in unseen'
<1> DEFINE Still ==
           /\ \A x \in Reqs : req'[x] = req[x] \/ req'[x].pc \notin {"write", "decline"}
           /\ DOMAIN notes' \subseteq DOMAIN notes
           /\ \A n \in DOMAIN notes' :
                 /\ notes'[n].updated = notes[n].updated /\ notes'[n].rev = notes[n].rev
                 /\ notes'[n].declined = notes[n].declined
                 /\ n \in DOMAIN refused => n \in DOMAIN refused' /\ refused'[n] = refused[n]
                 /\ n \in unseen => n \in unseen'
<1>1. ASSUME NEW n \in Notes, Publish(n) PROVE Still
  <2>1. /\ n \in DOMAIN notes /\ notes' = [notes EXCEPT ![n].status = "active"]
        /\ notes[n] \in Note /\ UNCHANGED <<req, refused, unseen>>
    BY <1>1, Rows DEF Publish, TypeInv
  <2>2. PICK u : u = [notes[n] EXCEPT !.status = "active"]
    OBVIOUS
  <2>3. u.updated = notes[n].updated /\ u.rev = notes[n].rev /\ u.declined = notes[n].declined
    BY <2>1, <2>2 DEF Note
  <2>4. notes' = [notes EXCEPT ![n] = u]
    BY <2>1, <2>2
  <2> QED BY <2>1, <2>3, <2>4
<1>2. ASSUME NEW n \in Notes, Remove(n) PROVE Still
  BY <1>2 DEF Remove, Without
<1>3. ASSUME NEW r \in Reqs, NEW run \in Runs, BeginPlan(r, run) PROVE Still
  BY <1>3, BeginPlanDoes DEF TypeInv
<1>4. ASSUME NEW r \in Reqs, NEW run \in Runs, NEW S \in SUBSET Notes,
             (\E p \in Pages : BeginPage(r, run, p, S)) \/ BeginDecline(r, run, S)
      PROVE  Still
  BY <1>4, BeginReadDoes DEF TypeInv, tables, history
<1>5. ASSUME NEW r \in Reqs, NEW all \in AllPages, Plan(r, all) PROVE Still
  <2>1. /\ req'[r].pc = "idle" /\ \A x \in Reqs : x # r => req'[x] = req[x]
        /\ UNCHANGED <<notes, refused, unseen>>
    BY <1>5, PlanDoes
  <2> QED BY <2>1
<1>6. ASSUME NEW r \in Reqs, WritePage(r) PROVE Still
  <2>1. /\ req'[r].pc = "idle" /\ \A x \in Reqs : x # r => req'[x] = req[x]
        /\ UNCHANGED <<notes, refused, unseen>>
    BY <1>6, WritePageDoes DEF TypeInv
  <2> QED BY <2>1
<1>7. ASSUME NEW r \in Reqs, Lose(r) PROVE Still
  BY <1>7, LoseDoes DEF TypeInv, tables, history
<1>8. ASSUME NEW run \in Runs, NEW s \in {"succeeded", "failed"}, Close(run, s) PROVE Still
  <2>1. UNCHANGED <<notes, req, refused, unseen>>
    BY <1>8 DEF Close, history
  <2> QED BY <2>1
<1>9. ASSUME NEW r \in Reqs, ListPages(r) PROVE Still
  <2>1. /\ req'[r].pc = "plan" /\ \A x \in Reqs : x # r => req'[x] = req[x]
        /\ UNCHANGED <<notes, refused, unseen>>
    BY <1>9, ListPagesDoes DEF TypeInv, tables, history
  <2> QED BY <2>1
<1> HIDE DEF Still
<1>10. Still
  BY <1>1, <1>2, <1>3, <1>4, <1>5, <1>6, <1>7, <1>8, <1>9
<1> QED BY <1>10 DEF Still

LEMMA StillRead ==
    ASSUME TypeInv, RefusalsAreRead,
           \/ \E n \in Notes : Publish(n) \/ Remove(n)
           \/ \E r \in Reqs, run \in Runs :
                 \/ BeginPlan(r, run)
                 \/ \E S \in SUBSET Notes :
                       (\E p \in Pages : BeginPage(r, run, p, S)) \/ BeginDecline(r, run, S)
           \/ \E r \in Reqs : \/ ListPages(r) \/ \E all \in AllPages : Plan(r, all)
                             \/ WritePage(r) \/ Lose(r)
           \/ \E run \in Runs, s \in {"succeeded", "failed"} : Close(run, s)
    PROVE  RefusalsAreRead'
<1>1. /\ \A x \in Reqs : req'[x] = req[x] \/ req'[x].pc \notin {"write", "decline"}
      /\ DOMAIN notes' \subseteq DOMAIN notes
      /\ \A n \in DOMAIN notes' :
            /\ notes'[n].updated = notes[n].updated /\ notes'[n].rev = notes[n].rev
            /\ notes'[n].declined = notes[n].declined
            /\ n \in DOMAIN refused => n \in DOMAIN refused' /\ refused'[n] = refused[n]
            /\ n \in unseen => n \in unseen'
  BY StillSteps
<1>2. RefusedWereRead'
  BY <1>1 DEF RefusalsAreRead, RefusedWereRead
<1>3. WritersBehind'
  BY <1>1 DEF RefusalsAreRead, WritersBehind
<1>4. RefusalsKnow'
  BY <1>1 DEF RefusalsAreRead, RefusalsKnow
<1> QED BY <1>2, <1>3, <1>4 DEF RefusalsAreRead

LEMMA BeginWriteRead ==
    ASSUME TypeInv, RefusalsAreRead, NEW r \in Reqs, NEW n \in Notes, BeginWrite(r, n)
    PROVE  RefusalsAreRead'
<1>1. /\ req'[r].pc = "write" /\ req'[r].at = now /\ req'[r].note = n
      /\ \A x \in Reqs : x # r => req'[x] = req[x]
      /\ UNCHANGED <<notes, refused, unseen>>
  BY BeginWriteDoes DEF TypeInv, tables, history
<1>2. /\ \A z \in DOMAIN notes : ~(now <= notes[z].declined)
      /\ \A q \in Reqs : req[q].pc = "decline" => ~(now <= req[q].at)
  BY StampsAreInts DEF TypeInv, StampsPassed
<1>3. RefusedWereRead'
  BY <1>1 DEF RefusalsAreRead, RefusedWereRead
<1>4. WritersBehind'
  BY <1>1, <1>2 DEF RefusalsAreRead, WritersBehind
<1>5. RefusalsKnow'
  BY <1>1, <1>2 DEF RefusalsAreRead, RefusalsKnow
<1> QED BY <1>3, <1>4, <1>5 DEF RefusalsAreRead

LEMMA WriteRead ==
    ASSUME TypeInv, RefusalsAreRead, NEW r \in Reqs, NEW s \in {"active", "flagged"}, Write(r, s)
    PROVE  RefusalsAreRead'
<1> DEFINE n == req[r].note
<1>1. /\ req[r].pc = "write" /\ req'[r].pc = "idle"
      /\ \A x \in Reqs : x # r => req'[x] = req[x]
      /\ UNCHANGED <<refused, unseen>>
  BY WriteDoes DEF TypeInv
<1>2. /\ DOMAIN notes' \subseteq DOMAIN notes \cup {n}
      /\ \A z \in DOMAIN notes : z # n => notes'[z] = notes[z]
  BY WriteDoes DEF TypeInv
<1>3. CASE notes' = notes
  BY <1>1, <1>3 DEF RefusalsAreRead, RefusedWereRead, WritersBehind, RefusalsKnow
<1>4. CASE notes' # notes
  <2>1. /\ n \notin gone /\ notes'[n].updated = req[r].at
        /\ n \notin DOMAIN notes => notes'[n].declined = Never
        /\ n \in DOMAIN notes => notes'[n].declined = notes[n].declined
    BY <1>4, WriteDoes DEF TypeInv
  <2>2. RefusedWereRead'
    <3>1. ASSUME n \in DOMAIN notes, notes'[n].updated <= notes'[n].declined
          PROVE  n \in unseen
      BY <1>1, <2>1, <3>1 DEF RefusalsAreRead, WritersBehind
    <3> HIDE DEF n
    <3> QED BY <1>1, <1>2, <2>1, <3>1 DEF RefusalsAreRead, RefusedWereRead
  <2>3. WritersBehind'
    <3>1. ASSUME NEW x \in Reqs, req'[x].pc = "write", req'[x].note \in DOMAIN notes',
                 req'[x].at <= notes'[req'[x].note].declined
          PROVE  req'[x].note \in unseen
      <4>1. x # r /\ req'[x] = req[x] /\ req[x].pc = "write" /\ req[x].at \in Stamps
        BY <1>1, <3>1, Rows, RequestColumns DEF TypeInv
      <4>2. CASE req[x].note = n /\ n \notin DOMAIN notes
        <5>1. ~(req[x].at <= Never)
          BY <4>1 DEF Stamps, Never
        <5> QED BY <2>1, <3>1, <4>1, <4>2, <5>1
      <4>3. CASE req[x].note # n \/ n \in DOMAIN notes
        <5>1. /\ req[x].note \in DOMAIN notes
              /\ notes'[req[x].note].declined = notes[req[x].note].declined
          BY <1>2, <2>1, <3>1, <4>1, <4>3
        <5> QED BY <3>1, <4>1, <5>1 DEF RefusalsAreRead, WritersBehind
      <4> QED BY <4>2, <4>3
    <3> QED BY <1>1, <3>1 DEF WritersBehind
  <2>4. RefusalsKnow'
    <3>1. ASSUME NEW x \in Reqs, req[x].pc = "decline", n \in DOMAIN req[x].from,
                 notes'[n].updated <= req[x].at
          PROVE  n \in req[x].behind
      BY <1>1, <2>1, <3>1 DEF RefusalsAreRead, RefusalsKnow
    <3>2. \A x \in Reqs : req'[x].pc = "decline" => req'[x] = req[x]
      BY <1>1
    <3>3. \A x \in Reqs : req'[x].pc = "write" => req'[x] = req[x]
      BY <1>1
    <3>4. \A x \in Reqs : req[x].pc = "decline" /\ n \in DOMAIN req[x].from => n \in DOMAIN notes
      BY <2>1 DEF TypeInv, NotesStay, Reads
    <3> HIDE DEF n
    <3>5. ASSUME NEW x \in Reqs, req[x].pc = "decline",
                 NEW z \in DOMAIN req[x].from \cap DOMAIN notes', notes'[z].updated <= req[x].at
          PROVE  notes'[z].rev = req[x].from[z] \/ z \in req[x].behind
      <4>1. CASE z = n
        BY <3>1, <3>5, <4>1
      <4>2. CASE z # n
        BY <1>2, <3>5, <4>2 DEF RefusalsAreRead, RefusalsKnow
      <4> QED BY <4>1, <4>2
    <3> QED BY <3>2, <3>3, <3>5 DEF RefusalsAreRead, RefusalsKnow
  <2> QED BY <2>2, <2>3, <2>4 DEF RefusalsAreRead
<1> QED BY <1>3, <1>4

LEMMA StampDeclineRead ==
    ASSUME TypeInv, RefusalsAreRead, NEW r \in Reqs, StampDecline(r)
    PROVE  RefusalsAreRead'
<1> DEFINE q == req[r]
<1>1. /\ req'[r].pc = "decline" /\ req'[r].from = q.from /\ req'[r].at = now
      /\ \A n \in DOMAIN q.from :
            (n \in BeingWritten \/ ~Active(n) \/ notes[n].rev # q.from[n])
               => n \in req'[r].behind
      /\ \A x \in Reqs : x # r => req'[x] = req[x]
      /\ UNCHANGED <<notes, refused, unseen>>
  BY StampDeclineDoes DEF TypeInv, tables, history
<1>2. RefusedWereRead'
  BY <1>1 DEF RefusalsAreRead, RefusedWereRead
<1>3. WritersBehind'
  BY <1>1 DEF RefusalsAreRead, WritersBehind
<1>4. RefusalsKnow'
  <2>1. \A x \in Reqs : req[x].pc = "write" => req[x].note \in BeingWritten
    BY DEF BeingWritten
  <2> HIDE DEF q
  <2> QED BY <1>1, <2>1 DEF RefusalsAreRead, RefusalsKnow
<1> QED BY <1>2, <1>3, <1>4 DEF RefusalsAreRead

LEMMA DeclineRead ==
    ASSUME TypeInv, RefusalsAreRead, NEW r \in Reqs, Decline(r)
    PROVE  RefusalsAreRead'
<1> DEFINE q == req[r]
           D == DOMAIN q.from
<1>1. /\ q.pc = "decline" /\ q.at \in Stamps /\ req'[r].pc = "idle"
      /\ \A x \in Reqs : x # r => req'[x] = req[x]
  BY DeclineDoes DEF TypeInv
<1>2. CASE UNCHANGED <<tables, history>>
  BY <1>1, <1>2 DEF tables, history, RefusalsAreRead, RefusedWereRead, WritersBehind, RefusalsKnow
<1>3. CASE ~UNCHANGED <<tables, history>>
  <2>1. /\ D \subseteq DOMAIN notes /\ DOMAIN notes' = DOMAIN notes
        /\ \A n \in DOMAIN notes \ D : notes'[n] = notes[n]
        /\ \A n \in D : /\ notes'[n].declined = q.at /\ notes'[n].rev = notes[n].rev
                        /\ notes'[n].updated = notes[n].updated
        /\ DOMAIN refused' = DOMAIN refused \cup D
        /\ \A n \in D : refused'[n] = q.from[n]
        /\ \A n \in DOMAIN refused \ D : refused'[n] = refused[n]
        /\ unseen' = (unseen \ D) \cup q.behind
    BY <1>3, DeclineDoes DEF TypeInv
  <2>2. /\ \A n \in D : notes[n].updated <= q.at => notes[n].rev = q.from[n] \/ n \in q.behind
        /\ \A x \in Reqs : req[x].pc = "write" /\ req[x].note \in D /\ req[x].at <= q.at
                              => req[x].note \in q.behind
    BY <1>1, <2>1 DEF RefusalsAreRead, RefusalsKnow
  <2> HIDE DEF q, D
  <2>3. RefusedWereRead'
    BY <2>1, <2>2 DEF RefusalsAreRead, RefusedWereRead
  <2>4. WritersBehind'
    <3>1. \A x \in Reqs : req'[x].pc = "write" => req'[x] = req[x]
      BY <1>1
    <3>2. ASSUME NEW x \in Reqs, req[x].pc = "write", req[x].note \in DOMAIN notes',
                 req[x].at <= notes'[req[x].note].declined
          PROVE  req[x].note \in unseen'
      <4>1. CASE req[x].note \in D
        BY <2>1, <2>2, <3>2, <4>1
      <4>2. CASE req[x].note \notin D
        BY <2>1, <3>2, <4>2 DEF RefusalsAreRead, WritersBehind
      <4> QED BY <4>1, <4>2
    <3> QED BY <3>1, <3>2 DEF WritersBehind
  <2>5. RefusalsKnow'
    <3>1. \A x \in Reqs : req'[x].pc \in {"write", "decline"} => req'[x] = req[x]
      BY <1>1
    <3>2. \A n \in DOMAIN notes : /\ notes'[n].rev = notes[n].rev
                                  /\ notes'[n].updated = notes[n].updated
      BY <2>1
    <3> QED BY <2>1, <3>1, <3>2 DEF RefusalsAreRead, RefusalsKnow
  <2> QED BY <2>3, <2>4, <2>5 DEF RefusalsAreRead
<1> QED BY <1>2, <1>3

LEMMA NextRead ==
    ASSUME TypeInv, RefusalsAreRead, [Next]_vars
    PROVE  RefusalsAreRead'
<1>1. ASSUME NEW r \in Reqs, NEW n \in Notes, BeginWrite(r, n) PROVE RefusalsAreRead'
  BY <1>1, BeginWriteRead
<1>2. ASSUME NEW r \in Reqs, NEW s \in {"active", "flagged"}, Write(r, s)
      PROVE  RefusalsAreRead'
  BY <1>2, WriteRead
<1>3. ASSUME NEW r \in Reqs, NEW run \in Runs, BeginPlan(r, run) PROVE RefusalsAreRead'
  BY <1>3, StillRead
<1>4. ASSUME NEW r \in Reqs, NEW run \in Runs, NEW S \in SUBSET Notes,
             (\E p \in Pages : BeginPage(r, run, p, S)) \/ BeginDecline(r, run, S)
      PROVE  RefusalsAreRead'
  BY <1>4, StillRead
<1>5. ASSUME NEW r \in Reqs, NEW all \in AllPages, Plan(r, all) PROVE RefusalsAreRead'
  BY <1>5, StillRead
<1>6. ASSUME NEW r \in Reqs, ListPages(r) \/ WritePage(r) \/ Lose(r) PROVE RefusalsAreRead'
  BY <1>6, StillRead
<1>7. ASSUME NEW r \in Reqs, StampDecline(r) \/ Decline(r) PROVE RefusalsAreRead'
  BY <1>7, StampDeclineRead, DeclineRead
<1>8. ASSUME NEW n \in Notes, Publish(n) \/ Remove(n) PROVE RefusalsAreRead'
  BY <1>8, StillRead
<1>9. ASSUME NEW run \in Runs, Close(run, "succeeded") \/ Close(run, "failed")
      PROVE  RefusalsAreRead'
  BY <1>9, StillRead
<1>10. CASE UNCHANGED vars
  BY <1>10 DEF vars, RefusalsAreRead, RefusedWereRead, WritersBehind, RefusalsKnow
<1>11. CASE Next
  <2> DEFINE Goal == RefusalsAreRead'
  <2> HIDE DEF Goal
  <2>1. Goal
    BY <1>1, <1>2, <1>3, <1>4, <1>5, <1>6, <1>7, <1>8, <1>9, <1>11 DEF Next, Goal
  <2> QED BY <2>1 DEF Goal
<1> QED BY <1>10, <1>11

-----------------------------------------------------------------------------
(* 5. Runs end, and plans are exact.                                       *)

(* What a plan offers depends on the notes and the pages only.             *)
LEMMA SamePlan ==
    ASSUME UNCHANGED <<notes, pages>>
    PROVE  PlanItems(pages, FALSE)' = PlanItems(pages, FALSE)
BY DEF PlanItems, StalePages, NewSources, Missing, Flagged, Moved, Sources, Covered,
       Declined, Active

LEMMA PlanParts ==
    ASSUME NEW x \in PlanItems(pages, FALSE)
    PROVE  x \in StalePages(pages, FALSE) \/ x \in NewSources(pages, FALSE)
BY DEF PlanItems

LEMMA KeptTodo ==
    ASSUME TypeInv, OffersAreTodo, UNCHANGED <<notes, pages, todo>>,
           DOMAIN runs' = DOMAIN runs, Running' \subseteq Running,
           \A run \in DOMAIN runs : runs'[run].started = runs[run].started
    PROVE  OffersAreTodo'
<1>1. PlanItems(pages, FALSE)' = PlanItems(pages, FALSE)
  BY SamePlan
<1> QED BY <1>1 DEF OffersAreTodo

LEMMA DroppedTodo ==
    ASSUME todo' = << >>
    PROVE  OffersAreTodo'
<1>1. DOMAIN << >> = {}
  OBVIOUS
<1> QED BY <1>1 DEF OffersAreTodo

(* Opening the only run while no note has changed, with pages read as they *)
(* are: it is offered at least what is out of date.                        *)
LEMMA PlanTodo ==
    ASSUME TypeInv, NEW r \in Reqs, NEW all \in AllPages, Plan(r, all)
    PROVE  OffersAreTodo'
<1> DEFINE run == req[r].run
           undisturbed(seen) == /\ Running = {} /\ seen = pages
                                /\ \A n \in DOMAIN notes : notes[n].updated < req[r].at
<1>1. /\ DOMAIN runs' = DOMAIN runs \cup {run}
      /\ runs'[run].started = req[r].at
      /\ \A z \in DOMAIN runs : runs'[z] = runs[z]
      /\ UNCHANGED <<notes, pages>>
  BY PlanDoes
<1>2. PICK seen : todo' = IF undisturbed(seen) THEN [x \in {run} |-> PlanItems(seen, all)]
                                               ELSE << >>
  BY DEF Plan
<1>3. CASE undisturbed(seen)
  <2>1. DOMAIN todo' = {run} /\ todo'[run] = PlanItems(pages, all)
    BY <1>2, <1>3
  <2>2. Running' \subseteq {run}
    BY <1>1, <1>3 DEF Running
  <2>3. PlanItems(pages, FALSE) \subseteq PlanItems(pages, all)
    BY DEF PlanItems, StalePages, NewSources
  <2>4. PlanItems(pages, FALSE)' = PlanItems(pages, FALSE)
    BY <1>1, SamePlan
  <2> QED BY <1>1, <1>3, <2>1, <2>2, <2>3, <2>4 DEF OffersAreTodo
<1>4. CASE ~undisturbed(seen)
  BY <1>2, <1>4, DroppedTodo
<1> QED BY <1>3, <1>4

(* A page takes itself and its notes off what is left, and puts back the   *)
(* notes its predecessor had and it has not.                               *)
LEMMA WritePageTodo ==
    ASSUME TypeInv, OffersAreTodo, NEW r \in Reqs, WritePage(r)
    PROVE  OffersAreTodo'
<1> DEFINE q == req[r]
           S == DOMAIN q.from
           p == q.page
<1>1. CASE UNCHANGED <<tables, history>>
  BY <1>1, SamePlan DEF tables, history, OffersAreTodo, Running
<1>2. CASE ~UNCHANGED <<tables, history>>
  <2>1. /\ q.run \in Running /\ S \subseteq DOMAIN notes /\ UNCHANGED <<notes, runs>>
        /\ DOMAIN pages' = DOMAIN pages \cup {p}
        /\ pages'[p].sources = S
        /\ pages'[p].compiled = runs[q.run].started
        /\ \A z \in DOMAIN pages : z # p => pages'[z] = pages[z]
        /\ todo' = [x \in DOMAIN todo |-> (todo[x] \ Done(p, S)) \cup LeftOut(p, S)]
    BY <1>2, WritePageDoes DEF TypeInv
  <2>2. p \in Pages /\ S \subseteq Notes /\ q.pc = "page"
    BY WritePageDoes, RevisionsAre DEF TypeInv
  <2>3. \A n \in S : Active(n)
    BY <2>1, <2>2 DEF TypeInv, NotesStay, Reads
  <2>4. Done(p, S) = {p} \cup S
    BY <2>3 DEF Done
  <2> HIDE DEF q, S, p
  <2>5. ASSUME NEW run \in DOMAIN todo, NEW x \in StalePages(pages, FALSE)'
        PROVE  x \in todo[run] /\ x \notin {p} \cup S
    <3>1. run = q.run /\ \A n \in DOMAIN notes : notes[n].updated < runs[run].started
      BY <2>1 DEF OffersAreTodo
    <3>2. x \in DOMAIN pages' /\ (Missing(pages, x)' \/ Flagged(pages, x)' \/ Moved(pages, x)')
      BY <2>5 DEF StalePages
    <3>3. x # p
      <4>1. SUFFICES ASSUME x = p PROVE FALSE
        OBVIOUS
      <4>2. ~Missing(pages, x)'
        BY <2>1, <4>1 DEF Missing, Sources
      <4>3. ~Flagged(pages, x)'
        BY <2>1, <2>3, <4>1 DEF Flagged, Sources, Active
      <4>4. ~Moved(pages, x)'
        <5>1. \A n \in DOMAIN notes : ~(notes[n].updated > runs[run].started)
          BY <3>1, RunningFacts, <2>1, StampsAreInts DEF TypeInv
        <5> QED BY <2>1, <3>1, <4>1, <5>1 DEF Moved, Sources
      <4> QED BY <3>2, <4>2, <4>3, <4>4
    <3>4. x \in DOMAIN pages /\ pages'[x] = pages[x]
      BY <2>1, <3>2, <3>3
    <3>5. x \in StalePages(pages, FALSE)
      BY <2>1, <3>2, <3>4 DEF StalePages, Missing, Flagged, Moved, Sources, Active
    <3>6. x \in todo[run]
      BY <3>5 DEF OffersAreTodo, PlanItems
    <3>7. x \in Pages /\ x \notin Notes
      BY <3>4, Rows, CompileAssumption DEF TypeInv
    <3> QED BY <2>2, <3>3, <3>6, <3>7
  <2>6. ASSUME NEW run \in DOMAIN todo, NEW x \in NewSources(pages, FALSE)'
        PROVE  x \in LeftOut(p, S) \/ (x \in todo[run] /\ x \notin {p} \cup S)
    <3>1. x \in DOMAIN notes /\ x \notin Covered(pages)' /\ Active(x) /\ ~Declined(x)
      BY <2>1, <2>6 DEF NewSources, Active, Declined
    <3>2. \A z \in DOMAIN pages' : x \notin pages'[z].sources
      BY <3>1 DEF Covered
    <3>3. x \notin S
      BY <2>1, <3>2
    <3>4. x # p
      BY <2>2, <3>1, Rows, CompileAssumption DEF TypeInv
    <3>5. CASE x \notin Covered(pages)
      <4>1. x \in NewSources(pages, FALSE)
        BY <3>1, <3>5 DEF NewSources
      <4> QED BY <3>3, <3>4, <4>1 DEF OffersAreTodo, PlanItems
    <3>6. CASE x \in Covered(pages)
      <4>1. PICK z \in DOMAIN pages : x \in pages[z].sources
        BY <3>6 DEF Covered
      <4>2. z = p
        BY <2>1, <3>2, <4>1
      <4> QED BY <3>3, <4>1, <4>2 DEF LeftOut
    <3> QED BY <3>5, <3>6
  <2>7. ASSUME NEW run \in DOMAIN todo
        PROVE  PlanItems(pages, FALSE)' \subseteq (todo[run] \ Done(p, S)) \cup LeftOut(p, S)
    BY <2>4, <2>5, <2>6 DEF PlanItems
  <2>8. DOMAIN todo' = DOMAIN todo
        /\ \A run \in DOMAIN todo : todo'[run] = (todo[run] \ Done(p, S)) \cup LeftOut(p, S)
    BY <2>1
  <2>9. Running' = Running
    BY <2>1 DEF Running
  <2> QED BY <2>1, <2>7, <2>8, <2>9 DEF OffersAreTodo
<1> QED BY <1>1, <1>2

(* A refusal is later than every change, so that a refused note is not     *)
(* offered again.                                                          *)
LEMMA DeclineTodo ==
    ASSUME TypeInv, OffersAreTodo, NEW r \in Reqs, Decline(r)
    PROVE  OffersAreTodo'
<1> DEFINE q == req[r]
           D == DOMAIN q.from
<1>1. CASE UNCHANGED <<tables, history>>
  BY <1>1, SamePlan DEF tables, history, OffersAreTodo, Running
<1>2. CASE ~UNCHANGED <<tables, history>>
  <2>1. /\ q.run \in Running /\ D \subseteq DOMAIN notes /\ UNCHANGED <<pages, runs>>
        /\ DOMAIN notes' = DOMAIN notes
        /\ \A n \in DOMAIN notes \ D : notes'[n] = notes[n]
        /\ \A n \in D : /\ notes'[n].declined = q.at
                        /\ notes'[n].status = notes[n].status
                        /\ notes'[n].updated = notes[n].updated
        /\ todo' = [x \in DOMAIN todo |-> todo[x] \ D]
    BY <1>2, DeclineDoes DEF TypeInv
  <2>2. q.pc = "decline" /\ q.at \in Stamps /\ runs[q.run].started < q.at
    BY DeclineDoes DEF TypeInv, StampsPassed
  <2> HIDE DEF q, D
  <2>3. \A n \in DOMAIN notes : /\ notes'[n].status = notes[n].status
                                /\ notes'[n].updated = notes[n].updated
    BY <2>1
  <2>4. ASSUME NEW run \in DOMAIN todo, NEW x \in StalePages(pages, FALSE)'
        PROVE  x \in todo[run] \ D
    <3>1. x \in StalePages(pages, FALSE)
      <4>1. x \in DOMAIN pages /\ (Missing(pages, x)' \/ Flagged(pages, x)' \/ Moved(pages, x)')
        BY <2>1, <2>4 DEF StalePages
      <4>2. Missing(pages, x)' => Missing(pages, x)
        BY <2>1 DEF Missing, Sources
      <4>3. Flagged(pages, x)' => Flagged(pages, x)
        BY <2>1, <2>3 DEF Flagged, Sources, Active
      <4>4. Moved(pages, x)' => Moved(pages, x)
        BY <2>1, <2>3 DEF Moved, Sources
      <4> QED BY <4>1, <4>2, <4>3, <4>4 DEF StalePages
    <3>2. x \in todo[run]
      BY <3>1 DEF OffersAreTodo, PlanItems
    <3>3. x \in Pages
      BY <3>1, Rows DEF StalePages, TypeInv
    <3> QED BY <2>1, <3>2, <3>3, Rows, CompileAssumption DEF TypeInv
  <2>5. ASSUME NEW run \in DOMAIN todo, NEW x \in NewSources(pages, FALSE)'
        PROVE  x \in todo[run] \ D
    <3>1. x \in DOMAIN notes /\ x \notin Covered(pages) /\ Active(x)' /\ ~Declined(x)'
      BY <2>1, <2>5 DEF NewSources, Covered
    <3>2. x \notin D
      <4>1. SUFFICES ASSUME x \in D PROVE Declined(x)'
        BY <3>1
      <4>2. run = q.run /\ notes[x].updated < runs[q.run].started
        BY <2>1, <3>1 DEF OffersAreTodo
      <4>3. /\ notes[x].updated \in Int /\ runs[q.run].started \in Int /\ q.at \in Int
            /\ q.at # Never
        BY <2>1, <2>2, <3>1, RunningFacts, StampsAreInts DEF TypeInv, Stamps, Never
      <4>4. notes[x].updated <= q.at
        BY <2>2, <4>2, <4>3
      <4> QED BY <2>1, <4>1, <4>3, <4>4 DEF Declined
    <3>3. notes'[x] = notes[x]
      BY <2>1, <3>1, <3>2
    <3>4. x \in NewSources(pages, FALSE)
      BY <3>1, <3>3 DEF NewSources, Active, Declined
    <3> QED BY <3>2, <3>4 DEF OffersAreTodo, PlanItems
  <2>6. \A run \in DOMAIN todo : PlanItems(pages, FALSE)' \subseteq todo[run] \ D
    BY <2>4, <2>5 DEF PlanItems
  <2>7. /\ DOMAIN todo' = DOMAIN todo
        /\ \A run \in DOMAIN todo : todo'[run] = todo[run] \ D
    BY <2>1
  <2>8. Running' = Running
    BY <2>1 DEF Running
  <2> QED BY <2>1, <2>3, <2>6, <2>7, <2>8 DEF OffersAreTodo
<1> QED BY <1>1, <1>2

LEMMA NextTodo ==
    ASSUME TypeInv, OffersAreTodo, [Next]_vars
    PROVE  OffersAreTodo'
<1> DEFINE Goal == OffersAreTodo'
<1>0. ASSUME UNCHANGED <<notes, pages, runs, todo>> PROVE Goal
  BY <1>0, KeptTodo DEF Running
<1>1. ASSUME NEW r \in Reqs, NEW n \in Notes, BeginWrite(r, n) PROVE Goal
  BY <1>0, <1>1 DEF BeginWrite, tables, history
<1>2. ASSUME NEW r \in Reqs, NEW s \in {"active", "flagged"}, Write(r, s) PROVE Goal
  BY <1>0, <1>2, WriteDoes, DroppedTodo DEF TypeInv
<1>3. ASSUME NEW r \in Reqs, NEW run \in Runs, BeginPlan(r, run) PROVE Goal
  BY <1>0, <1>3 DEF BeginPlan, tables
<1>4. ASSUME NEW r \in Reqs, NEW run \in Runs, NEW S \in SUBSET Notes,
             (\E p \in Pages : BeginPage(r, run, p, S)) \/ BeginDecline(r, run, S)
      PROVE  Goal
  BY <1>0, <1>4 DEF BeginPage, BeginDecline, tables, history
<1>5. ASSUME NEW r \in Reqs, NEW all \in AllPages, Plan(r, all) PROVE Goal
  BY <1>5, PlanTodo
<1>6. ASSUME NEW r \in Reqs, WritePage(r) PROVE Goal
  BY <1>6, WritePageTodo
<1>7. ASSUME NEW r \in Reqs, Decline(r) PROVE Goal
  BY <1>7, DeclineTodo
<1>8. ASSUME NEW r \in Reqs, ListPages(r) \/ StampDecline(r) \/ Lose(r) PROVE Goal
  BY <1>0, <1>8 DEF ListPages, StampDecline, Lose, tables, history
<1>9. ASSUME NEW n \in Notes, Publish(n) \/ Remove(n) PROVE Goal
  BY <1>9, DroppedTodo DEF Publish, Remove, Disturb
<1>10. ASSUME NEW run \in Runs, Close(run, "succeeded") \/ Close(run, "failed") PROVE Goal
  BY <1>10, CloseDoes, KeptTodo DEF TypeInv, history
<1>11. ASSUME UNCHANGED vars PROVE Goal
  BY <1>0, <1>11 DEF vars
<1> HIDE DEF Goal
<1>12. ASSUME Next PROVE Goal
  BY <1>1, <1>2, <1>3, <1>4, <1>5, <1>6, <1>7, <1>8, <1>9, <1>10, <1>12 DEF Next
<1>13. Goal
  BY <1>11, <1>12
<1> QED BY <1>13 DEF Goal

Knowledge == TypeInv /\ Based /\ SeenOrInFlight /\ RefusalsAreRead /\ OffersAreTodo

LEMMA InitKnowledge == Init => Knowledge
<1> SUFFICES ASSUME Init PROVE Knowledge
  OBVIOUS
<1>1. DOMAIN << >> = {}
  OBVIOUS
<1>2. DOMAIN pages = {} /\ DOMAIN runs = {} /\ DOMAIN basis = {} /\ DOMAIN todo = {}
  BY <1>1 DEF Init
<1>3. \A r \in Reqs : req[r].pc = "idle"
  BY IdleRequest DEF Init
<1>4. \A n \in DOMAIN notes : notes[n].declined = Never
  BY DEF Init
<1>5. SeenOrInFlight
  BY <1>2, <1>3 DEF SeenOrInFlight, WritersInFlight, RequestsKnow, PagesKnow
<1>6. RefusalsAreRead
  BY <1>3, <1>4 DEF RefusalsAreRead, RefusedWereRead, WritersBehind, RefusalsKnow
<1> QED BY <1>2, <1>5, <1>6, InitTypeInv DEF Knowledge, Based, OffersAreTodo

LEMMA NextKnowledge == Knowledge /\ [Next]_vars => Knowledge'
BY NextTypeInv, NextSeen, NextRead, NextTodo DEF Knowledge

LEMMA KnowledgeIsExact == Knowledge => PlansAreExact
<1> SUFFICES ASSUME Knowledge PROVE PlansAreExact
  OBVIOUS
<1> USE DEF Knowledge
<1>1. ASSUME NEW p \in DOMAIN pages \ StalePages(pages, FALSE)
      PROVE  OutOfDate(p) \subseteq inflight[pages[p].run]
  <2>1. ~Missing(pages, p) /\ ~Flagged(pages, p) /\ ~Moved(pages, p)
    BY <1>1 DEF StalePages
  <2>2. \A n \in pages[p].sources : n \in DOMAIN notes
    BY <2>1 DEF Missing, Sources
  <2>3. \A n \in pages[p].sources : Active(n) /\ ~(notes[n].updated > pages[p].compiled)
    BY <2>1, <2>2 DEF Flagged, Moved, Sources
  <2>4. /\ pages[p].run \in DOMAIN runs /\ pages[p].compiled = runs[pages[p].run].started
    BY <1>1, Rows DEF TypeInv
  <2>5. \A n \in pages[p].sources : notes[n].updated <= runs[pages[p].run].started
    BY <2>2, <2>3, <2>4, StampsAreInts DEF TypeInv
  <2>6. \A n \in pages[p].sources :
           notes[n].rev = basis[p][n] \/ n \in inflight[pages[p].run]
    BY <1>1, <2>2, <2>5 DEF SeenOrInFlight, PagesKnow, Knows
  <2> QED BY <2>3, <2>6 DEF OutOfDate
<1>2. ASSUME NEW n \in DOMAIN notes \ (Covered(pages) \cup NewSources(pages, FALSE)), Active(n)
      PROVE  n \in DOMAIN refused /\ (refused[n] # notes[n].rev => n \in unseen)
  <2>1. Declined(n)
    BY <1>2 DEF NewSources
  <2> QED BY <1>2, <2>1 DEF Declined, RefusalsAreRead, RefusedWereRead
<1>3. NothingIsForgotten
  BY <1>1, <1>2 DEF NothingIsForgotten
<1>4. RunsConverge
  BY DEF OffersAreTodo, RunsConverge
<1> QED BY <1>3, <1>4 DEF PlansAreExact

(* A page that is out of date, and a note without a page whose text nobody *)
(* declined, is offered by a plan that reads the tables as they are,       *)
(* however slowly the writer of the change committed, unless that writer   *)
(* was at work when the run was opened or the refusal stamped; and a run   *)
(* that has dealt with all it was offered leaves nothing to offer until a  *)
(* note changes.                                                           *)
THEOREM PlanningIsExact == Spec => []PlansAreExact
<1> QED BY InitKnowledge, NextKnowledge, KnowledgeIsExact, PTL DEF Spec

=============================================================================
