------------------------- MODULE VaultCorpusProofs -------------------------
(***************************************************************************)
(* Theorems about VaultCorpus, for any number of notes, proposals, keys    *)
(* and handlers in flight.                                                 *)
(*                                                                         *)
(* Section 1 has the facts about the operators of the model, section 2     *)
(* type correctness, section 3 the argument that a handler's copy of a     *)
(* note is good for as long as the note's revision is the one it read,     *)
(* section 4 that names stay unique, section 5 what a step can do to the   *)
(* corpus, section 6 the duplicate gate, section 7 the ledger and the      *)
(* audit, and section 8 that the writes happen one at a time, as in        *)
(* GovernedCorpus.                                                         *)
(***************************************************************************)
EXTENDS VaultCorpus, TLAPS, FiniteSetTheorems, WellFoundedInduction

-----------------------------------------------------------------------------
(* 1. Operators.                                                           *)

(* With sets one entry of a table and keeps the others.                    *)
LEMMA WithFacts ==
    ASSUME NEW f, NEW x, NEW y
    PROVE  /\ DOMAIN With(f, x, y) = DOMAIN f \cup {x}
           /\ With(f, x, y)[x] = y
           /\ \A z \in DOMAIN f \ {x} : With(f, x, y)[z] = f[z]
BY DEF With

(* Setting an entry to a value of the right type keeps a table's type.     *)
LEMMA WithType ==
    ASSUME NEW T, NEW f, f \in [DOMAIN f -> T], NEW x, NEW y \in T
    PROVE  With(f, x, y) \in [DOMAIN With(f, x, y) -> T]
BY DEF With

(* So does removing entries.                                               *)
LEMMA WithoutType ==
    ASSUME NEW T, NEW f, f \in [DOMAIN f -> T], NEW S
    PROVE  /\ Without(f, S) \in [DOMAIN Without(f, S) -> T]
           /\ DOMAIN Without(f, S) = DOMAIN f \ S
           /\ \A z \in DOMAIN f \ S : Without(f, S)[z] = f[z]
BY DEF Without

(* Every nonempty set of naturals has a least element.                     *)
LEMMA Least ==
    ASSUME NEW T, T \subseteq Nat, T # {}
    PROVE  \E n \in T : \A m \in T : ~(m < n)
<1>1. PICK n \in T : \A m \in T : <<m, n>> \notin OpToRel(<, Nat)
  BY NatLessThanWellFounded, WFMin
<1>2. \A m \in T : m < n => <<m, n>> \in OpToRel(<, Nat)
  BY DEF OpToRel
<1> QED BY <1>1, <1>2

(* resolve_vault_path always finds a name, and one that is not taken: of   *)
(* one more candidates than there are names taken, one is free.            *)
LEMMA ResolvedPath ==
    ASSUME NEW dir, NEW title, NEW taken, IsFiniteSet(taken)
    PROVE  \E n \in Nat \ {0} : /\ ResolvePath(dir, title, taken) = Path(dir, title, n)
                                /\ Path(dir, title, n) \notin taken
<1> DEFINE K == Cardinality(taken) + 1
           Free == {n \in 1..K : Path(dir, title, n) \notin taken}
           First(n) == /\ Path(dir, title, n) \notin taken
                       /\ \A m \in 1..(n - 1) : Path(dir, title, m) \in taken
<1>1. Cardinality(taken) \in Nat
  BY FS_CardinalityType
<1>2. Free # {}
  <2> SUFFICES ASSUME Free = {} PROVE FALSE
    OBVIOUS
  <2> DEFINE S == 1..K
             f == [n \in S |-> Path(dir, title, n)]
  <2>1. f \in [S -> taken]
    OBVIOUS
  <2>2. IsFiniteSet(S) /\ Cardinality(taken) < Cardinality(S)
    BY <1>1, FS_Interval
  <2>3. \E m, n \in S : m # n /\ f[m] = f[n]
    <3> HIDE DEF f, S
    <3> QED BY <2>1, <2>2, FS_PigeonHole
  <2> QED BY <2>3 DEF Path
<1>3. \E n \in 1..K : First(n)
  <2>1. Free \subseteq Nat
    OBVIOUS
  <2>2. PICK n \in Free : \A m \in Free : ~(m < n)
    BY <1>2, <2>1, Least
  <2>3. \A m \in 1..(n - 1) : m \in 1..K /\ m < n
    BY <1>1, <2>2
  <2> QED BY <2>2, <2>3
<1> DEFINE best == CHOOSE n \in 1..K : First(n)
<1>4. best \in 1..K /\ First(best)
  BY <1>3
<1>5. ResolvePath(dir, title, taken) = Path(dir, title, best)
  BY DEF ResolvePath
<1> QED BY <1>1, <1>4, <1>5

-----------------------------------------------------------------------------
(* 2. Type correctness.                                                    *)

(* What a request carries in each of its phases.                           *)
LEMMA RequestFields ==
    ASSUME NEW q \in Request
    PROVE  /\ q.pc \in {"contribute", "restate"} => q.body \in Contributions
           /\ q.pc = "conflict" => q.key \in Authors \X Keys
           /\ q.pc = "update" => q.doc \in Ids /\ q.body \in Replacements
           /\ q.pc = "summary" => /\ q.doc \in Ids /\ q.rev \in 1..MaxRev
                                  /\ q.who \in Authors /\ q.text \in Texts
           /\ q.pc = "accept" => q.proposal \in ProposalIds /\ q.body \in Contents
           /\ q.pc = "stale" => q.proposal \in ProposalIds
BY DEF Request, Idle

(* A contribution has an author, a key and a content.                      *)
LEMMA ContributionFields ==
    ASSUME NEW c \in Contributions
    PROVE  /\ Key(c) \in Authors \X Keys /\ c.by \in Authors
           /\ c.text \in Texts /\ c.text.title \in Titles /\ c.meta \in Metas
BY CorpusAssumption DEF Key, Texts

(* An amendment leaves a note with a content.                              *)
LEMMA AmendedType ==
    ASSUME NEW row \in Row, NEW change \in Changes
    PROVE  Amended(row, change) \in Contents
BY CorpusAssumption DEF Amended, Contents, Texts, Row

(* The names taken in a folder are finitely many.                          *)
LEMMA PathsUnderFinite ==
    ASSUME IsFiniteSet(DOMAIN docs), NEW dir, NEW d
    PROVE  IsFiniteSet(PathsUnder(dir, d))
<1> DEFINE E == {e \in DOMAIN docs \ {d} : docs[e].path.dir = dir}
           f == [e \in E |-> docs[e].path]
<1>1. IsFiniteSet(E)
  BY FS_Subset
<1>2. f \in Surjection(E, PathsUnder(dir, d))
  BY DEF Surjection, PathsUnder
<1> HIDE DEF E, f
<1> QED BY <1>1, <1>2, FS_Surjection

(* A name found for a title is a path.                                     *)
LEMMA ResolvedPathType ==
    ASSUME IsFiniteSet(DOMAIN docs), NEW dir \in {NotesDir, CandidatesDir},
           NEW title \in Titles, NEW d
    PROVE  ResolvePath(dir, title, PathsUnder(dir, d)) \in Paths
<1>1. IsFiniteSet(PathsUnder(dir, d))
  BY PathsUnderFinite
<1>2. PICK n \in Nat \ {0} :
          ResolvePath(dir, title, PathsUnder(dir, d)) = Path(dir, title, n)
  BY <1>1, ResolvedPath
<1> QED BY <1>2 DEF Paths, Path

(* The strengthening type correctness needs: there are finitely many notes *)
(* (or no free name would have to exist), and a pending case has the       *)
(* candidate it was opened for (or a review could write to no note).       *)
PendingCaseHasCandidate ==
    \A x \in DOMAIN cases : cases[x].state = "pending" => cases[x].candidate = x
TypeInv == TypeOK /\ IsFiniteSet(DOMAIN docs) /\ PendingCaseHasCandidate

(* The initial state has one note for every legacy contribution.           *)
LEMMA InitTypeInv == Init => TypeInv
<1> SUFFICES ASSUME Init PROVE TypeInv
  OBVIOUS
<1>1. PICK id \in [Legacy -> Ids] : Init!(id)
  BY DEF Init
<1> DEFINE Of(d) == CHOOSE c \in Legacy : id[c] = d
           olds == {id[c] : c \in Legacy}
<1>2. \A d \in olds : d \in Ids /\ Of(d) \in Contributions
  BY CorpusAssumption
<1>3. /\ DOMAIN docs = olds /\ DOMAIN vectors = olds /\ DOMAIN maker = olds
      /\ \A d \in olds : /\ docs[d] = [status |-> "active", rev |-> 1, text |-> Of(d).text,
                                      meta |-> Of(d).meta, by |-> Of(d).by, promo |-> "none",
                                      path |-> Path(NotesDir, Of(d).text.title, 1)]
                       /\ vectors[d] = Of(d).text
                       /\ maker[d] = Key(Of(d))
  BY <1>1
<1>4. docs \in [DOMAIN docs -> Row]
  <2>1. docs \in [DOMAIN docs -> Row] <=> \A d \in olds : docs[d] \in Row
    BY <1>1, <1>3
  <2>2. ASSUME NEW d \in olds PROVE docs[d] \in Row
    <3>1. Path(NotesDir, Of(d).text.title, 1) \in Paths
      BY <1>2, ContributionFields DEF Paths, Path
    <3> HIDE DEF Of, olds
    <3> QED BY <1>2, <1>3, <3>1, ContributionFields, CorpusAssumption DEF Row
  <2> QED BY <2>1, <2>2
<1>5. /\ vectors \in [DOMAIN vectors -> Texts] /\ maker \in [DOMAIN maker -> Authors \X Keys]
  <2>1. /\ vectors \in [DOMAIN vectors -> Texts] <=> \A d \in olds : vectors[d] \in Texts
        /\ maker \in [DOMAIN maker -> Authors \X Keys]
              <=> \A d \in olds : maker[d] \in Authors \X Keys
    BY <1>1, <1>3
  <2>2. \A d \in olds : vectors[d] \in Texts /\ maker[d] \in Authors \X Keys
    <3> HIDE DEF Of, olds
    <3> QED BY <1>2, <1>3, ContributionFields
  <2> QED BY <2>1, <2>2
<1>6. /\ writes \in [DOMAIN writes -> Write]
      /\ DOMAIN writes \subseteq Authors \X Keys
  <2> DEFINE W(k) == CHOOSE e \in Legacy : Key(e) = k
  <2>1. /\ DOMAIN writes = {Key(c) : c \in Legacy}
        /\ \A k \in DOMAIN writes :
              writes[k] = [digest |-> W(k), current |-> FALSE, state |-> "inserted",
                           doc |-> id[W(k)]]
        /\ writes \in [DOMAIN writes -> Write]
              <=> \A k \in DOMAIN writes : writes[k] \in Write
    BY <1>1
  <2>2. \A k \in DOMAIN writes : W(k) \in Legacy
    BY <2>1
  <2>3. \A k \in DOMAIN writes : W(k) \in Contributions /\ id[W(k)] \in Ids
    BY <2>2, CorpusAssumption
  <2>4. ASSUME NEW k \in DOMAIN writes PROVE writes[k] \in Write
    <3>1. writes[k] = [digest |-> W(k), current |-> FALSE, state |-> "inserted",
                       doc |-> id[W(k)]]
      BY <2>1
    <3>2. W(k) \in Contributions /\ id[W(k)] \in Ids \cup {NoDoc}
      BY <2>3
    <3> HIDE DEF W
    <3> QED BY <3>1, <3>2 DEF Write
  <2> QED BY <2>1, <2>4, ContributionFields, CorpusAssumption
<1>7. IsFiniteSet(DOMAIN docs)
  <2>1. id \in Surjection(Legacy, olds)
    BY DEF Surjection
  <2> HIDE DEF olds
  <2> QED BY <1>3, <2>1, FS_Surjection, CorpusAssumption
<1>8. /\ cases = << >> /\ proposals = << >> /\ judged = {}
      /\ req = [r \in Reqs |-> Idle]
  BY <1>1
<1> HIDE DEF Of, olds
<1> QED BY <1>2, <1>3, <1>4, <1>5, <1>6, <1>7, <1>8
        DEF TypeInv, TypeOK, PendingCaseHasCandidate, Request

(* The phases a handler goes through keep the type of its request.         *)
LEMMA GotoType ==
    ASSUME req \in [Reqs -> Request], NEW r \in Reqs, NEW q \in Request, Goto(r, q)
    PROVE  req' \in [Reqs -> Request]
BY DEF Goto

LEMMA FinishType ==
    ASSUME req \in [Reqs -> Request], NEW r \in Reqs, Finish(r)
    PROVE  req' \in [Reqs -> Request]
BY DEF Finish, Goto, Request

(* Every writer that replaces content leaves rows of the right type, and   *)
(* every note but one as it was.                                           *)
LEMMA RewriteFacts ==
    ASSUME TypeOK, NEW d \in DOMAIN docs, NEW text \in Texts, NEW meta \in Metas,
           Rewrite(d, text, meta)
    PROVE  /\ DOMAIN docs' = DOMAIN docs
           /\ docs' \in [DOMAIN docs' -> Row]
           /\ docs'[d].rev = docs[d].rev + 1
           /\ docs'[d].text = text /\ docs'[d].meta = meta
           /\ \A e \in DOMAIN docs \ {d} : docs'[e] = docs[e]
           /\ \A e \in DOMAIN docs : /\ docs'[e].status = docs[e].status
                                     /\ docs'[e].path = docs[e].path
                                     /\ docs'[e].promo = docs[e].promo
           /\ judged' \subseteq Ids
<1>1. docs[d] \in Row /\ docs[d].rev \in Nat /\ docs[d].rev < MaxRev
  BY CorpusAssumption DEF TypeOK, Row, Rewrite
<1>2. Replaced(docs[d], text, meta) \in Row
  <2>1. docs[d].rev + 1 \in 1..MaxRev
    BY <1>1, CorpusAssumption DEF Row
  <2> QED BY <1>1, <2>1 DEF Replaced, Row
<1>3. /\ DOMAIN docs' = DOMAIN docs
      /\ docs'[d] = Replaced(docs[d], text, meta)
      /\ \A e \in DOMAIN docs \ {d} : docs'[e] = docs[e]
      /\ docs' \in [DOMAIN docs' -> Row]
  BY <1>2 DEF Rewrite, TypeOK
<1>4. /\ docs'[d].rev = docs[d].rev + 1
      /\ docs'[d].text = text /\ docs'[d].meta = meta
      /\ docs'[d].status = docs[d].status /\ docs'[d].path = docs[d].path
      /\ docs'[d].promo = docs[d].promo
  BY <1>1, <1>3 DEF Replaced, Row
<1>5. judged' \subseteq Ids
  BY DEF Rewrite, TypeOK
<1> QED BY <1>3, <1>4, <1>5

(* A ledger row whose digest is restated is a ledger row.                  *)
LEMMA RestatedType ==
    ASSUME NEW w \in Write, NEW c \in Contributions
    PROVE  [w EXCEPT !.digest = c, !.current = TRUE] \in Write
BY DEF Write

(* A replay leaves the tables alone: it is refused, waits to restate a     *)
(* digest, or is answered, which is one event.                             *)
LEMMA ReplayFacts ==
    ASSUME NEW r, NEW c, Replay(r, c)
    PROVE  /\ UNCHANGED <<docs, vectors, cases, proposals, writes, maker, judged>>
           /\ \/ /\ UNCHANGED audit
                 /\ \/ Goto(r, [pc |-> "conflict", key |-> Key(c)])
                    \/ /\ Goto(r, [pc |-> "restate", body |-> c])
                       /\ ~writes[Key(c)].current
              \/ /\ Record("contribute", "replayed", c) /\ Finish(r)
                 /\ writes[Key(c)].current /\ writes[Key(c)].digest = c
BY DEF Replay, Answer, Conflicts, corpus, notes

(* Where it leaves the handler.                                            *)
LEMMA ReplayGoes ==
    ASSUME NEW r, NEW c, Replay(r, c)
    PROVE  \E q : Goto(r, q) /\ q.pc \in {"idle", "conflict", "restate"}
<1>1. CASE Goto(r, [pc |-> "conflict", key |-> Key(c)])
  BY <1>1
<1>2. CASE Goto(r, [pc |-> "restate", body |-> c])
  BY <1>2
<1>3. CASE Finish(r)
  BY <1>3 DEF Finish, Idle
<1> QED BY <1>1, <1>2, <1>3, ReplayFacts

(* Restating a digest is an answer and two columns of the ledger.          *)
LEMMA RestateFacts ==
    ASSUME TypeOK, NEW r \in Reqs, Restate(r)
    PROVE  /\ UNCHANGED <<docs, vectors, cases, proposals, maker, judged>>
           /\ req[r].body \in Contributions /\ Finish(r)
           /\ Record("contribute", "replayed", req[r].body)
           /\ DOMAIN writes' = DOMAIN writes /\ writes' \in [DOMAIN writes' -> Write]
           /\ \A k \in DOMAIN writes : writes'[k].doc = writes[k].doc
           /\ \A k \in DOMAIN writes : k # Key(req[r].body) => writes'[k] = writes[k]
           /\ Key(req[r].body) \in DOMAIN writes => writes'[Key(req[r].body)].current
<1> DEFINE c == req[r].body
           row == [writes[Key(c)] EXCEPT !.digest = c, !.current = TRUE]
<1>1. /\ writes' = [writes EXCEPT ![Key(c)] = row]
      /\ Record("contribute", "replayed", c) /\ Finish(r)
      /\ UNCHANGED <<docs, vectors, cases, proposals, maker, judged>>
  BY DEF Restate, Answer, notes
<1>2. c \in Contributions /\ writes \in [DOMAIN writes -> Write]
  BY RequestFields DEF Restate, TypeOK
<1>3. ASSUME Key(c) \in DOMAIN writes
      PROVE  row \in Write /\ row.doc = writes[Key(c)].doc /\ row.current
  <2>1. writes[Key(c)] \in Write
    BY <1>2, <1>3
  <2> QED BY <1>2, <2>1, RestatedType DEF Write
<1> HIDE DEF row, c
<1>4. DOMAIN writes' = DOMAIN writes
  BY <1>1
<1>5. ASSUME NEW k \in DOMAIN writes, k # Key(c) PROVE writes'[k] = writes[k]
  BY <1>1, <1>5
<1>6. ASSUME Key(c) \in DOMAIN writes PROVE writes'[Key(c)] = row
  BY <1>1, <1>6
<1>7. \A k \in DOMAIN writes : writes'[k] \in Write /\ writes'[k].doc = writes[k].doc
  BY <1>2, <1>3, <1>5, <1>6
<1>8. writes' \in [DOMAIN writes' -> Write]
  BY <1>1, <1>4, <1>7
<1> QED BY <1>1, <1>2, <1>3, <1>4, <1>5, <1>6, <1>7, <1>8 DEF c

(* Either leaves the tables well typed.                                    *)
LEMMA ReplayType ==
    ASSUME TypeInv, NEW r \in Reqs, NEW c \in Contributions, Replay(r, c)
    PROVE  TypeInv'
<1>1. /\ [pc |-> "conflict", key |-> Key(c)] \in Request
      /\ [pc |-> "restate", body |-> c] \in Request
  BY ContributionFields DEF Request
<1>2. req' \in [Reqs -> Request]
  BY <1>1, ReplayFacts, GotoType, FinishType DEF TypeInv, TypeOK
<1> QED BY <1>2, ReplayFacts DEF TypeInv, TypeOK, PendingCaseHasCandidate

LEMMA RestateType ==
    ASSUME TypeInv, NEW r \in Reqs, Restate(r)
    PROVE  TypeInv'
<1>1. TypeOK /\ req \in [Reqs -> Request]
  BY DEF TypeInv, TypeOK
<1>2. req' \in [Reqs -> Request]
  BY <1>1, RestateFacts, FinishType
<1> QED BY <1>1, <1>2, RestateFacts DEF TypeInv, TypeOK, PendingCaseHasCandidate

(* Removing a note leaves every table well typed.                          *)
LEMMA DeleteType ==
    ASSUME TypeInv, NEW d, Delete(d)
    PROVE  /\ docs' \in [DOMAIN docs' -> Row] /\ DOMAIN docs' = DOMAIN docs \ {d}
           /\ \A e \in DOMAIN docs' : docs'[e] = docs[e]
           /\ vectors' \in [DOMAIN vectors' -> Texts] /\ DOMAIN vectors' = DOMAIN vectors \ {d}
           /\ \A e \in DOMAIN vectors' : vectors'[e] = vectors[e]
           /\ writes' \in [DOMAIN writes' -> Write] /\ DOMAIN writes' = DOMAIN writes
           /\ judged' \subseteq Ids
           /\ IsFiniteSet(DOMAIN docs')
<1>1. /\ docs' \in [DOMAIN docs' -> Row] /\ DOMAIN docs' = DOMAIN docs \ {d}
      /\ \A e \in DOMAIN docs' : docs'[e] = docs[e]
  BY DEF Without, Delete, TypeInv, TypeOK
<1>2. /\ vectors' \in [DOMAIN vectors' -> Texts] /\ DOMAIN vectors' = DOMAIN vectors \ {d}
      /\ \A e \in DOMAIN vectors' : vectors'[e] = vectors[e]
  BY DEF Without, Delete, TypeInv, TypeOK
<1>3. writes' \in [DOMAIN writes' -> Write] /\ DOMAIN writes' = DOMAIN writes
  <2>1. \A k \in DOMAIN writes : [writes[k] EXCEPT !.doc = Forget(@, d)] \in Write
    BY DEF TypeInv, TypeOK, Write, Forget
  <2> QED BY <2>1 DEF Delete
<1>4. judged' \subseteq Ids
  BY DEF Delete, TypeInv, TypeOK
<1>5. IsFiniteSet(DOMAIN docs')
  BY <1>1, FS_RemoveElement DEF TypeInv
<1> QED BY <1>1, <1>2, <1>3, <1>4, <1>5

(* A step that only moves a handler on.                                    *)
LEMMA WaitingType ==
    ASSUME TypeInv, UNCHANGED corpus, req' \in [Reqs -> Request]
    PROVE  TypeInv'
BY DEF TypeInv, TypeOK, PendingCaseHasCandidate, corpus

(* Storing a contribution, with or without a case.                         *)
LEMMA StoreType ==
    ASSUME TypeInv, NEW c \in Contributions, NEW d \in Ids, NEW r \in Reqs,
           NEW status \in {"active", "flagged"}, Store(c, d, status), Finish(r),
           UNCHANGED cases \/ OpenCase(c, d)
    PROVE  TypeInv'
<1>1. NewDoc(c, status) \in Row
  <2>1. ResolvePath(NotesDir, c.text.title, PathsUnder(NotesDir, NoDoc)) \in Paths
    BY ContributionFields, ResolvedPathType DEF TypeInv
  <2> QED BY <2>1, ContributionFields, CorpusAssumption DEF NewDoc, RowFrom, Row
<1>2. /\ docs' \in [DOMAIN docs' -> Row] /\ DOMAIN docs' = DOMAIN docs \cup {d}
      /\ maker' \in [DOMAIN maker' -> Authors \X Keys] /\ DOMAIN maker' = DOMAIN maker \cup {d}
      /\ vectors' \in [DOMAIN vectors' -> Texts] /\ DOMAIN vectors' = DOMAIN vectors \cup {d}
  BY <1>1, ContributionFields, WithType, WithFacts DEF Store, TypeInv, TypeOK
<1>3. /\ writes' \in [DOMAIN writes' -> Write]
      /\ DOMAIN writes' = DOMAIN writes \cup {Key(c)}
  <2> DEFINE row == [digest |-> c, current |-> TRUE, doc |-> d,
                     state |-> IF status = "active" THEN "inserted" ELSE "flagged"]
  <2>1. row \in Write
    BY DEF Write
  <2>2. writes' = With(writes, Key(c), row)
    BY DEF Store
  <2> HIDE DEF row
  <2> QED BY <2>1, <2>2, WithType, WithFacts DEF TypeInv, TypeOK
<1>4. IsFiniteSet(DOMAIN docs')
  BY <1>2, FS_AddElement DEF TypeInv
<1>5. /\ cases' \in [DOMAIN cases' -> Case] /\ DOMAIN cases' \subseteq Ids
      /\ PendingCaseHasCandidate'
  <2>1. CASE UNCHANGED cases
    BY <2>1 DEF TypeInv, TypeOK, PendingCaseHasCandidate
  <2>2. CASE OpenCase(c, d)
    <3>1. PICK S \in SUBSET Readable :
              cases' = With(cases, d, [state |-> "pending", candidate |-> d, evidence |-> S])
      BY <2>2 DEF OpenCase
    <3> DEFINE row == [state |-> "pending", candidate |-> d, evidence |-> S]
    <3>2. row \in Case /\ row.candidate = d
      BY DEF Case, Readable, TypeInv, TypeOK
    <3>3. cases' = With(cases, d, row)
      BY <3>1
    <3> HIDE DEF row
    <3>4. cases \in [DOMAIN cases -> Case] /\ DOMAIN cases \subseteq Ids
      BY DEF TypeInv, TypeOK
    <3>5. /\ DOMAIN cases' = DOMAIN cases \cup {d} /\ cases'[d] = row
          /\ \A x \in DOMAIN cases \ {d} : cases'[x] = cases[x]
      BY <3>3 DEF With
    <3>6. cases' \in [DOMAIN cases' -> Case]
      BY <3>2, <3>3, <3>4, WithType
    <3> QED BY <3>2, <3>4, <3>5, <3>6 DEF TypeInv, PendingCaseHasCandidate
  <2> QED BY <2>1, <2>2
<1>6. req' \in [Reqs -> Request]
  BY FinishType DEF TypeInv, TypeOK
<1>7. UNCHANGED <<proposals, judged>>
  BY DEF Store
<1> QED BY <1>2, <1>3, <1>4, <1>5, <1>6, <1>7, ContributionFields DEF TypeInv, TypeOK

(* A writer that replaces a note's content, with its proposal and vector.  *)
LEMMA RewriteType ==
    ASSUME TypeInv, NEW d \in DOMAIN docs, NEW text \in Texts, NEW meta \in Metas,
           Rewrite(d, text, meta), Embed(d, text) \/ UNCHANGED vectors,
           proposals' \in [DOMAIN proposals' -> Proposal], DOMAIN proposals' \subseteq ProposalIds,
           req' \in [Reqs -> Request], UNCHANGED <<cases, writes, maker>>
    PROVE  TypeInv'
<1>1. /\ vectors' \in [DOMAIN vectors' -> Texts] /\ DOMAIN vectors' \subseteq Ids
  <2>1. CASE Embed(d, text)
    <3>1. vectors' = With(vectors, d, text) /\ d \in Ids
      BY <2>1 DEF Embed, TypeInv, TypeOK
    <3>2. vectors \in [DOMAIN vectors -> Texts] /\ DOMAIN vectors \subseteq Ids
      BY DEF TypeInv, TypeOK
    <3> QED BY <3>1, <3>2 DEF With
  <2>2. CASE UNCHANGED vectors
    BY <2>2 DEF TypeInv, TypeOK
  <2> QED BY <2>1, <2>2
<1>2. /\ DOMAIN docs' = DOMAIN docs /\ docs' \in [DOMAIN docs' -> Row]
      /\ judged' \subseteq Ids
  BY RewriteFacts DEF TypeInv
<1> QED BY <1>1, <1>2 DEF TypeInv, TypeOK, PendingCaseHasCandidate

(* A decided proposal is a proposal.                                       *)
LEMMA DecidedType ==
    ASSUME NEW q \in Proposal, NEW applied \in 0..MaxRev,
           NEW state \in {"accepted", "rejected", "stale"}
    PROVE  [q EXCEPT !.state = state, !.applied = applied] \in Proposal
BY Zenon DEF Proposal

(* Deciding a proposal.                                                    *)
LEMMA DecideType ==
    ASSUME TypeOK, NEW p \in DOMAIN proposals, NEW applied \in 0..MaxRev,
           NEW state \in {"accepted", "rejected", "stale"}, Decide(p, state, applied)
    PROVE  /\ DOMAIN proposals' = DOMAIN proposals
           /\ proposals' \in [DOMAIN proposals' -> Proposal]
           /\ \A q \in DOMAIN proposals \ {p} : proposals'[q] = proposals[q]
           /\ proposals'[p] = [proposals[p] EXCEPT !.state = state, !.applied = applied]
<1> DEFINE row == [proposals[p] EXCEPT !.state = state, !.applied = applied]
<1>1. row \in Proposal
  BY Zenon, DecidedType DEF TypeOK
<1>2. proposals' = [proposals EXCEPT ![p] = row]
  BY DEF Decide
<1> HIDE DEF row
<1>3. /\ DOMAIN proposals' = DOMAIN proposals
      /\ proposals' \in [DOMAIN proposals' -> Proposal]
      /\ \A q \in DOMAIN proposals \ {p} : proposals'[q] = proposals[q]
      /\ proposals'[p] = row
  BY <1>1, <1>2 DEF TypeOK
<1> QED BY <1>3 DEF row

(* A decision about any proposal, there or not, leaves the table typed.    *)
LEMMA DecideAnyType ==
    ASSUME TypeOK, NEW p, NEW applied \in 0..MaxRev,
           NEW state \in {"accepted", "rejected", "stale"}, Decide(p, state, applied)
    PROVE  /\ proposals' \in [DOMAIN proposals' -> Proposal]
           /\ DOMAIN proposals' \subseteq ProposalIds
<1>1. CASE p \in DOMAIN proposals
  BY <1>1, DecideType DEF TypeOK
<1>2. CASE p \notin DOMAIN proposals
  <2>1. proposals' = proposals
    BY <1>2 DEF Decide, TypeOK
  <2> QED BY <2>1 DEF TypeOK
<1> QED BY <1>1, <1>2

(* A proposal found stale.                                                 *)
LEMMA MarkStaleType ==
    ASSUME TypeInv, NEW p, MarkStale(p), req' \in [Reqs -> Request]
    PROVE  TypeInv'
<1>1. /\ proposals' \in [DOMAIN proposals' -> Proposal]
      /\ DOMAIN proposals' \subseteq ProposalIds
  BY CorpusAssumption, DecideAnyType DEF MarkStale, TypeInv
<1> QED BY <1>1 DEF MarkStale, TypeInv, TypeOK, PendingCaseHasCandidate, notes

(* Every action keeps the type.                                            *)
LEMMA NextTypeInv == TypeInv /\ [Next]_vars => TypeInv'
<1> SUFFICES ASSUME TypeInv, [Next]_vars PROVE TypeInv'
  OBVIOUS
<1> USE DEF TypeInv
<1>0. /\ TypeOK /\ req \in [Reqs -> Request]
      /\ \A d \in DOMAIN docs : docs[d] \in Row /\ d \in Ids
      /\ Readable \subseteq DOMAIN docs
  BY DEF TypeOK, Readable
<1>1. CASE UNCHANGED vars
  BY <1>1 DEF TypeOK, PendingCaseHasCandidate, vars
<1>2. ASSUME NEW r \in Reqs, NEW c \in Contributions, Contribute(r, c) PROVE TypeInv'
  <2>1. CASE Key(c) \in DOMAIN writes /\ Replay(r, c)
    BY <2>1, ReplayType
  <2>2. CASE Goto(r, [pc |-> "contribute", body |-> c]) /\ UNCHANGED corpus
    <3>1. [pc |-> "contribute", body |-> c] \in Request
      BY DEF Request
    <3> QED BY <1>0, <2>2, <3>1, GotoType, WaitingType
  <2> QED BY <1>2, <2>1, <2>2 DEF Contribute
<1>3. ASSUME NEW r \in Reqs, NEW d \in Ids, SettleContribution(r, d) PROVE TypeInv'
  <2> DEFINE c == req[r].body
  <2>1. req[r].pc = "contribute" /\ c \in Contributions
    BY <1>0, <1>3, RequestFields DEF SettleContribution
  <2>2. CASE ~Unsettled(Key(c)) /\ Replay(r, c)
    <3> HIDE DEF c
    <3> QED BY <2>1, <2>2, ReplayType DEF Unsettled
  <2>3. CASE Finish(r) /\ Store(c, d, "active") /\ UNCHANGED cases
    <3> HIDE DEF c
    <3> QED BY <2>1, <2>3, StoreType
  <2>4. CASE Finish(r) /\ Store(c, d, "flagged") /\ OpenCase(c, d)
    <3> HIDE DEF c
    <3> QED BY <2>1, <2>4, StoreType
  <2> QED BY <1>3, <2>2, <2>3, <2>4 DEF SettleContribution
<1>4. ASSUME NEW r \in Reqs, NEW d \in Ids, NEW e \in Replacements, Update(r, d, e)
      PROVE  TypeInv'
  <2>1. [pc |-> "update", doc |-> d, body |-> e] \in Request
    BY DEF Request
  <2> QED BY <1>0, <1>4, <2>1, GotoType, WaitingType DEF Update
<1>5. ASSUME NEW r \in Reqs, NEW d \in Ids, NEW s \in Additions, NEW a \in Authors,
             SetSummary(r, d, s, a)
      PROVE  TypeInv'
  <2> DEFINE q == [pc |-> "summary", doc |-> d, rev |-> docs[d].rev, who |-> a,
                   text |-> Summarised(docs[d].text, s)]
  <2>1. docs[d] \in Row /\ Goto(r, q) /\ UNCHANGED corpus
    BY <1>0, <1>5 DEF SetSummary
  <2>2. Summarised(docs[d].text, s) \in Texts
    BY <2>1, CorpusAssumption DEF Row, Texts, Summarised
  <2>3. q \in Request
    BY <2>1, <2>2 DEF Request, Row
  <2> HIDE DEF q
  <2> QED BY <1>0, <2>1, <2>3, GotoType, WaitingType
<1>6. ASSUME NEW r \in Reqs, RecordConflict(r) PROVE TypeInv'
  <2>1. req' \in [Reqs -> Request]
    BY <1>0, <1>6, FinishType DEF RecordConflict
  <2> QED BY <1>6, <2>1 DEF RecordConflict, TypeOK, PendingCaseHasCandidate, notes
<1>7. ASSUME NEW r \in Reqs, SettleUpdate(r) PROVE TypeInv'
  <2> DEFINE d == req[r].doc
             e == req[r].body
  <2>1. /\ req[r].pc = "update" /\ Finish(r)
        /\ e.text \in Texts /\ e.meta \in Metas
    BY <1>0, <1>7, RequestFields, CorpusAssumption DEF SettleUpdate, Contents
  <2>2. req' \in [Reqs -> Request]
    BY <1>0, <2>1, FinishType
  <2>3. CASE UNCHANGED corpus
    BY <2>2, <2>3, WaitingType
  <2>4. CASE /\ d \in DOMAIN docs /\ Rewrite(d, e.text, e.meta) /\ Embed(d, e.text)
             /\ UNCHANGED <<cases, proposals, writes, maker>>
    <3>1. /\ proposals' \in [DOMAIN proposals' -> Proposal]
          /\ DOMAIN proposals' \subseteq ProposalIds
      BY <1>0, <2>4 DEF TypeOK
    <3> HIDE DEF d, e
    <3> QED BY <2>1, <2>2, <2>4, <3>1, RewriteType
  <2> QED BY <1>7, <2>3, <2>4 DEF SettleUpdate
<1>8. ASSUME NEW r \in Reqs, SettleSummary(r) PROVE TypeInv'
  <2> DEFINE d == req[r].doc
             text == req[r].text
             new == Summarised(docs[d].text, text.summary)
  <2>1. req[r].pc = "summary" /\ Finish(r) /\ text \in Texts
    BY <1>0, <1>8, RequestFields DEF SettleSummary
  <2>2. req' \in [Reqs -> Request]
    BY <1>0, <2>1, FinishType
  <2>3. CASE UNCHANGED corpus
    BY <2>2, <2>3, WaitingType
  <2>4. CASE /\ d \in DOMAIN docs /\ Rewrite(d, new, docs[d].meta) /\ Embed(d, text)
             /\ UNCHANGED <<cases, proposals, writes, maker>>
    <3>1. docs[d] \in Row
      BY <1>0, <2>4
    <3>2. new \in Texts /\ docs[d].meta \in Metas
      BY <2>1, <3>1 DEF Row, Texts, Summarised
    <3>3. /\ DOMAIN docs' = DOMAIN docs /\ docs' \in [DOMAIN docs' -> Row]
          /\ judged' \subseteq Ids
      BY <1>0, <2>4, <3>2, RewriteFacts
    <3>4. vectors' \in [DOMAIN vectors' -> Texts] /\ DOMAIN vectors' \subseteq Ids
      BY <1>0, <2>1, <2>4 DEF Embed, With, TypeOK
    <3> QED BY <2>2, <2>4, <3>3, <3>4 DEF TypeOK, PendingCaseHasCandidate
  <2> QED BY <1>8, <2>3, <2>4 DEF SettleSummary, MaySummarise, AtRevision
<1>9. ASSUME NEW d \in Ids, NEW m \in NewMetas, UpdateMetadata(d, m) PROVE TypeInv'
  <2>1. /\ d \in DOMAIN docs /\ docs[d].text \in Texts /\ m \in Metas
        /\ Rewrite(d, docs[d].text, m)
        /\ UNCHANGED <<vectors, cases, proposals, writes, req, maker>>
    BY <1>0, <1>9, CorpusAssumption DEF UpdateMetadata, Row
  <2>2. /\ proposals' \in [DOMAIN proposals' -> Proposal]
        /\ DOMAIN proposals' \subseteq ProposalIds /\ req' \in [Reqs -> Request]
    BY <1>0, <2>1 DEF TypeOK
  <2> QED BY <2>1, <2>2, RewriteType
<1>10. ASSUME NEW p \in ProposalIds, NEW d \in Ids, NEW ch \in Changes, Propose(p, d, ch)
       PROVE  TypeInv'
  <2> DEFINE row == [doc |-> d, rev |-> docs[d].rev, change |-> ch, state |-> "pending",
                     applied |-> 0, seen |-> <<docs[d].text, docs[d].meta>>]
  <2>1. /\ d \in DOMAIN docs /\ proposals' = With(proposals, p, row)
        /\ UNCHANGED <<notes, cases, writes, req, maker, judged>>
    BY <1>0, <1>10 DEF Propose
  <2>2. row \in Proposal
    BY <1>0, <2>1, CorpusAssumption DEF Proposal, Row
  <2> HIDE DEF row
  <2>3. /\ proposals' \in [DOMAIN proposals' -> Proposal]
        /\ DOMAIN proposals' \subseteq ProposalIds
    BY <1>0, <2>1, <2>2 DEF With, TypeOK
  <2> QED BY <2>1, <2>3 DEF TypeOK, PendingCaseHasCandidate, notes
<1>11. ASSUME NEW r \in Reqs, NEW p \in ProposalIds, Accept(r, p) PROVE TypeInv'
  <2> DEFINE d == proposals[p].doc
  <2>1. p \in DOMAIN proposals /\ proposals[p] \in Proposal
    BY <1>11 DEF Accept, TypeOK
  <2>2. CASE OnBase(p) /\ Goto(r, [pc |-> "accept", proposal |-> p,
                                   body |-> Amended(docs[d], proposals[p].change)])
    <3>1. docs[d] \in Row /\ proposals[p].change \in Changes
      BY <1>0, <2>1, <2>2 DEF OnBase, AtRevision, Proposal
    <3>2. [pc |-> "accept", proposal |-> p,
           body |-> Amended(docs[d], proposals[p].change)] \in Request
      BY <3>1, AmendedType DEF Request
    <3> QED BY <1>0, <1>11, <2>2, <3>2, GotoType, WaitingType DEF Accept
  <2>3. CASE Goto(r, [pc |-> "stale", proposal |-> p])
    <3>1. [pc |-> "stale", proposal |-> p] \in Request
      BY DEF Request
    <3> QED BY <1>0, <1>11, <2>3, <3>1, GotoType, WaitingType DEF Accept
  <2> QED BY <1>11, <2>2, <2>3 DEF Accept
<1>12. ASSUME NEW r \in Reqs, SettleStale(r) PROVE TypeInv'
  <2> DEFINE p == req[r].proposal
  <2>1. req' \in [Reqs -> Request]
    BY <1>0, <1>12, FinishType DEF SettleStale
  <2>2. CASE UNCHANGED corpus
    BY <2>1, <2>2, WaitingType
  <2>3. CASE MarkStale(p)
    BY <2>1, <2>3, MarkStaleType
  <2> QED BY <1>12, <2>2, <2>3 DEF SettleStale
<1>13. ASSUME NEW r \in Reqs, SettleAcceptance(r) PROVE TypeInv'
  <2> DEFINE p == req[r].proposal
             d == proposals[p].doc
             e == req[r].body
  <2>1. req[r].pc = "accept" /\ e.text \in Texts /\ e.meta \in Metas
    BY <1>0, <1>13, RequestFields DEF SettleAcceptance, Contents
  <2>2. req' \in [Reqs -> Request]
    BY <1>0, <1>13, FinishType DEF SettleAcceptance
  <2>3. CASE UNCHANGED corpus
    BY <2>2, <2>3, WaitingType
  <2>4. CASE MarkStale(p)
    BY <2>2, <2>4, MarkStaleType
  <2>5. CASE /\ OnBase(p) /\ Rewrite(d, e.text, e.meta)
             /\ Embed(d, e.text) \/ UNCHANGED vectors
             /\ Decide(p, "accepted", docs'[d].rev)
             /\ UNCHANGED <<cases, writes, maker>>
    <3>1. d \in DOMAIN docs
      BY <2>5 DEF OnBase, AtRevision
    <3> HIDE DEF d, e
    <3>2. docs' \in [DOMAIN docs' -> Row] /\ DOMAIN docs' = DOMAIN docs
      BY <1>0, <2>1, <2>5, <3>1, RewriteFacts
    <3>3. docs'[d].rev \in 0..MaxRev
      BY <3>1, <3>2, CorpusAssumption DEF Row
    <3>4. proposals' \in [DOMAIN proposals' -> Proposal] /\ DOMAIN proposals' \subseteq ProposalIds
      BY <1>0, <2>5, <3>3, DecideAnyType
    <3> QED BY <2>1, <2>2, <2>5, <3>1, <3>4, RewriteType
  <2> QED BY <1>13, <2>3, <2>4, <2>5 DEF SettleAcceptance
<1>14. ASSUME NEW p \in ProposalIds, Reject(p) PROVE TypeInv'
  <2>1. proposals' \in [DOMAIN proposals' -> Proposal] /\ DOMAIN proposals' \subseteq ProposalIds
    BY <1>0, <1>14, CorpusAssumption, DecideAnyType DEF Reject
  <2> QED BY <1>14, <2>1 DEF Reject, TypeOK, PendingCaseHasCandidate, notes
<1>15. ASSUME NEW d \in Ids, Retire(d) PROVE TypeInv'
  <2>1. /\ Delete(d) /\ ~UnderReview(d)
        /\ cases' = [x \in DOMAIN cases |-> [cases[x] EXCEPT !.candidate = Forget(@, d)]]
        /\ UNCHANGED <<proposals, req, maker>>
    BY <1>15 DEF Retire
  <2>2. \A x \in DOMAIN cases :
          /\ cases[x] \in Case
          /\ [cases[x] EXCEPT !.candidate = Forget(@, d)] \in Case
          /\ [cases[x] EXCEPT !.candidate = Forget(@, d)].state = cases[x].state
          /\ cases[x].candidate # d =>
                [cases[x] EXCEPT !.candidate = Forget(@, d)].candidate = cases[x].candidate
    BY DEF TypeOK, Case, Forget
  <2>3. \A x \in DOMAIN cases : cases[x].state = "pending" => cases[x].candidate # d
    BY <2>1 DEF UnderReview
  <2>4. /\ cases' \in [DOMAIN cases' -> Case] /\ DOMAIN cases' = DOMAIN cases
        /\ PendingCaseHasCandidate'
    BY <2>1, <2>2, <2>3 DEF PendingCaseHasCandidate
  <2> QED BY <1>0, <2>1, <2>4, DeleteType DEF TypeOK
<1>16. ASSUME NEW x \in Ids, Publish(x) PROVE TypeInv'
  <2> DEFINE d == cases[x].candidate
  <2>1. /\ x \in DOMAIN cases /\ cases[x] \in Case /\ d = x
        /\ cases' = [cases EXCEPT ![x].state = "accepted"]
        /\ docs' = [docs EXCEPT ![d].status = "active"]
        /\ judged' = judged \cup {d}
        /\ UNCHANGED <<vectors, proposals, writes, req, maker>>
    BY <1>16 DEF Publish, PendingCaseHasCandidate, TypeOK
  <2>2. docs' \in [DOMAIN docs' -> Row] /\ DOMAIN docs' = DOMAIN docs
    <3> DEFINE row == [docs[d] EXCEPT !.status = "active"]
    <3>1. d \in DOMAIN docs => row \in Row
      BY <1>0 DEF Row
    <3>2. docs' = [docs EXCEPT ![d] = row]
      BY <2>1
    <3> HIDE DEF row, d
    <3> QED BY <3>1, <3>2 DEF TypeOK
  <2>3. /\ cases' \in [DOMAIN cases' -> Case] /\ DOMAIN cases' = DOMAIN cases
        /\ PendingCaseHasCandidate'
    <3> DEFINE case == [cases[x] EXCEPT !.state = "accepted"]
    <3>1. case \in Case /\ case.state # "pending"
      BY <2>1 DEF Case
    <3>2. cases' = [cases EXCEPT ![x] = case]
      BY <2>1
    <3> HIDE DEF case, d
    <3> QED BY <2>1, <3>1, <3>2 DEF TypeOK, PendingCaseHasCandidate
  <2> QED BY <2>1, <2>2, <2>3 DEF TypeOK
<1>17. ASSUME NEW x \in Ids, Discard(x) PROVE TypeInv'
  <2> DEFINE d == cases[x].candidate
  <2>1. /\ x \in DOMAIN cases /\ Delete(d)
        /\ cases' = [cases EXCEPT ![x].state = "rejected", ![x].candidate = NoDoc]
        /\ UNCHANGED <<proposals, req, maker>>
    BY <1>17 DEF Discard
  <2>2. /\ cases' \in [DOMAIN cases' -> Case] /\ DOMAIN cases' = DOMAIN cases
        /\ PendingCaseHasCandidate'
    <3> DEFINE case == [cases[x] EXCEPT !.state = "rejected", !.candidate = NoDoc]
    <3>1. case \in Case /\ case.state # "pending"
      BY SMTT(20), <2>1 DEF Case, TypeOK
    <3>2. cases' = [cases EXCEPT ![x] = case]
      BY <2>1
    <3> HIDE DEF case, d
    <3> QED BY <2>1, <3>1, <3>2 DEF TypeOK, PendingCaseHasCandidate
  <2> HIDE DEF d
  <2> QED BY <1>0, <2>1, <2>2, DeleteType DEF TypeOK
<1>18. ASSUME NEW d \in Ids, NEW pr \in Promotions, Promote(d, pr) PROVE TypeInv'
  <2> DEFINE path == ResolvePath(Folder(pr), docs[d].text.title, PathsUnder(Folder(pr), d))
  <2>1. /\ d \in DOMAIN docs /\ docs[d] \in Row
        /\ docs' = [docs EXCEPT ![d].promo = pr, ![d].path = path]
        /\ UNCHANGED <<vectors, cases, proposals, writes, req, maker, judged>>
    BY <1>0, <1>18 DEF Promote
  <2>2. path \in Paths
    BY <2>1, ResolvedPathType DEF Folder, Row, Texts
  <2> HIDE DEF path
  <2>3. docs' \in [DOMAIN docs' -> Row] /\ DOMAIN docs' = DOMAIN docs
    <3> DEFINE row == [docs[d] EXCEPT !.promo = pr, !.path = path]
    <3>1. row \in Row
      BY <2>1, <2>2 DEF Row
    <3>2. docs' = [docs EXCEPT ![d] = row]
      BY <2>1
    <3> HIDE DEF row
    <3> QED BY <3>1, <3>2 DEF TypeOK
  <2> QED BY <2>1, <2>3 DEF TypeOK, PendingCaseHasCandidate
<1>19. ASSUME NEW r \in Reqs, Lose(r) PROVE TypeInv'
  BY <1>0, <1>19, FinishType, WaitingType DEF Lose
<1>20. ASSUME NEW r \in Reqs, Restate(r) PROVE TypeInv'
  BY <1>20, RestateType
<1> QED
  BY <1>1, <1>2, <1>3, <1>4, <1>5, <1>6, <1>7, <1>8, <1>9, <1>10, <1>11, <1>12, <1>13,
     <1>14, <1>15, <1>16, <1>17, <1>18, <1>19, <1>20
     DEF Next

(* TypeOK, which CorpusWrites checks, for any constants: in particular a   *)
(* name is always found for a note, however many notes share its title.    *)
THEOREM TypeCorrect == Spec => []TypeOK
<1>1. Spec => []TypeInv
  BY InitTypeInv, NextTypeInv, PTL DEF Spec
<1>2. TypeInv => TypeOK
  BY DEF TypeInv
<1> QED BY <1>1, <1>2, PTL

-----------------------------------------------------------------------------
(* 3. Content and revisions.                                               *)
(*                                                                         *)
(* A handler decides on a copy of a note that it read before the embedding *)
(* provider was called.  What makes that sound is that content never       *)
(* changes under a revision: the compare-and-set on content_revision then  *)
(* vouches for the copy.  An author's proposal is protected the same way.  *)

(* What a step does to notes: it may add new ones, and it changes the      *)
(* content of an old one only by giving it a later revision.               *)
ContentFollowsRevision ==
    /\ DOMAIN maker \subseteq DOMAIN maker'
    /\ DOMAIN docs' \cap DOMAIN maker \subseteq DOMAIN docs
    /\ \A d \in DOMAIN docs \cap DOMAIN docs' :
          \/ /\ docs'[d].rev = docs[d].rev
             /\ docs'[d].text = docs[d].text /\ docs'[d].meta = docs[d].meta
          \/ docs'[d].rev > docs[d].rev

(* What a proposal says of the note it is for.                             *)
ProposalsOnBase ==
    \A p \in DOMAIN proposals :
        LET q == proposals[p]
            d == q.doc
        IN /\ d \in DOMAIN maker
           /\ d \in DOMAIN docs =>
                /\ q.rev <= docs[d].rev
                /\ q.rev = docs[d].rev => /\ q.seen = <<docs[d].text, docs[d].meta>>
                                          /\ q.state \in {"pending", "rejected"}

(* What a handler holds of the note it is about to write.                  *)
SummaryIsCurrent(q) ==
    /\ q.doc \in DOMAIN maker
    /\ q.doc \in DOMAIN docs => q.rev <= docs[q.doc].rev
    /\ AtRevision(q.doc, q.rev) => q.text = Summarised(docs[q.doc].text, q.text.summary)
AcceptIsCurrent(q) ==
    LET p == q.proposal
    IN /\ p \in DOMAIN proposals
       /\ OnBase(p) => q.body = Amended(docs[proposals[p].doc], proposals[p].change)
StaleIsCurrent(q) == q.proposal \in DOMAIN proposals /\ ~OnBase(q.proposal)

RequestsCurrent ==
    \A r \in Reqs : /\ req[r].pc = "summary" => SummaryIsCurrent(req[r])
                    /\ req[r].pc = "accept" => AcceptIsCurrent(req[r])
                    /\ req[r].pc = "stale" => StaleIsCurrent(req[r])

Inv == TypeInv /\ EmbeddingMatchesText /\ ProposalsOnBase /\ RequestsCurrent

(* The effect of a rewrite, whatever it writes.                            *)
LEMMA RewriteEffect ==
    ASSUME TypeOK, NEW d \in DOMAIN docs, NEW text, NEW meta, Rewrite(d, text, meta)
    PROVE  /\ DOMAIN docs' = DOMAIN docs
           /\ docs[d].rev \in Nat /\ docs'[d].rev = docs[d].rev + 1
           /\ docs'[d].text = text /\ docs'[d].meta = meta
           /\ docs'[d].status = docs[d].status
           /\ \A e \in DOMAIN docs \ {d} : docs'[e] = docs[e]
<1>1. docs[d] \in Row /\ docs[d].rev \in Nat
  BY CorpusAssumption DEF TypeOK, Row
<1>2. /\ DOMAIN docs' = DOMAIN docs
      /\ docs'[d] = Replaced(docs[d], text, meta)
      /\ \A e \in DOMAIN docs \ {d} : docs'[e] = docs[e]
  BY DEF Rewrite, TypeOK
<1>3. /\ docs'[d].rev = docs[d].rev + 1
      /\ docs'[d].text = text /\ docs'[d].meta = meta
      /\ docs'[d].status = docs[d].status
  BY <1>1, <1>2 DEF Replaced, Row
<1> QED BY <1>1, <1>2, <1>3

(* A rewrite follows the rule.                                             *)
LEMMA RewriteFollows ==
    ASSUME TypeOK, NEW d \in DOMAIN docs, NEW text, NEW meta, Rewrite(d, text, meta),
           UNCHANGED maker
    PROVE  ContentFollowsRevision
<1>1. \A e \in DOMAIN docs : e # d => docs'[e] = docs[e]
  BY RewriteEffect
<1>2. /\ DOMAIN docs' = DOMAIN docs /\ docs'[d].rev > docs[d].rev
  BY RewriteEffect
<1> QED BY <1>1, <1>2 DEF ContentFollowsRevision

(* Every step follows the rule.                                            *)
LEMMA RevisionsGrow == TypeInv /\ [Next]_vars => ContentFollowsRevision
<1> SUFFICES ASSUME TypeInv, [Next]_vars PROVE ContentFollowsRevision
  OBVIOUS
<1>0. TypeOK /\ Readable \subseteq DOMAIN docs /\ PendingCaseHasCandidate
  BY DEF TypeInv, Readable
<1>1. ASSUME UNCHANGED docs, DOMAIN maker \subseteq DOMAIN maker'
      PROVE  ContentFollowsRevision
  BY <1>1 DEF ContentFollowsRevision
<1>2. ASSUME NEW c \in Contributions, NEW d \in Ids, NEW status, d \notin DOMAIN maker,
             Store(c, d, status)
      PROVE  ContentFollowsRevision
  <2>1. /\ docs' = With(docs, d, NewDoc(c, status)) /\ d \notin DOMAIN docs
        /\ maker' = With(maker, d, Key(c))
    BY <1>0, <1>2 DEF Store, TypeOK
  <2>2. /\ DOMAIN docs' = DOMAIN docs \cup {d} /\ DOMAIN maker' = DOMAIN maker \cup {d}
        /\ \A e \in DOMAIN docs : docs'[e] = docs[e]
    BY <2>1 DEF With
  <2> QED BY <1>2, <2>2 DEF ContentFollowsRevision
<1>3. ASSUME NEW d, Delete(d), UNCHANGED maker PROVE ContentFollowsRevision
  <2>1. /\ DOMAIN docs' \subseteq DOMAIN docs
        /\ \A e \in DOMAIN docs' : docs'[e] = docs[e]
    BY <1>3, DeleteType
  <2> QED BY <1>3, <2>1 DEF ContentFollowsRevision
<1>4. CASE UNCHANGED vars
  BY <1>1, <1>4 DEF vars
<1>5. ASSUME NEW r \in Reqs, NEW c \in Contributions, Contribute(r, c)
      PROVE  ContentFollowsRevision
  BY <1>1, <1>5, ReplayFacts DEF Contribute, corpus
<1>6. ASSUME NEW r \in Reqs, NEW d \in Ids, SettleContribution(r, d)
      PROVE  ContentFollowsRevision
  <2> DEFINE c == req[r].body
  <2>1. c \in Contributions
    BY <1>6, RequestFields DEF SettleContribution, TypeInv, TypeOK
  <2>2. CASE Replay(r, c)
    BY <1>1, <2>2, ReplayFacts
  <2>3. CASE d \notin DOMAIN maker /\ (Store(c, d, "active") \/ Store(c, d, "flagged"))
    <3> HIDE DEF c
    <3> QED BY <1>2, <2>1, <2>3
  <2> QED BY <1>6, <2>2, <2>3 DEF SettleContribution
<1>7. ASSUME NEW r \in Reqs, NEW d \in Ids, NEW e \in Replacements, Update(r, d, e)
      PROVE  ContentFollowsRevision
  BY <1>1, <1>7 DEF Update, corpus
<1>8. ASSUME NEW r \in Reqs, NEW d \in Ids, NEW s \in Additions, NEW a \in Authors,
             SetSummary(r, d, s, a)
      PROVE  ContentFollowsRevision
  BY <1>1, <1>8 DEF SetSummary, corpus
<1>9. ASSUME NEW r \in Reqs, RecordConflict(r) \/ Restate(r)
      PROVE  ContentFollowsRevision
  BY <1>0, <1>1, <1>9, RestateFacts DEF RecordConflict, notes
<1>10. ASSUME NEW r \in Reqs, SettleUpdate(r) PROVE ContentFollowsRevision
  <2>1. CASE UNCHANGED corpus
    BY <1>1, <2>1 DEF corpus
  <2>2. ASSUME req[r].doc \in DOMAIN docs, UNCHANGED maker,
               Rewrite(req[r].doc, req[r].body.text, req[r].body.meta)
        PROVE  ContentFollowsRevision
    BY <1>0, <2>2, RewriteFollows
  <2> QED BY <1>10, <2>1, <2>2 DEF SettleUpdate
<1>11. ASSUME NEW r \in Reqs, SettleSummary(r) PROVE ContentFollowsRevision
  <2>1. CASE UNCHANGED corpus
    BY <1>1, <2>1 DEF corpus
  <2>2. ASSUME NEW text, req[r].doc \in DOMAIN docs, UNCHANGED maker,
               Rewrite(req[r].doc, text, docs[req[r].doc].meta)
        PROVE  ContentFollowsRevision
    BY <1>0, <2>2, RewriteFollows
  <2> QED BY <1>11, <2>1, <2>2 DEF SettleSummary, MaySummarise, AtRevision
<1>12. ASSUME NEW d \in Ids, NEW m \in NewMetas, UpdateMetadata(d, m)
       PROVE  ContentFollowsRevision
  BY <1>0, <1>12, RewriteFollows DEF UpdateMetadata
<1>13. ASSUME NEW p \in ProposalIds, NEW d \in Ids, NEW ch \in Changes, Propose(p, d, ch)
       PROVE  ContentFollowsRevision
  BY <1>1, <1>13 DEF Propose, notes
<1>14. ASSUME NEW r \in Reqs, NEW p \in ProposalIds, Accept(r, p)
       PROVE  ContentFollowsRevision
  BY <1>1, <1>14 DEF Accept, corpus
<1>15. ASSUME NEW r \in Reqs, SettleStale(r) PROVE ContentFollowsRevision
  BY SMTT(20), <1>1, <1>15 DEF SettleStale, MarkStale, corpus, notes
<1>16. ASSUME NEW r \in Reqs, SettleAcceptance(r) PROVE ContentFollowsRevision
  <2> DEFINE d == proposals[req[r].proposal].doc
             e == req[r].body
  <2>1. CASE UNCHANGED corpus
    BY <1>1, <2>1 DEF corpus
  <2>2. CASE MarkStale(req[r].proposal)
    BY <1>1, <2>2 DEF MarkStale, notes
  <2>3. ASSUME d \in DOMAIN docs, UNCHANGED maker, Rewrite(d, e.text, e.meta)
        PROVE  ContentFollowsRevision
    <3> HIDE DEF d, e
    <3> QED BY <1>0, <2>3, RewriteFollows
  <2> QED BY <1>16, <2>1, <2>2, <2>3 DEF SettleAcceptance, OnBase, AtRevision
<1>17. ASSUME NEW p \in ProposalIds, Reject(p) PROVE ContentFollowsRevision
  BY <1>1, <1>17 DEF Reject, notes
<1>18. ASSUME NEW d \in Ids, Retire(d) PROVE ContentFollowsRevision
  BY <1>3, <1>18 DEF Retire
<1>19. ASSUME NEW x \in Ids, Publish(x) PROVE ContentFollowsRevision
  <2>1. /\ DOMAIN docs' = DOMAIN docs /\ UNCHANGED maker
        /\ \A d \in DOMAIN docs : docs'[d] = docs[d] \/ docs'[d] = [docs[d] EXCEPT !.status = "active"]
    BY <1>0, <1>19 DEF Publish, TypeOK
  <2>2. \A d \in DOMAIN docs : docs'[d].rev = docs[d].rev /\ docs'[d].text = docs[d].text
                               /\ docs'[d].meta = docs[d].meta
    BY <1>0, <2>1 DEF TypeOK, Row
  <2> QED BY <2>1, <2>2 DEF ContentFollowsRevision
<1>20. ASSUME NEW x \in Ids, Discard(x) PROVE ContentFollowsRevision
  BY <1>3, <1>20 DEF Discard
<1>21. ASSUME NEW d \in Ids, NEW pr \in Promotions, Promote(d, pr)
       PROVE  ContentFollowsRevision
  <2>1. /\ DOMAIN docs' = DOMAIN docs /\ UNCHANGED maker
        /\ \A e \in DOMAIN docs \ {d} : docs'[e] = docs[e]
        /\ d \in DOMAIN docs /\ docs[d] \in Row
        /\ \E path : docs'[d] = [docs[d] EXCEPT !.promo = pr, !.path = path]
    BY <1>0, <1>21 DEF Promote, TypeOK
  <2>2. /\ docs'[d].rev = docs[d].rev /\ docs'[d].text = docs[d].text
        /\ docs'[d].meta = docs[d].meta
    BY <2>1 DEF Row
  <2> QED BY <2>1, <2>2 DEF ContentFollowsRevision
<1>22. ASSUME NEW r \in Reqs, Lose(r) PROVE ContentFollowsRevision
  BY <1>1, <1>22 DEF Lose, corpus
<1> QED
  BY <1>4, <1>5, <1>6, <1>7, <1>8, <1>9, <1>10, <1>11, <1>12, <1>13, <1>14, <1>15, <1>16,
     <1>17, <1>18, <1>19, <1>20, <1>21, <1>22
     DEF Next

(* What a step does to proposals: a new one is written on the note as it   *)
(* is, and one old one is at most decided; it is found stale only when it  *)
(* is, and accepted only with a rewrite of the note it was on.             *)
Written(p) ==
    LET q == proposals'[p]
    IN /\ p \notin DOMAIN proposals /\ UNCHANGED docs
       /\ q.state = "pending" /\ AtRevision(q.doc, q.rev)
       /\ q.seen = <<docs[q.doc].text, docs[q.doc].meta>>
Decided(p) ==
    LET q == proposals'[p]
    IN /\ p \in DOMAIN proposals
       /\ q.doc = proposals[p].doc /\ q.rev = proposals[p].rev
       /\ q.seen = proposals[p].seen /\ q.change = proposals[p].change
       /\ \/ q.state = proposals[p].state
          \/ q.state = "rejected"
          \/ q.state = "stale" /\ ~OnBase(p) /\ UNCHANGED docs
          \/ /\ q.state = "accepted" /\ proposals[p].state = "pending" /\ OnBase(p)
             /\ docs'[q.doc].rev > q.rev
ProposalsFollow ==
    /\ DOMAIN proposals \subseteq DOMAIN proposals'
    /\ \A p \in DOMAIN proposals' : Written(p) \/ Decided(p)
    /\ \A p, q \in DOMAIN proposals :
          proposals'[p] # proposals[p] /\ proposals'[q] # proposals[q] => p = q

(* A step that leaves proposals alone, or decides one as it should.        *)
LEMMA UntouchedProposals ==
    ASSUME UNCHANGED proposals
    PROVE  ProposalsFollow
BY DEF ProposalsFollow, Decided

LEMMA DecideFollows ==
    ASSUME TypeOK, NEW p \in DOMAIN proposals, NEW applied,
           NEW state \in {"accepted", "rejected", "stale"}, Decide(p, state, applied),
           state = "stale" => ~OnBase(p) /\ UNCHANGED docs,
           state = "accepted" => /\ Pending(p) /\ OnBase(p)
                                 /\ docs'[proposals[p].doc].rev > proposals[p].rev
    PROVE  ProposalsFollow
<1> DEFINE row == [proposals[p] EXCEPT !.state = state, !.applied = applied]
<1>1. /\ proposals[p] \in Proposal
      /\ proposals' = [proposals EXCEPT ![p] = row]
  BY DEF Decide, TypeOK
<1>2. /\ row.doc = proposals[p].doc /\ row.rev = proposals[p].rev
      /\ row.seen = proposals[p].seen /\ row.change = proposals[p].change
      /\ row.state = state
  BY <1>1 DEF Proposal
<1> HIDE DEF row
<1>3. /\ DOMAIN proposals' = DOMAIN proposals /\ proposals'[p] = row
      /\ \A q \in DOMAIN proposals : q # p => proposals'[q] = proposals[q]
  BY <1>1 DEF TypeOK
<1>4. Decided(p)
  BY <1>2, <1>3 DEF Decided, Pending
<1>5. \A q \in DOMAIN proposals : q # p => Decided(q)
  BY <1>3 DEF Decided
<1> QED BY <1>3, <1>4, <1>5 DEF ProposalsFollow

(* Every step treats proposals so.                                         *)
LEMMA ProposalSteps == Inv /\ [Next]_vars => ProposalsFollow
<1> SUFFICES ASSUME Inv, [Next]_vars PROVE ProposalsFollow
  OBVIOUS
<1>0. TypeOK /\ Readable \subseteq DOMAIN docs /\ TypeInv
  BY DEF Inv, TypeInv, Readable
<1> USE UntouchedProposals
<1>1. CASE UNCHANGED vars
  BY <1>1 DEF vars
<1>2. ASSUME NEW r \in Reqs, NEW c \in Contributions, Contribute(r, c) PROVE ProposalsFollow
  BY <1>2, ReplayFacts DEF Contribute, corpus
<1>3. ASSUME NEW r \in Reqs, NEW d \in Ids, SettleContribution(r, d) PROVE ProposalsFollow
  BY <1>3, ReplayFacts DEF SettleContribution, Store, corpus
<1>4. ASSUME NEW r \in Reqs, NEW d \in Ids, NEW e \in Replacements, Update(r, d, e)
      PROVE  ProposalsFollow
  BY <1>4 DEF Update, corpus
<1>5. ASSUME NEW r \in Reqs, NEW d \in Ids, NEW s \in Additions, NEW a \in Authors,
             SetSummary(r, d, s, a)
      PROVE  ProposalsFollow
  BY <1>5 DEF SetSummary, corpus
<1>6. ASSUME NEW r \in Reqs,
             Restate(r) \/ RecordConflict(r) \/ SettleUpdate(r) \/ SettleSummary(r)
      PROVE  ProposalsFollow
  BY <1>0, <1>6, RestateFacts DEF RecordConflict, SettleUpdate, SettleSummary, corpus
<1>7. ASSUME NEW d \in Ids, NEW m \in NewMetas, UpdateMetadata(d, m) PROVE ProposalsFollow
  BY <1>7 DEF UpdateMetadata
<1>8. ASSUME NEW p \in ProposalIds, NEW d \in Ids, NEW ch \in Changes, Propose(p, d, ch)
      PROVE  ProposalsFollow
  <2> DEFINE row == [doc |-> d, rev |-> docs[d].rev, change |-> ch, state |-> "pending",
                     applied |-> 0, seen |-> <<docs[d].text, docs[d].meta>>]
  <2>1. /\ d \in DOMAIN docs /\ p \notin DOMAIN proposals
        /\ proposals' = With(proposals, p, row) /\ UNCHANGED docs
    BY <1>0, <1>8 DEF Propose, notes
  <2>2. /\ DOMAIN proposals' = DOMAIN proposals \cup {p} /\ proposals'[p] = row
        /\ \A q \in DOMAIN proposals : proposals'[q] = proposals[q]
    BY <2>1 DEF With
  <2>3. Written(p)
    BY <2>1, <2>2 DEF Written, AtRevision
  <2>4. \A q \in DOMAIN proposals : Decided(q)
    BY <2>2 DEF Decided
  <2> QED BY <2>2, <2>3, <2>4 DEF ProposalsFollow
<1>9. ASSUME NEW r \in Reqs, NEW p \in ProposalIds, Accept(r, p) PROVE ProposalsFollow
  BY <1>9 DEF Accept, corpus
<1>10. ASSUME NEW r \in Reqs, SettleStale(r) PROVE ProposalsFollow
  <2>1. StaleIsCurrent(req[r])
    BY <1>10 DEF SettleStale, Inv, RequestsCurrent
  <2> QED BY <1>0, <1>10, <2>1, DecideFollows
          DEF SettleStale, MarkStale, StaleIsCurrent, corpus, notes
<1>11. ASSUME NEW r \in Reqs, SettleAcceptance(r) PROVE ProposalsFollow
  <2> DEFINE p == req[r].proposal
             d == proposals[p].doc
             e == req[r].body
  <2>1. p \in DOMAIN proposals
    BY <1>11 DEF SettleAcceptance, Inv, RequestsCurrent, AcceptIsCurrent
  <2>2. CASE UNCHANGED corpus
    BY <2>2 DEF corpus
  <2>3. CASE ~OnBase(p) /\ MarkStale(p)
    BY <1>0, <2>1, <2>3, DecideFollows DEF MarkStale, notes
  <2>4. CASE /\ Pending(p) /\ OnBase(p) /\ Rewrite(d, e.text, e.meta)
             /\ Decide(p, "accepted", docs'[d].rev)
    <3>1. d \in DOMAIN docs /\ docs[d].rev = proposals[p].rev
      BY <2>4 DEF OnBase, AtRevision
    <3>2. docs'[d].rev > proposals[p].rev
      <4> HIDE DEF d, e, p
      <4> QED BY <1>0, <2>4, <3>1, RewriteEffect
    <3> QED BY <1>0, <2>1, <2>4, <3>2, DecideFollows
  <2> QED BY <1>11, <2>2, <2>3, <2>4 DEF SettleAcceptance
<1>12. ASSUME NEW p \in ProposalIds, Reject(p) PROVE ProposalsFollow
  BY <1>0, <1>12, DecideFollows DEF Reject
<1>13. ASSUME NEW d \in Ids, Retire(d) \/ Publish(d) \/ Discard(d) PROVE ProposalsFollow
  BY <1>13 DEF Retire, Publish, Discard
<1>14. ASSUME NEW d \in Ids, NEW pr \in Promotions, Promote(d, pr) PROVE ProposalsFollow
  BY <1>14 DEF Promote
<1>15. ASSUME NEW r \in Reqs, Lose(r) PROVE ProposalsFollow
  BY <1>15 DEF Lose, corpus
<1> QED
  BY <1>1, <1>2, <1>3, <1>4, <1>5, <1>6, <1>7, <1>8, <1>9, <1>10, <1>11, <1>12, <1>13,
     <1>14, <1>15
     DEF Next

(* Hence what a proposal says of its note stays true.                      *)
LEMMA ProposalsStay ==
    ASSUME Inv, TypeInv', ContentFollowsRevision, ProposalsFollow
    PROVE  ProposalsOnBase'
<1>0. /\ \A d \in DOMAIN docs : docs[d].rev \in Nat /\ d \in DOMAIN maker
      /\ \A d \in DOMAIN docs' : docs'[d].rev \in Nat
      /\ \A p \in DOMAIN proposals' : proposals'[p].rev \in Nat
  BY CorpusAssumption DEF Inv, TypeInv, TypeOK, Row, Proposal
<1> SUFFICES ASSUME NEW p \in DOMAIN proposals'
             PROVE  LET q == proposals'[p]
                        d == q.doc
                    IN /\ d \in DOMAIN maker'
                       /\ d \in DOMAIN docs' =>
                            /\ q.rev <= docs'[d].rev
                            /\ q.rev = docs'[d].rev =>
                                  /\ q.seen = <<docs'[d].text, docs'[d].meta>>
                                  /\ q.state \in {"pending", "rejected"}
  BY DEF ProposalsOnBase
<1> DEFINE q == proposals'[p]
           d == q.doc
<1>1. CASE Written(p)
  <2>1. /\ UNCHANGED docs /\ d \in DOMAIN docs /\ q.rev = docs[d].rev
        /\ q.seen = <<docs[d].text, docs[d].meta>> /\ q.state = "pending"
    BY <1>1 DEF Written, AtRevision
  <2> QED BY <1>0, <2>1 DEF ContentFollowsRevision
<1>2. CASE Decided(p)
  <2>1. /\ p \in DOMAIN proposals
        /\ d = proposals[p].doc /\ q.rev = proposals[p].rev /\ q.seen = proposals[p].seen
        /\ d \in DOMAIN maker
        /\ d \in DOMAIN docs =>
              /\ q.rev <= docs[d].rev
              /\ q.rev = docs[d].rev => /\ q.seen = <<docs[d].text, docs[d].meta>>
                                        /\ proposals[p].state \in {"pending", "rejected"}
    BY <1>2 DEF Decided, Inv, ProposalsOnBase
  <2>2. d \in DOMAIN maker'
    BY <2>1 DEF ContentFollowsRevision
  <2>3. ASSUME d \in DOMAIN docs'
        PROVE  /\ d \in DOMAIN docs
               /\ \/ /\ docs'[d].rev = docs[d].rev
                     /\ docs'[d].text = docs[d].text /\ docs'[d].meta = docs[d].meta
                  \/ docs'[d].rev > docs[d].rev
    BY <2>1, <2>3 DEF ContentFollowsRevision
  <2>4. ASSUME d \in DOMAIN docs', q.rev = docs'[d].rev
        PROVE  q.state \in {"pending", "rejected"}
    <3>1. docs[d].rev = q.rev /\ docs'[d].rev = q.rev
      BY <1>0, <2>1, <2>3, <2>4
    <3>2. proposals[p].state \in {"pending", "rejected"} /\ OnBase(p)
      BY <2>1, <2>3, <2>4, <3>1 DEF OnBase, AtRevision
    <3> QED BY <1>0, <1>2, <2>4, <3>1, <3>2 DEF Decided
  <2> HIDE DEF d, q
  <2>5. d \in DOMAIN docs' =>
            /\ q.rev <= docs'[d].rev
            /\ q.rev = docs'[d].rev => q.seen = <<docs'[d].text, docs'[d].meta>>
    <3>1. q.rev \in Nat
      BY <1>0 DEF q
    <3> QED BY <1>0, <2>1, <2>3, <3>1
  <2> QED BY <2>2, <2>4, <2>5 DEF d, q
<1> QED BY <1>1, <1>2 DEF ProposalsFollow

(* What a step does to a handler: it leaves it alone, gives it nothing     *)
(* that can go out of date, or a copy of a note as it is.                  *)
CopiesFollow ==
    \A r \in Reqs :
        \/ req'[r] = req[r]
        \/ req'[r].pc \in {"idle", "contribute", "restate", "conflict", "update"}
        \/ UNCHANGED corpus /\ req'[r].pc = "summary" /\ SummaryIsCurrent(req'[r])
        \/ UNCHANGED corpus /\ req'[r].pc = "accept" /\ AcceptIsCurrent(req'[r])
        \/ UNCHANGED corpus /\ req'[r].pc = "stale" /\ StaleIsCurrent(req'[r])

LEMMA CopySteps == Inv /\ [Next]_vars => CopiesFollow
<1> SUFFICES ASSUME Inv, [Next]_vars PROVE CopiesFollow
  OBVIOUS
<1>0. TypeOK /\ req \in [Reqs -> Request] /\ Readable \subseteq DOMAIN docs
  BY DEF Inv, TypeInv, TypeOK, Readable
<1>1. ASSUME UNCHANGED req PROVE CopiesFollow
  BY <1>1 DEF CopiesFollow
<1>2. ASSUME NEW r \in Reqs, NEW q, Goto(r, q),
             \/ q.pc \in {"idle", "contribute", "restate", "conflict", "update"}
             \/ UNCHANGED corpus /\ q.pc = "summary" /\ SummaryIsCurrent(q)
             \/ UNCHANGED corpus /\ q.pc = "accept" /\ AcceptIsCurrent(q)
             \/ UNCHANGED corpus /\ q.pc = "stale" /\ StaleIsCurrent(q)
      PROVE  CopiesFollow
  <2>1. req'[r] = q /\ \A s \in Reqs : s # r => req'[s] = req[s]
    BY <1>0, <1>2 DEF Goto
  <2> QED BY <1>2, <2>1 DEF CopiesFollow
<1>3. ASSUME NEW r \in Reqs, Finish(r) PROVE CopiesFollow
  BY <1>2, <1>3 DEF Finish, Idle
<1>4. CASE UNCHANGED vars
  BY <1>1, <1>4 DEF vars
<1>5. ASSUME NEW r \in Reqs, NEW c \in Contributions, Contribute(r, c) PROVE CopiesFollow
  <2>1. \/ \E k : Goto(r, [pc |-> "conflict", key |-> k])
        \/ Finish(r)
        \/ \E p \in {"contribute", "restate"} : Goto(r, [pc |-> p, body |-> c])
    BY <1>5, ReplayFacts DEF Contribute
  <2> QED BY <1>2, <1>3, <2>1
<1>6. ASSUME NEW r \in Reqs, NEW d \in Ids, SettleContribution(r, d) PROVE CopiesFollow
  <2>1. \/ Finish(r)
        \/ \E k : Goto(r, [pc |-> "conflict", key |-> k])
        \/ \E c : Goto(r, [pc |-> "restate", body |-> c])
    BY <1>6, ReplayFacts DEF SettleContribution
  <2> QED BY <1>2, <1>3, <2>1
<1>7. ASSUME NEW r \in Reqs, NEW d \in Ids, NEW e \in Replacements, Update(r, d, e)
      PROVE  CopiesFollow
  BY <1>2, <1>7 DEF Update
<1>8. ASSUME NEW r \in Reqs, NEW d \in Ids, NEW s \in Additions, NEW a \in Authors,
             SetSummary(r, d, s, a)
      PROVE  CopiesFollow
  <2> DEFINE q == [pc |-> "summary", doc |-> d, rev |-> docs[d].rev, who |-> a,
                   text |-> Summarised(docs[d].text, s)]
  <2>1. d \in DOMAIN docs /\ docs[d] \in Row /\ d \in DOMAIN maker
    BY <1>0, <1>8 DEF SetSummary, TypeOK
  <2>2. q.text = Summarised(docs[d].text, q.text.summary)
    BY <2>1 DEF Row, Texts, Summarised
  <2>3. SummaryIsCurrent(q)
    BY <2>1, <2>2, CorpusAssumption DEF SummaryIsCurrent, AtRevision, Row
  <2>4. q.pc = "summary" /\ Goto(r, q) /\ UNCHANGED corpus
    BY <1>8 DEF SetSummary
  <2> HIDE DEF q
  <2> QED BY <1>2, <2>3, <2>4
<1>9. ASSUME NEW r \in Reqs, \/ Restate(r) \/ RecordConflict(r) \/ SettleUpdate(r)
                             \/ SettleSummary(r) \/ SettleStale(r)
                             \/ SettleAcceptance(r) \/ Lose(r)
      PROVE  CopiesFollow
  BY <1>3, <1>9 DEF Restate, Answer, RecordConflict, SettleUpdate, SettleSummary,
                    SettleStale, SettleAcceptance, Lose
<1>10. ASSUME NEW r \in Reqs, NEW p \in ProposalIds, Accept(r, p) PROVE CopiesFollow
  <2> DEFINE good == [pc |-> "accept", proposal |-> p,
                      body |-> Amended(docs[proposals[p].doc], proposals[p].change)]
             bad == [pc |-> "stale", proposal |-> p]
  <2>1. p \in DOMAIN proposals /\ UNCHANGED corpus
    BY <1>10 DEF Accept
  <2>2. CASE OnBase(p) /\ Goto(r, good)
    <3>1. good.pc = "accept" /\ AcceptIsCurrent(good)
      BY <2>1 DEF AcceptIsCurrent
    <3> HIDE DEF good
    <3> QED BY <1>2, <2>1, <2>2, <3>1
  <2>3. CASE ~OnBase(p) /\ Goto(r, bad)
    <3>1. bad.pc = "stale" /\ StaleIsCurrent(bad)
      BY <2>1, <2>3 DEF StaleIsCurrent
    <3> HIDE DEF bad
    <3> QED BY <1>2, <2>1, <2>3, <3>1
  <2> QED BY <1>10, <2>2, <2>3 DEF Accept
<1>11. ASSUME NEW d \in Ids,
              \/ \E m \in NewMetas : UpdateMetadata(d, m)
              \/ \E p \in ProposalIds, ch \in Changes : Propose(p, d, ch)
              \/ \E pr \in Promotions : Promote(d, pr)
              \/ Retire(d) \/ Publish(d) \/ Discard(d)
       PROVE  CopiesFollow
  BY <1>1, <1>11 DEF UpdateMetadata, Propose, Promote, Retire, Publish, Discard
<1>12. ASSUME NEW p \in ProposalIds, Reject(p) PROVE CopiesFollow
  BY <1>1, <1>12 DEF Reject
<1> QED
  BY <1>4, <1>5, <1>6, <1>7, <1>8, <1>9, <1>10, <1>11, <1>12 DEF Next

(* Being on its base is something a proposal can only lose, and while it   *)
(* is, the note has the content it had.                                    *)
LEMMA BaseStays ==
    ASSUME Inv, TypeInv', ContentFollowsRevision, ProposalsFollow,
           NEW p \in DOMAIN proposals, OnBase(p)'
    PROVE  LET d == proposals[p].doc
           IN /\ OnBase(p) /\ proposals'[p].doc = d
              /\ proposals'[p].change = proposals[p].change
              /\ docs'[d].text = docs[d].text /\ docs'[d].meta = docs[d].meta
<1> DEFINE d == proposals[p].doc
<1>1. /\ p \in DOMAIN proposals'
      /\ proposals'[p].doc = d /\ proposals'[p].rev = proposals[p].rev
      /\ proposals'[p].change = proposals[p].change
  BY DEF ProposalsFollow, Written, Decided
<1>2. d \in DOMAIN docs' /\ docs'[d].rev = proposals[p].rev
  BY <1>1 DEF OnBase, AtRevision
<1>3. d \in DOMAIN docs
  BY <1>2 DEF ContentFollowsRevision, Inv, ProposalsOnBase
<1>4. proposals[p].rev <= docs[d].rev
  BY <1>3 DEF Inv, ProposalsOnBase
<1>5. proposals[p].rev \in Int /\ docs[d].rev \in Int
  BY <1>3, CorpusAssumption DEF Inv, TypeInv, TypeOK, Row, Proposal
<1>6. \/ /\ docs'[d].rev = docs[d].rev
         /\ docs'[d].text = docs[d].text /\ docs'[d].meta = docs[d].meta
      \/ docs'[d].rev > docs[d].rev
  BY <1>2, <1>3 DEF ContentFollowsRevision
<1> HIDE DEF d
<1>7. /\ docs[d].rev = proposals[p].rev
      /\ docs'[d].text = docs[d].text /\ docs'[d].meta = docs[d].meta
  BY <1>2, <1>4, <1>5, <1>6
<1> QED BY <1>1, <1>3, <1>7 DEF OnBase, AtRevision, d

(* Hence what handlers hold stays good.                                    *)
LEMMA CopiesStay ==
    ASSUME Inv, TypeInv', ContentFollowsRevision, ProposalsFollow, CopiesFollow
    PROVE  RequestsCurrent'
<1> SUFFICES ASSUME NEW r \in Reqs
             PROVE  /\ req'[r].pc = "summary" => SummaryIsCurrent(req[r])'
                    /\ req'[r].pc = "accept" => AcceptIsCurrent(req[r])'
                    /\ req'[r].pc = "stale" => StaleIsCurrent(req[r])'
  BY DEF RequestsCurrent
<1> DEFINE q == req[r]
<1>1. CASE req'[r] = q
  <2>1. /\ q.pc = "summary" => SummaryIsCurrent(q)
        /\ q.pc = "accept" => AcceptIsCurrent(q)
        /\ q.pc = "stale" => StaleIsCurrent(q)
    BY DEF Inv, RequestsCurrent
  <2>2. ASSUME q.pc = "summary" PROVE SummaryIsCurrent(q)'
    <3> DEFINE d == q.doc
    <3>1. SummaryIsCurrent(q) /\ d \in DOMAIN maker /\ d \in DOMAIN maker'
      BY <2>1, <2>2 DEF SummaryIsCurrent, ContentFollowsRevision
    <3>2. q.rev \in Int
      BY <2>2, RequestFields DEF Inv, TypeInv, TypeOK
    <3>3. ASSUME d \in DOMAIN docs'
          PROVE  /\ d \in DOMAIN docs
                 /\ \/ /\ docs'[d].rev = docs[d].rev
                       /\ docs'[d].text = docs[d].text
                    \/ docs'[d].rev > docs[d].rev
                 /\ docs[d].rev \in Int /\ docs'[d].rev \in Int
                 /\ q.rev <= docs[d].rev
      <4>1. d \in DOMAIN docs
        BY <3>1, <3>3 DEF ContentFollowsRevision
      <4>2. docs[d].rev \in Int /\ docs'[d].rev \in Int
        BY <3>3, <4>1, CorpusAssumption DEF Inv, TypeInv, TypeOK, Row
      <4> QED BY <3>1, <3>3, <4>1, <4>2 DEF ContentFollowsRevision, SummaryIsCurrent
    <3>4. d \in DOMAIN docs' => q.rev <= docs'[d].rev
      <4> HIDE DEF d
      <4> QED BY <3>2, <3>3
    <3>5. ASSUME d \in DOMAIN docs', docs'[d].rev = q.rev
          PROVE  q.text = Summarised(docs'[d].text, q.text.summary)
      <4>1. docs[d].rev = q.rev /\ docs'[d].text = docs[d].text /\ d \in DOMAIN docs
        <5> HIDE DEF d
        <5> QED BY <3>2, <3>3, <3>5
      <4> QED BY <3>1, <4>1 DEF SummaryIsCurrent, AtRevision
    <3> QED BY <1>1, <3>1, <3>4, <3>5 DEF SummaryIsCurrent, AtRevision
  <2>3. ASSUME q.pc = "accept" PROVE AcceptIsCurrent(q)'
    <3> DEFINE p == q.proposal
               d == proposals[p].doc
    <3>1. AcceptIsCurrent(q) /\ p \in DOMAIN proposals /\ p \in DOMAIN proposals'
      BY <2>1, <2>3 DEF AcceptIsCurrent, ProposalsFollow
    <3>2. ASSUME OnBase(p)'
          PROVE  q.body = Amended(docs'[proposals'[p].doc], proposals'[p].change)
      <4>1. /\ OnBase(p) /\ proposals'[p].doc = d /\ proposals'[p].change = proposals[p].change
            /\ docs'[d].text = docs[d].text /\ docs'[d].meta = docs[d].meta
        BY <1>1, <3>1, <3>2, BaseStays
      <4>2. q.body = Amended(docs[d], proposals[p].change)
        BY <3>1, <4>1 DEF AcceptIsCurrent
      <4>3. Amended(docs'[d], proposals[p].change) = Amended(docs[d], proposals[p].change)
        BY <4>1 DEF Amended
      <4> QED BY <4>1, <4>2, <4>3
    <3> QED BY <1>1, <3>1, <3>2 DEF AcceptIsCurrent
  <2>4. ASSUME q.pc = "stale" PROVE StaleIsCurrent(q)'
    <3> DEFINE p == q.proposal
    <3>1. p \in DOMAIN proposals /\ ~OnBase(p) /\ p \in DOMAIN proposals'
      BY <2>1, <2>4 DEF StaleIsCurrent, ProposalsFollow
    <3>2. ~OnBase(p)'
      BY <1>1, <3>1, BaseStays
    <3> QED BY <1>1, <3>1, <3>2 DEF StaleIsCurrent
  <2> QED BY <1>1, <2>2, <2>3, <2>4
<1>2. CASE req'[r].pc \in {"idle", "contribute", "restate", "conflict", "update"}
  BY <1>2
<1>3. CASE UNCHANGED corpus /\ req'[r].pc = "summary" /\ SummaryIsCurrent(req'[r])
  BY <1>3 DEF SummaryIsCurrent, AtRevision, corpus
<1>4. CASE UNCHANGED corpus /\ req'[r].pc = "accept" /\ AcceptIsCurrent(req'[r])
  BY <1>4 DEF AcceptIsCurrent, OnBase, AtRevision, corpus
<1>5. CASE UNCHANGED corpus /\ req'[r].pc = "stale" /\ StaleIsCurrent(req'[r])
  BY <1>5 DEF StaleIsCurrent, OnBase, AtRevision, corpus
<1> QED BY <1>1, <1>2, <1>3, <1>4, <1>5 DEF CopiesFollow

(* A writer that changes a note keeps its vector true if it embeds what it *)
(* writes, or writes the text that is there.                               *)
LEMMA RewriteEmbeds ==
    ASSUME TypeOK, EmbeddingMatchesText, NEW d \in DOMAIN docs, NEW text, NEW meta,
           Rewrite(d, text, meta),
           \/ Embed(d, text)
           \/ UNCHANGED vectors /\ text = docs[d].text
    PROVE  EmbeddingMatchesText'
<1>1. /\ DOMAIN docs' = DOMAIN docs /\ docs'[d].text = text
      /\ \A e \in DOMAIN docs : e # d => docs'[e] = docs[e]
  BY RewriteEffect
<1>2. /\ DOMAIN vectors' = DOMAIN vectors /\ vectors'[d] = text
      /\ \A e \in DOMAIN vectors : e # d => vectors'[e] = vectors[e]
  BY DEF Embed, With, EmbeddingMatchesText
<1> QED BY <1>1, <1>2 DEF EmbeddingMatchesText

(* A change of metadata leaves the text, which is why it embeds nothing.   *)
LEMMA MetadataKeepsText ==
    ASSUME NEW row, NEW change, change.kind = "metadata"
    PROVE  Amended(row, change).text = row.text
<1>1. Amended(row, change) = [text |-> row.text, meta |-> change.meta]
  BY DEF Amended
<1> QED BY <1>1

(* The stored vector describes the text, whatever a step does.             *)
LEMMA EmbeddingSteps == Inv /\ [Next]_vars => EmbeddingMatchesText'
<1> SUFFICES ASSUME Inv, [Next]_vars PROVE EmbeddingMatchesText'
  OBVIOUS
<1>0. /\ TypeOK /\ TypeInv /\ EmbeddingMatchesText /\ Readable \subseteq DOMAIN docs
      /\ \A d \in DOMAIN docs : docs[d] \in Row
  BY DEF Inv, TypeInv, TypeOK, Readable
<1>1. ASSUME UNCHANGED notes PROVE EmbeddingMatchesText'
  BY <1>0, <1>1 DEF notes, EmbeddingMatchesText
<1>2. ASSUME NEW c, NEW d, NEW status, Store(c, d, status) PROVE EmbeddingMatchesText'
  <2>1. /\ docs' = With(docs, d, NewDoc(c, status)) /\ vectors' = With(vectors, d, c.text)
        /\ NewDoc(c, status).text = c.text
    BY <1>2 DEF Store, NewDoc, RowFrom
  <2>2. /\ DOMAIN docs' = DOMAIN docs \cup {d} /\ DOMAIN vectors' = DOMAIN vectors \cup {d}
        /\ docs'[d] = NewDoc(c, status) /\ vectors'[d] = c.text
        /\ \A e \in DOMAIN docs : e # d => docs'[e] = docs[e]
        /\ \A e \in DOMAIN vectors : e # d => vectors'[e] = vectors[e]
    BY <2>1 DEF With
  <2> QED BY <1>0, <2>1, <2>2 DEF EmbeddingMatchesText
<1>3. ASSUME NEW d, Delete(d) PROVE EmbeddingMatchesText'
  BY <1>0, <1>3, DeleteType DEF EmbeddingMatchesText
<1>4. CASE UNCHANGED vars
  BY <1>1, <1>4 DEF vars, notes
<1>5. ASSUME NEW r \in Reqs, NEW c \in Contributions, Contribute(r, c)
      PROVE  EmbeddingMatchesText'
  BY <1>1, <1>5, ReplayFacts DEF Contribute, corpus, notes
<1>6. ASSUME NEW r \in Reqs, NEW d \in Ids, SettleContribution(r, d)
      PROVE  EmbeddingMatchesText'
  <2>1. \/ Replay(r, req[r].body)
        \/ Store(req[r].body, d, "active") \/ Store(req[r].body, d, "flagged")
    BY <1>6 DEF SettleContribution
  <2>2. Replay(r, req[r].body) => UNCHANGED notes
    BY ReplayFacts DEF notes
  <2> QED BY <1>1, <1>2, <2>1, <2>2
<1>7. ASSUME NEW r \in Reqs, NEW d \in Ids, NEW e \in Replacements, Update(r, d, e)
      PROVE  EmbeddingMatchesText'
  BY <1>1, <1>7 DEF Update, corpus, notes
<1>8. ASSUME NEW r \in Reqs, NEW d \in Ids, NEW s \in Additions, NEW a \in Authors,
             SetSummary(r, d, s, a)
      PROVE  EmbeddingMatchesText'
  BY <1>1, <1>8 DEF SetSummary, corpus, notes
<1>9. ASSUME NEW r \in Reqs, Restate(r) \/ RecordConflict(r) \/ SettleStale(r) \/ Lose(r)
      PROVE  EmbeddingMatchesText'
  BY <1>0, <1>1, <1>9, RestateFacts DEF RecordConflict, SettleStale, MarkStale, Lose, corpus, notes
<1>10. ASSUME NEW r \in Reqs, SettleUpdate(r) PROVE EmbeddingMatchesText'
  <2>1. CASE UNCHANGED corpus
    BY <1>1, <2>1 DEF corpus, notes
  <2>2. ASSUME NEW d \in DOMAIN docs, NEW e, Rewrite(d, e.text, e.meta), Embed(d, e.text)
        PROVE  EmbeddingMatchesText'
    BY <1>0, <2>2, RewriteEmbeds
  <2> QED BY <1>10, <2>1, <2>2 DEF SettleUpdate
<1>11. ASSUME NEW r \in Reqs, SettleSummary(r) PROVE EmbeddingMatchesText'
  <2> DEFINE d == req[r].doc
             text == req[r].text
  <2>1. CASE UNCHANGED corpus
    BY <1>1, <2>1 DEF corpus, notes
  <2>2. CASE /\ AtRevision(d, req[r].rev) /\ Embed(d, text)
             /\ Rewrite(d, Summarised(docs[d].text, text.summary), docs[d].meta)
    <3>1. text = Summarised(docs[d].text, text.summary) /\ d \in DOMAIN docs
      BY <1>11, <2>2 DEF SettleSummary, Inv, RequestsCurrent, SummaryIsCurrent, AtRevision
    <3>2. Rewrite(d, text, docs[d].meta)
      BY <2>2, <3>1
    <3> HIDE DEF d, text
    <3> QED BY <1>0, <2>2, <3>1, <3>2, RewriteEmbeds
  <2> QED BY <1>11, <2>1, <2>2 DEF SettleSummary, MaySummarise
<1>12. ASSUME NEW d \in Ids, NEW m \in NewMetas, UpdateMetadata(d, m)
       PROVE  EmbeddingMatchesText'
  BY <1>0, <1>12, RewriteEmbeds DEF UpdateMetadata
<1>13. ASSUME NEW p \in ProposalIds, NEW d \in Ids, NEW ch \in Changes, Propose(p, d, ch)
       PROVE  EmbeddingMatchesText'
  BY <1>1, <1>13 DEF Propose
<1>14. ASSUME NEW r \in Reqs, NEW p \in ProposalIds, Accept(r, p) PROVE EmbeddingMatchesText'
  BY <1>1, <1>14 DEF Accept, corpus, notes
<1>15. ASSUME NEW r \in Reqs, SettleAcceptance(r) PROVE EmbeddingMatchesText'
  <2> DEFINE p == req[r].proposal
             d == proposals[p].doc
             e == req[r].body
             embeds == proposals[p].change.kind # "metadata"
  <2>1. CASE UNCHANGED corpus
    BY <1>1, <2>1 DEF corpus, notes
  <2>2. CASE MarkStale(p)
    BY <1>1, <2>2 DEF MarkStale
  <2>3. CASE /\ OnBase(p) /\ Rewrite(d, e.text, e.meta)
             /\ IF embeds THEN Embed(d, e.text) ELSE UNCHANGED vectors
    <3>1. d \in DOMAIN docs
      BY SMTT(20), <2>3 DEF OnBase, AtRevision
    <3>2. e = Amended(docs[d], proposals[p].change)
      BY <1>15, <2>3 DEF SettleAcceptance, Inv, RequestsCurrent, AcceptIsCurrent
    <3>3. ~embeds => e.text = docs[d].text
      BY <3>2, MetadataKeepsText
    <3> HIDE DEF d, e, embeds
    <3> QED BY <1>0, <2>3, <3>1, <3>3, RewriteEmbeds
  <2> QED BY <1>15, <2>1, <2>2, <2>3 DEF SettleAcceptance
<1>16. ASSUME NEW p \in ProposalIds, Reject(p) PROVE EmbeddingMatchesText'
  BY <1>1, <1>16 DEF Reject
<1>17. ASSUME NEW d \in Ids, Retire(d) \/ Discard(d) PROVE EmbeddingMatchesText'
  BY <1>3, <1>17 DEF Retire, Discard
<1>18. ASSUME DOMAIN docs' = DOMAIN docs, UNCHANGED vectors,
              \A e \in DOMAIN docs : docs'[e].text = docs[e].text
       PROVE  EmbeddingMatchesText'
  BY <1>0, <1>18 DEF EmbeddingMatchesText
<1>19. ASSUME NEW x \in Ids, Publish(x) PROVE EmbeddingMatchesText'
  <2>1. /\ DOMAIN docs' = DOMAIN docs /\ UNCHANGED vectors
        /\ \A e \in DOMAIN docs :
              docs'[e] = docs[e] \/ docs'[e] = [docs[e] EXCEPT !.status = "active"]
    BY <1>0, <1>19 DEF Publish, TypeOK
  <2>2. \A e \in DOMAIN docs : docs'[e].text = docs[e].text
    BY <1>0, <2>1 DEF Row
  <2> QED BY <1>18, <2>1, <2>2
<1>20. ASSUME NEW d \in Ids, NEW pr \in Promotions, Promote(d, pr)
       PROVE  EmbeddingMatchesText'
  <2>1. /\ DOMAIN docs' = DOMAIN docs /\ UNCHANGED vectors
        /\ \A e \in DOMAIN docs :
              \/ docs'[e] = docs[e]
              \/ \E path : docs'[e] = [docs[e] EXCEPT !.promo = pr, !.path = path]
    BY <1>0, <1>20 DEF Promote, TypeOK
  <2>2. \A e \in DOMAIN docs : docs'[e].text = docs[e].text
    BY <1>0, <2>1 DEF Row
  <2> QED BY <1>18, <2>1, <2>2
<1> QED
  BY <1>4, <1>5, <1>6, <1>7, <1>8, <1>9, <1>10, <1>11, <1>12, <1>13, <1>14, <1>15, <1>16,
     <1>17, <1>19, <1>20
     DEF Next

(* Inv holds at first, and every step keeps it.                            *)
LEMMA InitInv == Init => Inv
<1> SUFFICES ASSUME Init PROVE Inv
  OBVIOUS
<1>1. TypeInv
  BY InitTypeInv
<1>2. PICK id \in [Legacy -> Ids] : Init!(id)
  BY DEF Init
<1>3. EmbeddingMatchesText
  BY <1>2 DEF EmbeddingMatchesText
<1>4. proposals = << >> /\ req = [r \in Reqs |-> Idle]
  BY <1>2
<1> QED BY <1>1, <1>3, <1>4 DEF Inv, ProposalsOnBase, RequestsCurrent, Idle

LEMMA NextInv == Inv /\ [Next]_vars => Inv'
<1> SUFFICES ASSUME Inv, [Next]_vars PROVE Inv'
  OBVIOUS
<1>1. TypeInv' /\ ContentFollowsRevision
  BY NextTypeInv, RevisionsGrow DEF Inv
<1>2. ProposalsFollow /\ CopiesFollow /\ EmbeddingMatchesText'
  BY ProposalSteps, CopySteps, EmbeddingSteps
<1>3. ProposalsOnBase' /\ RequestsCurrent'
  BY <1>1, <1>2, ProposalsStay, CopiesStay
<1> QED BY <1>1, <1>2, <1>3 DEF Inv

LEMMA Invariance == Spec => []Inv
BY InitInv, NextInv, PTL DEF Spec

(* EmbeddingMatchesText, which CorpusWrites checks: no interleaving of     *)
(* handlers leaves a vector computed from a text the note does not have.   *)
THEOREM EmbeddingsMatch == Spec => []EmbeddingMatchesText
<1>1. Inv => EmbeddingMatchesText
  BY DEF Inv
<1> QED BY <1>1, Invariance, PTL

(* StaleIsTrue, which CorpusWrites checks: a proposal is never refused     *)
(* as stale while the note is at the revision it was written for.          *)
THEOREM StaleProposalsAreStale == Spec => []StaleIsTrue
<1>1. Inv => StaleIsTrue
  BY DEF Inv, ProposalsOnBase, StaleIsTrue
<1> QED BY <1>1, Invariance, PTL

(* AcceptedOnItsBase, which CorpusWrites checks: what an acceptance        *)
(* changes is the content the proposal's author saw.                       *)
THEOREM AcceptanceKeepsItsBase == Spec => AcceptedOnItsBase
<1>1. ASSUME Inv, [Next]_vars
      PROVE  [\A p \in DOMAIN proposals :
                 proposals[p].state = "pending" /\ proposals'[p].state = "accepted"
                   => LET d == proposals[p].doc
                      IN <<docs[d].text, docs[d].meta>> = proposals[p].seen]_vars
  <2>1. ProposalsFollow
    BY <1>1, ProposalSteps
  <2>2. ASSUME NEW p \in DOMAIN proposals,
               proposals[p].state = "pending", proposals'[p].state = "accepted"
        PROVE  <<docs[proposals[p].doc].text, docs[proposals[p].doc].meta>> = proposals[p].seen
    <3>1. OnBase(p)
      BY <2>1, <2>2 DEF ProposalsFollow, Written, Decided
    <3> QED BY <1>1, <3>1 DEF Inv, ProposalsOnBase, OnBase, AtRevision
  <2> QED BY <2>2
<1> QED BY <1>1, Invariance, PTL DEF Spec, AcceptedOnItsBase

(* OneAcceptedPerRevision, which CorpusWrites checks: of the proposals     *)
(* written for one revision of a note, at most one is ever applied.        *)
THEOREM RevisionsAcceptOnce == Spec => []OneAcceptedPerRevision
<1>1. Init => OneAcceptedPerRevision
  <2> SUFFICES ASSUME Init PROVE OneAcceptedPerRevision
    OBVIOUS
  <2>1. PICK id \in [Legacy -> Ids] : Init!(id)
    BY DEF Init
  <2>2. proposals = << >>
    BY <2>1
  <2> QED BY <2>2 DEF OneAcceptedPerRevision
<1>2. ASSUME Inv, [Next]_vars, OneAcceptedPerRevision PROVE OneAcceptedPerRevision'
  <2>0. ProposalsFollow
    BY <1>2, ProposalSteps
  <2> DEFINE Base(p) == <<proposals[p].doc, proposals[p].rev>>
             Old(p) == p \in DOMAIN proposals /\ proposals[p].state = "accepted"
             New(p) == p \in DOMAIN proposals /\ OnBase(p)
  <2>1. ASSUME NEW p \in DOMAIN proposals', proposals'[p].state = "accepted"
        PROVE  /\ Old(p) \/ New(p)
               /\ <<proposals'[p].doc, proposals'[p].rev>> = Base(p)
    BY <2>0, <2>1 DEF ProposalsFollow, Written, Decided
  <2>2. ASSUME NEW p, NEW q, New(p), Old(q) PROVE Base(p) # Base(q)
    BY <1>2, <2>2 DEF Inv, ProposalsOnBase, OnBase, AtRevision
  <2>3. ASSUME NEW p \in DOMAIN proposals, NEW q \in DOMAIN proposals, ~Old(p), ~Old(q),
               proposals'[p].state = "accepted", proposals'[q].state = "accepted"
        PROVE  p = q
    BY <2>0, <2>3 DEF ProposalsFollow
  <2> SUFFICES ASSUME NEW p \in DOMAIN proposals', NEW q \in DOMAIN proposals', p # q,
                      proposals'[p].state = "accepted", proposals'[q].state = "accepted"
               PROVE  <<proposals'[p].doc, proposals'[p].rev>>
                        # <<proposals'[q].doc, proposals'[q].rev>>
    BY DEF OneAcceptedPerRevision
  <2>4. Base(p) # Base(q)
    <3>1. CASE Old(p) /\ Old(q)
      BY <1>2, <3>1 DEF OneAcceptedPerRevision
    <3>2. CASE New(p) /\ Old(q)
      BY <2>2, <3>2
    <3>3. CASE Old(p) /\ New(q)
      BY <2>2, <3>3
    <3>4. CASE ~Old(p) /\ ~Old(q)
      BY <2>1, <2>3, <3>4
    <3> QED BY <2>1, <3>1, <3>2, <3>3, <3>4
  <2>5. /\ <<proposals'[p].doc, proposals'[p].rev>> = Base(p)
        /\ <<proposals'[q].doc, proposals'[q].rev>> = Base(q)
    BY <2>1
  <2> HIDE DEF Base
  <2> QED BY <2>4, <2>5
<1> QED BY <1>1, <1>2, Invariance, PTL DEF Spec

-----------------------------------------------------------------------------
(* 4. Names.                                                               *)

(* A name found for a note is in its folder and no other note has it.      *)
LEMMA ResolvedPathIsFree ==
    ASSUME IsFiniteSet(DOMAIN docs), NEW dir, NEW title, NEW d
    PROVE  LET path == ResolvePath(dir, title, PathsUnder(dir, d))
           IN path.dir = dir /\ \A e \in DOMAIN docs \ {d} : docs[e].path # path
<1> DEFINE path == ResolvePath(dir, title, PathsUnder(dir, d))
<1>1. IsFiniteSet(PathsUnder(dir, d))
  BY PathsUnderFinite
<1>2. PICK n \in Nat \ {0} : path = Path(dir, title, n) /\ Path(dir, title, n) \notin PathsUnder(dir, d)
  BY <1>1, ResolvedPath
<1>3. path.dir = dir /\ path \notin PathsUnder(dir, d)
  BY <1>2 DEF Path
<1> HIDE DEF path
<1>4. \A e \in DOMAIN docs \ {d} : docs[e].path # path
  BY <1>3 DEF PathsUnder
<1> QED BY <1>3, <1>4 DEF path

(* A step that leaves names and promotions of the notes it keeps.          *)
LEMMA SameNames ==
    ASSUME PathsAreNames, DOMAIN docs' \subseteq DOMAIN docs,
           \A d \in DOMAIN docs' : docs'[d].path = docs[d].path /\ docs'[d].promo = docs[d].promo
    PROVE  PathsAreNames'
BY DEF PathsAreNames, Folder

(* Naming or renaming one note, from the names the others have.            *)
LEMMA NewName ==
    ASSUME PathsAreNames, IsFiniteSet(DOMAIN docs), NEW d, NEW promo, NEW title,
           DOMAIN docs' = DOMAIN docs \cup {d},
           \A e \in DOMAIN docs \ {d} : docs'[e] = docs[e],
           docs'[d].promo = promo,
           docs'[d].path = ResolvePath(Folder(promo), title, PathsUnder(Folder(promo), d))
    PROVE  PathsAreNames'
<1> DEFINE path == ResolvePath(Folder(promo), title, PathsUnder(Folder(promo), d))
<1>1. path.dir = Folder(promo) /\ \A e \in DOMAIN docs \ {d} : docs[e].path # path
  BY ResolvedPathIsFree
<1> HIDE DEF path
<1>2. docs'[d].path = path
  BY DEF path
<1> QED BY <1>1, <1>2 DEF PathsAreNames, Folder

LEMMA InitNames == Init => PathsAreNames
<1> SUFFICES ASSUME Init PROVE PathsAreNames
  OBVIOUS
<1>1. PICK id \in [Legacy -> Ids] : Init!(id)
  BY DEF Init
<1> DEFINE Of(d) == CHOOSE c \in Legacy : id[c] = d
           olds == {id[c] : c \in Legacy}
<1>2. /\ DOMAIN docs = olds
      /\ \A d \in olds : docs[d].path = Path(NotesDir, Of(d).text.title, 1)
                         /\ docs[d].promo = "none"
  BY <1>1
<1>3. \A d \in olds : Of(d) \in Legacy /\ id[Of(d)] = d
  OBVIOUS
<1> HIDE DEF Of, olds
<1>0. \A t : Path(NotesDir, t, 1).slug = t /\ Path(NotesDir, t, 1).dir = NotesDir
  BY DEF Path
<1>4. ASSUME NEW d \in olds, NEW e \in olds, docs[d].path = docs[e].path
      PROVE  d = e
  <2>1. Of(d).text.title = Of(e).text.title
    <3>1. docs[d].path.slug = Of(d).text.title /\ docs[e].path.slug = Of(e).text.title
      BY <1>2, <1>0
    <3> QED BY <1>4, <3>1
  <2>2. Of(d) = Of(e)
    BY <1>3, <2>1, CorpusAssumption
  <2> QED BY <1>3, <2>2
<1>5. \A d \in olds : docs[d].path.dir = Folder(docs[d].promo)
  BY <1>2, <1>0 DEF Folder
<1> QED BY <1>2, <1>4, <1>5 DEF PathsAreNames

LEMMA NextNames == TypeInv /\ PathsAreNames /\ [Next]_vars => PathsAreNames'
<1> SUFFICES ASSUME TypeInv, PathsAreNames, [Next]_vars PROVE PathsAreNames'
  OBVIOUS
<1>0. /\ TypeOK /\ IsFiniteSet(DOMAIN docs) /\ Readable \subseteq DOMAIN docs
      /\ \A d \in DOMAIN docs : docs[d] \in Row /\ d \in Ids
  BY DEF TypeInv, TypeOK, Readable
<1>1. ASSUME UNCHANGED docs PROVE PathsAreNames'
  BY <1>0, <1>1, SameNames
<1>2. ASSUME NEW c, NEW d, NEW status, d \notin DOMAIN maker, Store(c, d, status)
      PROVE  PathsAreNames'
  <2> DEFINE path == ResolvePath(NotesDir, c.text.title, PathsUnder(NotesDir, NoDoc))
  <2>1. /\ d \notin DOMAIN docs /\ docs' = With(docs, d, NewDoc(c, status))
    BY <1>0, <1>2 DEF Store, TypeOK
  <2>2. /\ DOMAIN docs' = DOMAIN docs \cup {d} /\ docs'[d] = NewDoc(c, status)
        /\ \A e \in DOMAIN docs \ {d} : docs'[e] = docs[e]
    BY <2>1 DEF With
  <2>3. PathsUnder(NotesDir, NoDoc) = PathsUnder(NotesDir, d)
    BY <1>0, <2>1, CorpusAssumption DEF PathsUnder
  <2>4. NewDoc(c, status).promo = "none" /\ NewDoc(c, status).path = path
    BY DEF NewDoc, RowFrom
  <2>5. Folder("none") = NotesDir
    BY DEF Folder
  <2> QED BY <1>0, <2>2, <2>3, <2>4, <2>5, NewName
<1>3. ASSUME NEW d, Delete(d) PROVE PathsAreNames'
  BY <1>0, <1>3, DeleteType, SameNames
<1>4. ASSUME NEW d \in DOMAIN docs, NEW text, NEW meta, Rewrite(d, text, meta)
      PROVE  PathsAreNames'
  <2>1. docs' = [docs EXCEPT ![d] = Replaced(docs[d], text, meta)]
    BY <1>4 DEF Rewrite
  <2>2. /\ Replaced(docs[d], text, meta).path = docs[d].path
        /\ Replaced(docs[d], text, meta).promo = docs[d].promo
    BY <1>0 DEF Replaced, Row
  <2>3. /\ DOMAIN docs' = DOMAIN docs
        /\ \A e \in DOMAIN docs :
              docs'[e].path = docs[e].path /\ docs'[e].promo = docs[e].promo
    BY <1>0, <2>1, <2>2 DEF TypeOK
  <2> QED BY <2>3, SameNames
<1>5. CASE UNCHANGED vars
  BY <1>1, <1>5 DEF vars
<1>6. ASSUME NEW r \in Reqs, NEW c \in Contributions, Contribute(r, c) PROVE PathsAreNames'
  BY <1>1, <1>6, ReplayFacts DEF Contribute, corpus
<1>7. ASSUME NEW r \in Reqs, NEW d \in Ids, SettleContribution(r, d) PROVE PathsAreNames'
  <2>1. \/ Replay(r, req[r].body)
        \/ /\ d \notin DOMAIN maker
           /\ Store(req[r].body, d, "active") \/ Store(req[r].body, d, "flagged")
    BY <1>7 DEF SettleContribution
  <2>2. Replay(r, req[r].body) => UNCHANGED docs
    BY ReplayFacts
  <2> QED BY <1>1, <1>2, <2>1, <2>2
<1>8. ASSUME NEW r \in Reqs,
             \/ \E d \in Ids, e \in Replacements : Update(r, d, e)
             \/ \E d \in Ids, s \in Additions, a \in Authors : SetSummary(r, d, s, a)
             \/ \E p \in ProposalIds : Accept(r, p)
             \/ Restate(r) \/ RecordConflict(r) \/ SettleStale(r) \/ Lose(r)
      PROVE  PathsAreNames'
  BY <1>0, <1>1, <1>8, RestateFacts DEF Update, SetSummary, Accept, RecordConflict, SettleStale, MarkStale,
                    Lose, corpus, notes
<1>9. ASSUME NEW r \in Reqs, SettleUpdate(r) PROVE PathsAreNames'
  <2>1. \/ UNCHANGED corpus
        \/ /\ req[r].doc \in DOMAIN docs
           /\ Rewrite(req[r].doc, req[r].body.text, req[r].body.meta)
    BY <1>9 DEF SettleUpdate
  <2> QED BY <1>1, <1>4, <2>1 DEF corpus
<1>10. ASSUME NEW r \in Reqs, SettleSummary(r) PROVE PathsAreNames'
  <2>1. \/ UNCHANGED corpus
        \/ /\ req[r].doc \in DOMAIN docs
           /\ \E text, meta : Rewrite(req[r].doc, text, meta)
    BY <1>10 DEF SettleSummary, MaySummarise, AtRevision
  <2> QED BY <1>1, <1>4, <2>1 DEF corpus
<1>11. ASSUME NEW r \in Reqs, SettleAcceptance(r) PROVE PathsAreNames'
  <2> DEFINE d == proposals[req[r].proposal].doc
  <2>1. \/ UNCHANGED docs
        \/ d \in DOMAIN docs /\ Rewrite(d, req[r].body.text, req[r].body.meta)
    BY <1>11 DEF SettleAcceptance, MarkStale, OnBase, AtRevision, corpus, notes
  <2> HIDE DEF d
  <2> QED BY SMTT(20), <1>1, <1>4, <2>1
<1>12. ASSUME NEW d \in Ids, NEW m \in NewMetas, UpdateMetadata(d, m) PROVE PathsAreNames'
  BY <1>0, <1>4, <1>12 DEF UpdateMetadata
<1>13. ASSUME NEW p \in ProposalIds,
              Reject(p) \/ \E d \in Ids, ch \in Changes : Propose(p, d, ch)
       PROVE  PathsAreNames'
  BY <1>1, <1>13 DEF Reject, Propose, notes
<1>14. ASSUME NEW d \in Ids, Retire(d) \/ Discard(d) PROVE PathsAreNames'
  BY <1>3, <1>14 DEF Retire, Discard
<1>15. ASSUME NEW x \in Ids, Publish(x) PROVE PathsAreNames'
  <2>1. /\ DOMAIN docs' = DOMAIN docs
        /\ \A e \in DOMAIN docs :
              docs'[e] = docs[e] \/ docs'[e] = [docs[e] EXCEPT !.status = "active"]
    BY <1>0, <1>15 DEF Publish, TypeOK
  <2>2. \A e \in DOMAIN docs : docs'[e].path = docs[e].path /\ docs'[e].promo = docs[e].promo
    BY <1>0, <2>1 DEF Row
  <2> QED BY <2>1, <2>2, SameNames
<1>16. ASSUME NEW d \in Ids, NEW pr \in Promotions, Promote(d, pr) PROVE PathsAreNames'
  <2> DEFINE path == ResolvePath(Folder(pr), docs[d].text.title, PathsUnder(Folder(pr), d))
             row == [docs[d] EXCEPT !.promo = pr, !.path = path]
  <2>1. d \in DOMAIN docs /\ docs' = [docs EXCEPT ![d] = row]
    BY <1>0, <1>16 DEF Promote
  <2>2. row.promo = pr /\ row.path = path
    BY <1>0, <2>1 DEF Row
  <2>3. /\ DOMAIN docs' = DOMAIN docs \cup {d} /\ docs'[d] = row
        /\ \A e \in DOMAIN docs \ {d} : docs'[e] = docs[e]
    <3> HIDE DEF row
    <3> QED BY <1>0, <2>1 DEF TypeOK
  <2>4. docs'[d].promo = pr /\ docs'[d].path = path
    <3> HIDE DEF row, path
    <3> QED BY <2>2, <2>3
  <2>5. /\ DOMAIN docs' = DOMAIN docs \cup {d}
        /\ \A e \in DOMAIN docs \ {d} : docs'[e] = docs[e]
    <3> HIDE DEF row, path
    <3> QED BY <2>3
  <2> HIDE DEF row
  <2> QED BY <1>0, <2>4, <2>5, NewName
<1> QED
  BY <1>5, <1>6, <1>7, <1>8, <1>9, <1>10, <1>11, <1>12, <1>13, <1>14, <1>15, <1>16 DEF Next

(* PathsAreNames, which CorpusWrites checks: notes of one title, in one    *)
(* folder or moved between the two, never get one vault_path.              *)
THEOREM NamesAreUnique == Spec => []PathsAreNames
<1>1. Spec => []TypeInv
  BY InitTypeInv, NextTypeInv, PTL DEF Spec
<1> QED BY <1>1, InitNames, NextNames, PTL DEF Spec

-----------------------------------------------------------------------------
(* 5. What a step does to the corpus.                                      *)
(*                                                                         *)
(* Handlers spread one write over two transactions.  With what section 3   *)
(* says of their copies, each step is either nothing to the corpus or one  *)
(* of a few writes, decided by the corpus as it is.  The theorems of the   *)
(* next sections follow from these effects alone.                          *)

(* Whatever a handler or a proposal was begun on was published, and is     *)
(* for as long as it is there.                                             *)
Published(d) ==
    d \in DOMAIN maker /\ (d \in DOMAIN docs => docs[d].status = "active")
NamesPublished ==
    /\ \A r \in Reqs :
          /\ req[r].pc \in {"update", "summary"} => Published(req[r].doc)
          /\ req[r].pc = "summary" => req[r].text.summary \in Summaries
    /\ \A p \in DOMAIN proposals : Published(proposals[p].doc)

(* The events that say a note is gone.                                     *)
Gone(d) ==
    <<"retire", "retired", d>> \in audit \/ <<"review", "candidate_deleted", d>> \in audit
NothingGone == \A d \in Ids : Gone(d)' <=> Gone(d)
SameLedger ==
    DOMAIN writes' = DOMAIN writes /\ \A k \in DOMAIN writes : writes'[k].doc = writes[k].doc

Quiet ==
    UNCHANGED <<docs, vectors, cases, proposals, maker, judged>> /\ SameLedger /\ NothingGone
Contributes(c, d) ==
    /\ c \in Contributions /\ d \in Ids /\ d \notin DOMAIN maker
    /\ Key(c) \notin DOMAIN writes /\ NothingGone
    /\ \/ Matches(c.text, NoDoc) = {} /\ Store(c, d, "active") /\ UNCHANGED cases
       \/ Matches(c.text, NoDoc) # {} /\ Store(c, d, "flagged") /\ OpenCase(c, d)
Edited(d, text, meta) ==
    /\ d \in Readable /\ Rewrite(d, text, meta)
    /\ text # docs[d].text => Matches(text, d) = {}
    /\ UNCHANGED <<cases, writes, maker>> /\ NothingGone
Replaces(d, e) ==
    e \in Replacements /\ Edited(d, e.text, e.meta) /\ Matches(e.text, d) = {}
      /\ UNCHANGED proposals
Summarises(d, s) ==
    LET text == Summarised(docs[d].text, s)
    IN /\ s \in Summaries /\ docs[d].text.summary = NoSummary
       /\ Edited(d, text, docs[d].meta) /\ Matches(text, d) = {} /\ UNCHANGED proposals
Reclassifies(d, m) ==
    m \in NewMetas /\ Edited(d, docs[d].text, m) /\ UNCHANGED proposals
Accepts(p) ==
    LET d == proposals[p].doc
        e == Amended(docs[d], proposals[p].change)
    IN /\ p \in DOMAIN proposals /\ Pending(p) /\ OnBase(p)
       /\ Edited(d, e.text, e.meta)
       /\ Decide(p, "accepted", docs'[d].rev)
Closes(p, state) ==
    /\ p \in DOMAIN proposals /\ Pending(p) /\ state \in {"stale", "rejected"}
    /\ Decide(p, state, 0) /\ NothingGone
    /\ UNCHANGED <<notes, cases, writes, maker, judged>>

Effect ==
    \/ Quiet
    \/ \E c, d : Contributes(c, d)
    \/ \E d, e : Replaces(d, e)
    \/ \E d, s : Summarises(d, s)
    \/ \E d, m : Reclassifies(d, m)
    \/ \E p : Accepts(p)
    \/ \E p, s : Closes(p, s)
    \/ \E p \in ProposalIds, d \in Ids, ch \in Changes : Propose(p, d, ch) /\ NothingGone
    \/ \E d \in Ids : Retire(d)
    \/ \E x \in Ids : Publish(x) /\ NothingGone
    \/ \E x \in Ids : Discard(x)
    \/ \E d \in Ids, pr \in Promotions : Promote(d, pr) /\ NothingGone

(* An event about anything else says of no note that it is gone.           *)
LEMMA OtherEvents ==
    ASSUME NEW op, NEW outcome, NEW target, Record(op, outcome, target),
           op # "retire", op # "review" \/ outcome # "candidate_deleted"
    PROVE  NothingGone
BY DEF NothingGone, Gone, Record

(* Every step is one of these.                                             *)
LEMMA Effects == Inv /\ NamesPublished /\ [Next]_vars => Effect
<1> SUFFICES ASSUME Inv, NamesPublished, [Next]_vars PROVE Effect
  OBVIOUS
<1>0. /\ TypeOK /\ TypeInv /\ Readable \subseteq DOMAIN docs
      /\ \A d \in DOMAIN docs : docs[d] \in Row
  BY DEF Inv, TypeInv, TypeOK, Readable
<1>1. ASSUME UNCHANGED corpus PROVE Effect
  BY <1>1 DEF corpus, Effect, Quiet, SameLedger, NothingGone, Gone
<1>2. ASSUME NEW r \in Reqs, NEW c \in Contributions, Replay(r, c) PROVE Effect
  <2>1. UNCHANGED <<docs, vectors, cases, proposals, writes, maker, judged>>
    BY <1>2, ReplayFacts
  <2>2. NothingGone
    <3>1. UNCHANGED audit \/ Record("contribute", "replayed", c)
      BY <1>2, ReplayFacts
    <3> QED BY <3>1, OtherEvents DEF NothingGone, Gone
  <2> QED BY <2>1, <2>2 DEF Effect, Quiet, SameLedger
<1>3. CASE UNCHANGED vars
  BY <1>1, <1>3 DEF vars, corpus
<1>4. ASSUME NEW r \in Reqs, NEW c \in Contributions, Contribute(r, c) PROVE Effect
  BY <1>1, <1>2, <1>4 DEF Contribute
<1>5. ASSUME NEW r \in Reqs, NEW d \in Ids, SettleContribution(r, d) PROVE Effect
  <2> DEFINE c == req[r].body
  <2>1. c \in Contributions
    BY <1>0, <1>5, RequestFields DEF SettleContribution, TypeOK
  <2>2. CASE ~Unsettled(Key(c)) /\ Replay(r, c)
    BY <1>2, <2>1, <2>2
  <2>3. CASE /\ Unsettled(Key(c)) /\ d \notin DOMAIN maker
             /\ \/ /\ Matches(c.text, NoDoc) = {}
                   /\ Store(c, d, "active")
                   /\ UNCHANGED cases
                \/ /\ Matches(c.text, NoDoc) # {}
                   /\ Store(c, d, "flagged")
                   /\ OpenCase(c, d)
    <3> HIDE DEF c
    <3>1. NothingGone
      BY <2>3, OtherEvents DEF Store
    <3>2. Contributes(c, d)
      BY <2>1, <2>3, <3>1 DEF Contributes, Unsettled
    <3> QED BY <3>2 DEF Effect
  <2> QED BY <1>5, <2>2, <2>3 DEF SettleContribution
<1>6. ASSUME NEW r \in Reqs, NEW d \in Ids, NEW e \in Replacements, Update(r, d, e)
      PROVE  Effect
  BY <1>1, <1>6 DEF Update
<1>7. ASSUME NEW r \in Reqs, NEW d \in Ids, NEW s \in Additions, NEW a \in Authors,
             SetSummary(r, d, s, a)
      PROVE  Effect
  BY <1>1, <1>7 DEF SetSummary
<1>8. ASSUME NEW r \in Reqs, RecordConflict(r) PROVE Effect
  <2>1. NothingGone
    BY <1>8, OtherEvents DEF RecordConflict
  <2> QED BY <1>8, <2>1 DEF RecordConflict, notes, Effect, Quiet, SameLedger
<1>9. ASSUME NEW r \in Reqs, SettleUpdate(r) PROVE Effect
  <2> DEFINE d == req[r].doc
             e == req[r].body
  <2>1. CASE UNCHANGED corpus
    BY <1>1, <2>1
  <2>2. CASE /\ Matches(e.text, d) = {} /\ d \in DOMAIN docs
             /\ Rewrite(d, e.text, e.meta) /\ Record("update", "updated", d)
             /\ UNCHANGED <<cases, proposals, writes, maker>>
    <3>1. e \in Replacements
      BY <1>0, <1>9, RequestFields DEF SettleUpdate, TypeOK
    <3>2. d \in Readable
      BY <1>9, <2>2 DEF SettleUpdate, NamesPublished, Published, Readable
    <3> HIDE DEF d, e
    <3>3. NothingGone
      BY <2>2, OtherEvents
    <3>4. Replaces(d, e)
      BY <2>2, <3>1, <3>2, <3>3 DEF Replaces, Edited
    <3> QED BY <3>4 DEF Effect
  <2> QED BY <1>9, <2>1, <2>2 DEF SettleUpdate
<1>10. ASSUME NEW r \in Reqs, SettleSummary(r) PROVE Effect
  <2> DEFINE d == req[r].doc
             text == req[r].text
             s == text.summary
  <2>1. CASE UNCHANGED corpus
    BY <1>1, <2>1
  <2>2. CASE /\ Matches(text, d) = {} /\ MaySummarise(d, req[r].rev, req[r].who)
             /\ Rewrite(d, Summarised(docs[d].text, s), docs[d].meta)
             /\ Record("set_summary", "summary_set", d)
             /\ UNCHANGED <<cases, proposals, writes, maker>>
    <3>1. text = Summarised(docs[d].text, s)
      BY <1>10, <2>2 DEF SettleSummary, Inv, RequestsCurrent, SummaryIsCurrent, MaySummarise
    <3>2. d \in Readable
      BY <1>10, <2>2 DEF SettleSummary, NamesPublished, Published, Readable, MaySummarise,
                         AtRevision
    <3>3. s \in Summaries
      BY <1>10 DEF SettleSummary, NamesPublished
    <3> HIDE DEF d, text, s
    <3>4. NothingGone
      BY <2>2, OtherEvents
    <3>5. Summarises(d, s)
      BY <2>2, <3>1, <3>2, <3>3, <3>4 DEF Summarises, Edited, MaySummarise
    <3> QED BY <3>5 DEF Effect
  <2> QED BY <1>10, <2>1, <2>2 DEF SettleSummary
<1>11. ASSUME NEW d \in Ids, NEW m \in NewMetas, UpdateMetadata(d, m) PROVE Effect
  <2>1. NothingGone
    BY <1>11, OtherEvents DEF UpdateMetadata
  <2>2. Reclassifies(d, m)
    BY <1>11, <2>1 DEF UpdateMetadata, Reclassifies, Edited
  <2> QED BY <2>2 DEF Effect
<1>12. ASSUME NEW p \in ProposalIds, NEW d \in Ids, NEW ch \in Changes, Propose(p, d, ch)
       PROVE  Effect
  <2>1. NothingGone
    BY <1>12, OtherEvents DEF Propose
  <2> QED BY <1>12, <2>1 DEF Effect
<1>13. ASSUME NEW r \in Reqs, NEW p \in ProposalIds, Accept(r, p) PROVE Effect
  BY <1>1, <1>13 DEF Accept
<1>14. ASSUME NEW p, p \in DOMAIN proposals, Pending(p), MarkStale(p) PROVE Effect
  <2>1. NothingGone
    BY <1>14, OtherEvents DEF MarkStale
  <2>2. Closes(p, "stale")
    BY <1>14, <2>1 DEF Closes, MarkStale
  <2> QED BY <2>2 DEF Effect
<1>15. ASSUME NEW r \in Reqs, SettleStale(r) PROVE Effect
  <2>1. req[r].proposal \in DOMAIN proposals
    BY <1>15 DEF SettleStale, Inv, RequestsCurrent, StaleIsCurrent
  <2>2. \/ UNCHANGED corpus
        \/ Pending(req[r].proposal) /\ MarkStale(req[r].proposal)
    BY <1>15 DEF SettleStale
  <2> QED BY <1>1, <1>14, <2>1, <2>2
<1>16. ASSUME NEW r \in Reqs, SettleAcceptance(r) PROVE Effect
  <2> DEFINE p == req[r].proposal
             d == proposals[p].doc
             e == req[r].body
             embeds == proposals[p].change.kind # "metadata"
  <2>1. AcceptIsCurrent(req[r])
    BY <1>16 DEF SettleAcceptance, Inv, RequestsCurrent
  <2>2. CASE UNCHANGED corpus
    BY <1>1, <2>2
  <2>3. CASE Pending(p) /\ MarkStale(p)
    BY <1>14, <2>1, <2>3 DEF AcceptIsCurrent
  <2>4. CASE /\ Pending(p) /\ OnBase(p) /\ ~(embeds /\ Matches(e.text, d) # {})
             /\ Rewrite(d, e.text, e.meta)
             /\ Decide(p, "accepted", docs'[d].rev)
             /\ Record("amendment.decide", "accepted", p)
             /\ UNCHANGED <<cases, writes, maker>>
    <3>1. p \in DOMAIN proposals /\ e = Amended(docs[d], proposals[p].change)
      BY <2>1, <2>4 DEF AcceptIsCurrent
    <3>2. d \in Readable
      BY <2>4, <3>1 DEF OnBase, AtRevision, NamesPublished, Published, Readable
    <3>3. ~embeds => e.text = docs[d].text
      BY <3>1, MetadataKeepsText
    <3> HIDE DEF d, e, embeds, p
    <3>4. NothingGone
      BY <2>4, OtherEvents
    <3>5. Edited(d, e.text, e.meta)
      BY <2>4, <3>2, <3>3, <3>4 DEF Edited
    <3>6. Accepts(p)
      BY <2>4, <3>1, <3>5 DEF Accepts, d
    <3> QED BY <3>6 DEF Effect
  <2> QED BY <1>16, <2>2, <2>3, <2>4 DEF SettleAcceptance
<1>17. ASSUME NEW p \in ProposalIds, Reject(p) PROVE Effect
  <2>1. NothingGone
    BY <1>17, OtherEvents DEF Reject
  <2>2. Closes(p, "rejected")
    BY <1>17, <2>1 DEF Closes, Reject
  <2> QED BY <2>2 DEF Effect
<1>18. ASSUME NEW x \in Ids, Publish(x) PROVE Effect
  <2>1. NothingGone
    BY <1>18, OtherEvents DEF Publish
  <2> QED BY <1>18, <2>1 DEF Effect
<1>19. ASSUME NEW d \in Ids, NEW pr \in Promotions, Promote(d, pr) PROVE Effect
  <2>1. NothingGone
    BY <1>19, OtherEvents DEF Promote
  <2> QED BY <1>19, <2>1 DEF Effect
<1>20. ASSUME NEW d \in Ids, Retire(d) \/ Discard(d) PROVE Effect
  BY <1>20 DEF Effect
<1>21. ASSUME NEW r \in Reqs, Lose(r) PROVE Effect
  BY <1>1, <1>21 DEF Lose
<1>22. ASSUME NEW r \in Reqs, Restate(r) PROVE Effect
  <2>1. NothingGone
    BY <1>0, <1>22, RestateFacts, OtherEvents
  <2> QED BY <1>0, <1>22, <2>1, RestateFacts DEF Effect, Quiet, SameLedger
<1> QED
  BY <1>3, <1>4, <1>5, <1>6, <1>7, <1>8, <1>9, <1>10, <1>11, <1>12, <1>13, <1>15, <1>16,
     <1>17, <1>18, <1>19, <1>20, <1>21, <1>22
     DEF Next

(* The same effects, field by field.                                       *)
LEMMA ContributesFacts ==
    ASSUME TypeOK, NEW c, NEW d, Contributes(c, d)
    PROVE  /\ d \notin DOMAIN docs /\ DOMAIN docs' = DOMAIN docs \cup {d}
           /\ docs'[d].status = IF Matches(c.text, NoDoc) = {} THEN "active" ELSE "flagged"
           /\ docs'[d].text = c.text /\ docs'[d].meta = c.meta /\ docs'[d].by = c.by
           /\ \A e \in DOMAIN docs : docs'[e] = docs[e]
           /\ DOMAIN maker' = DOMAIN maker \cup {d} /\ maker'[d] = Key(c)
           /\ \A e \in DOMAIN maker : maker'[e] = maker[e]
           /\ DOMAIN writes' = DOMAIN writes \cup {Key(c)} /\ writes'[Key(c)].doc = d
           /\ \A k \in DOMAIN writes : writes'[k] = writes[k]
           /\ UNCHANGED <<proposals, judged>>
<1>1. PICK status : Store(c, d, status) /\ (status = IF Matches(c.text, NoDoc) = {}
                                                       THEN "active" ELSE "flagged")
  BY DEF Contributes
<1>2. d \notin DOMAIN docs /\ d \notin DOMAIN maker /\ Key(c) \notin DOMAIN writes
  BY DEF Contributes, TypeOK
<1> DEFINE row == [digest |-> c, current |-> TRUE, doc |-> d,
                   state |-> IF status = "active" THEN "inserted" ELSE "flagged"]
<1>3. /\ docs' = With(docs, d, NewDoc(c, status)) /\ maker' = With(maker, d, Key(c))
      /\ writes' = With(writes, Key(c), row) /\ UNCHANGED <<proposals, judged>>
  BY <1>1 DEF Store
<1>4. row.doc = d
  OBVIOUS
<1>5. /\ NewDoc(c, status).status = status /\ NewDoc(c, status).text = c.text
      /\ NewDoc(c, status).meta = c.meta /\ NewDoc(c, status).by = c.by
  BY DEF NewDoc, RowFrom
<1> HIDE DEF row
<1>6. /\ DOMAIN docs' = DOMAIN docs \cup {d} /\ docs'[d] = NewDoc(c, status)
      /\ \A e \in DOMAIN docs : docs'[e] = docs[e]
  BY <1>2, <1>3 DEF With
<1>7. /\ DOMAIN maker' = DOMAIN maker \cup {d} /\ maker'[d] = Key(c)
      /\ \A e \in DOMAIN maker : maker'[e] = maker[e]
  BY <1>2, <1>3 DEF With
<1>8. /\ DOMAIN writes' = DOMAIN writes \cup {Key(c)} /\ writes'[Key(c)] = row
      /\ \A k \in DOMAIN writes : writes'[k] = writes[k]
  BY <1>2, <1>3 DEF With
<1> QED BY <1>1, <1>2, <1>3, <1>4, <1>5, <1>6, <1>7, <1>8

LEMMA EditedFacts ==
    ASSUME TypeOK, NEW d, NEW text, NEW meta, Edited(d, text, meta)
    PROVE  /\ d \in DOMAIN docs /\ docs[d].status = "active" /\ DOMAIN docs' = DOMAIN docs
           /\ docs'[d].text = text /\ docs'[d].meta = meta
           /\ docs'[d].status = "active" /\ docs'[d].by = docs[d].by
           /\ \A e \in DOMAIN docs \ {d} : docs'[e] = docs[e]
           /\ judged' = IF text = docs[d].text THEN judged ELSE judged \ {d}
           /\ UNCHANGED <<cases, writes, maker>>
<1>1. /\ d \in DOMAIN docs /\ docs[d] \in Row /\ docs[d].status = "active"
      /\ Rewrite(d, text, meta)
  BY DEF Edited, Readable, TypeOK
<1>2. docs'[d] = Replaced(docs[d], text, meta)
  BY <1>1 DEF Rewrite, TypeOK
<1>3. docs'[d].by = docs[d].by
  BY <1>1, <1>2 DEF Replaced, Row
<1>4. /\ DOMAIN docs' = DOMAIN docs /\ docs'[d].text = text /\ docs'[d].meta = meta
      /\ docs'[d].status = docs[d].status
      /\ \A e \in DOMAIN docs \ {d} : docs'[e] = docs[e]
  BY <1>1, RewriteEffect
<1>5. /\ judged' = IF text = docs[d].text THEN judged ELSE judged \ {d}
      /\ UNCHANGED <<cases, writes, maker>>
  BY DEF Edited, Rewrite
<1> QED BY <1>1, <1>3, <1>4, <1>5

LEMMA PublishFacts ==
    ASSUME TypeInv, NEW x, Publish(x)
    PROVE  /\ x \in DOMAIN cases /\ cases[x].state = "pending"
           /\ DOMAIN cases' = DOMAIN cases /\ cases'[x].state = "accepted"
           /\ \A y \in DOMAIN cases \ {x} : cases'[y] = cases[y]
           /\ DOMAIN docs' = DOMAIN docs
           /\ \A e \in DOMAIN docs \ {x} : docs'[e] = docs[e]
           /\ x \in DOMAIN docs => docs'[x] = [docs[x] EXCEPT !.status = "active"]
           /\ judged' = judged \cup {x}
           /\ UNCHANGED <<vectors, proposals, writes, maker>>
<1>1. x \in DOMAIN cases /\ cases[x].state = "pending" /\ cases[x].candidate = x
  BY DEF Publish, TypeInv, PendingCaseHasCandidate
<1>2. /\ DOMAIN docs' = DOMAIN docs
      /\ \A e \in DOMAIN docs \ {x} : docs'[e] = docs[e]
      /\ x \in DOMAIN docs => docs'[x] = [docs[x] EXCEPT !.status = "active"]
  BY <1>1 DEF Publish, TypeInv, TypeOK
<1> DEFINE row == [cases[x] EXCEPT !.state = "accepted"]
<1>3. cases[x] \in Case /\ cases' = [cases EXCEPT ![x] = row]
  BY <1>1 DEF Publish, TypeInv, TypeOK
<1>4. row.state = "accepted"
  BY <1>3 DEF Case
<1> HIDE DEF row
<1>5. /\ DOMAIN cases' = DOMAIN cases /\ cases'[x] = row
      /\ \A y \in DOMAIN cases \ {x} : cases'[y] = cases[y]
  BY <1>1, <1>3 DEF TypeInv, TypeOK
<1> QED BY <1>1, <1>2, <1>4, <1>5 DEF Publish

LEMMA DiscardFacts ==
    ASSUME TypeInv, NEW x, Discard(x)
    PROVE  /\ x \in DOMAIN cases /\ cases[x].state = "pending" /\ Delete(x)
           /\ DOMAIN cases' = DOMAIN cases /\ cases'[x].state = "rejected"
           /\ \A y \in DOMAIN cases \ {x} : cases'[y] = cases[y]
           /\ audit' = audit \cup {<<"review", "candidate_deleted", x>>,
                                   <<"review", "rejected", x>>}
           /\ UNCHANGED <<proposals, req, maker>>
<1>1. /\ x \in DOMAIN cases /\ cases[x].state = "pending" /\ cases[x].candidate = x
      /\ Delete(x)
  BY DEF Discard, TypeInv, PendingCaseHasCandidate
<1> DEFINE row == [cases[x] EXCEPT !.state = "rejected", !.candidate = NoDoc]
<1>2. cases[x] \in Case /\ cases' = [cases EXCEPT ![x] = row]
  BY <1>1 DEF Discard, TypeInv, TypeOK
<1>3. row.state = "rejected"
  BY <1>2 DEF Case
<1> HIDE DEF row
<1>4. /\ DOMAIN cases' = DOMAIN cases /\ cases'[x] = row
      /\ \A y \in DOMAIN cases \ {x} : cases'[y] = cases[y]
  BY <1>1, <1>2 DEF TypeInv, TypeOK
<1> QED BY <1>1, <1>3, <1>4 DEF Discard

LEMMA RetireFacts ==
    ASSUME TypeInv, NEW d, Retire(d)
    PROVE  /\ d \in Readable /\ ~UnderReview(d) /\ Delete(d)
           /\ DOMAIN cases' = DOMAIN cases
           /\ \A x \in DOMAIN cases : /\ cases'[x].state = cases[x].state
                                      /\ cases'[x].evidence = cases[x].evidence
           /\ Record("retire", "retired", d)
           /\ UNCHANGED <<proposals, req, maker>>
<1>1. \A x \in DOMAIN cases :
          cases[x] \in Case /\ cases'[x] = [cases[x] EXCEPT !.candidate = Forget(@, d)]
  BY DEF Retire, TypeInv, TypeOK
<1>2. \A x \in DOMAIN cases : /\ cases'[x].state = cases[x].state
                              /\ cases'[x].evidence = cases[x].evidence
  BY <1>1 DEF Case
<1> QED BY <1>2 DEF Retire

LEMMA PromoteFacts ==
    ASSUME TypeOK, NEW d, NEW pr, Promote(d, pr)
    PROVE  /\ DOMAIN docs' = DOMAIN docs
           /\ \A e \in DOMAIN docs : /\ docs'[e].status = docs[e].status
                                     /\ docs'[e].text = docs[e].text
                                     /\ docs'[e].meta = docs[e].meta
                                     /\ docs'[e].by = docs[e].by
           /\ UNCHANGED <<vectors, cases, proposals, writes, maker, judged>>
<1>1. d \in DOMAIN docs /\ docs[d] \in Row
  BY DEF Promote, Readable, TypeOK
<1>2. /\ DOMAIN docs' = DOMAIN docs
      /\ \A e \in DOMAIN docs \ {d} : docs'[e] = docs[e]
      /\ \E path : docs'[d] = [docs[d] EXCEPT !.promo = pr, !.path = path]
  BY <1>1 DEF Promote, TypeOK
<1>3. /\ docs'[d].status = docs[d].status /\ docs'[d].text = docs[d].text
      /\ docs'[d].meta = docs[d].meta /\ docs'[d].by = docs[d].by
  BY <1>1, <1>2 DEF Row
<1> QED BY <1>1, <1>2, <1>3 DEF Promote

(* Publishing is all that changes the status of a note, so what is         *)
(* published stays so for as long as it is there.                          *)
LEMMA PublishedStays ==
    ASSUME TypeInv, Effect, ContentFollowsRevision
    PROVE  \A d : Published(d) => Published(d)'
<1> SUFFICES ASSUME NEW d, Published(d) PROVE Published(d)'
  OBVIOUS
<1>1. /\ d \in DOMAIN maker' /\ TypeOK
      /\ d \in DOMAIN docs' => d \in DOMAIN docs /\ docs[d].status = "active"
  BY DEF Published, ContentFollowsRevision, TypeInv
<1> SUFFICES ASSUME d \in DOMAIN docs' PROVE docs'[d].status = "active"
  BY <1>1 DEF Published
<1>2. d \in DOMAIN docs /\ docs[d].status = "active" /\ docs[d] \in Row
  BY <1>1 DEF TypeOK
<1>3. ASSUME UNCHANGED docs PROVE docs'[d].status = "active"
  BY <1>2, <1>3
<1>4. ASSUME NEW c, NEW e, Contributes(c, e) PROVE docs'[d].status = "active"
  BY <1>1, <1>2, <1>4, ContributesFacts
<1>5. ASSUME NEW e, NEW text, NEW meta, Edited(e, text, meta) PROVE docs'[d].status = "active"
  BY <1>1, <1>2, <1>5, EditedFacts
<1>6. ASSUME NEW e, Delete(e) PROVE docs'[d].status = "active"
  BY <1>2, <1>6, DeleteType
<1>7. ASSUME NEW x, Publish(x) PROVE docs'[d].status = "active"
  <2>1. /\ \A e \in DOMAIN docs \ {x} : docs'[e] = docs[e]
        /\ x \in DOMAIN docs => docs'[x] = [docs[x] EXCEPT !.status = "active"]
    BY <1>7, PublishFacts
  <2> QED BY <1>2, <2>1 DEF Row
<1>8. ASSUME NEW e, NEW pr, Promote(e, pr) PROVE docs'[d].status = "active"
  BY <1>1, <1>2, <1>8, PromoteFacts
<1> QED BY <1>3, <1>4, <1>5, <1>6, <1>7, <1>8
        DEF Effect, Quiet, Replaces, Summarises, Reclassifies, Accepts, Closes, Propose,
            Retire, Discard, notes

(* A handler begins on a published note.                                   *)
LEMMA BeginsOnPublished ==
    TypeInv /\ [Next]_vars =>
        \A r \in Reqs : \/ req'[r] = req[r]
                        \/ req'[r].pc \notin {"update", "summary"}
                        \/ /\ UNCHANGED corpus /\ Published(req'[r].doc)
                           /\ req'[r].pc = "summary" => req'[r].text.summary \in Summaries
<1> DEFINE Begins(q) == \/ q.pc \notin {"update", "summary"}
                        \/ /\ UNCHANGED corpus /\ Published(q.doc)
                           /\ q.pc = "summary" => q.text.summary \in Summaries
           Goal == \A r \in Reqs : req'[r] = req[r] \/ Begins(req'[r])
<1> SUFFICES ASSUME TypeInv, [Next]_vars PROVE Goal
  OBVIOUS
<1>0. /\ TypeOK /\ req \in [Reqs -> Request]
      /\ \A d \in Readable : Published(d) /\ docs[d] \in Row
  BY DEF TypeInv, TypeOK, Published, Readable
<1>1. ASSUME UNCHANGED req PROVE Goal
  BY <1>1
<1>2. ASSUME NEW r \in Reqs, NEW q, Goto(r, q), Begins(q) PROVE Goal
  <2>1. req'[r] = q /\ \A s \in Reqs : s # r => req'[s] = req[s]
    BY <1>0, <1>2 DEF Goto
  <2> HIDE DEF Begins
  <2> QED BY <1>2, <2>1
<1>3. ASSUME NEW r \in Reqs, Finish(r) PROVE Goal
  <2>1. Begins(Idle)
    BY DEF Idle
  <2> HIDE DEF Begins, Goal
  <2> QED BY <1>2, <1>3, <2>1 DEF Finish
<1>4. CASE UNCHANGED vars
  BY <1>1, <1>4 DEF vars
<1>5. ASSUME NEW r \in Reqs, NEW c \in Contributions, Contribute(r, c) PROVE Goal
  <2>1. PICK q : Goto(r, q) /\ q.pc \notin {"update", "summary"}
    <3>1. CASE Replay(r, c)
      BY <3>1, ReplayGoes
    <3>2. CASE Goto(r, [pc |-> "contribute", body |-> c])
      BY <3>2
    <3> QED BY <1>5, <3>1, <3>2 DEF Contribute
  <2>2. Begins(q)
    BY <2>1
  <2> HIDE DEF Begins, Goal
  <2> QED BY <1>2, <2>1, <2>2
<1>6. ASSUME NEW r \in Reqs, NEW d \in Ids, SettleContribution(r, d) PROVE Goal
  <2>1. PICK q : Goto(r, q) /\ q.pc \notin {"update", "summary"}
    <3>1. CASE Replay(r, req[r].body)
      BY <3>1, ReplayGoes
    <3>2. CASE Finish(r)
      BY <3>2 DEF Finish, Idle
    <3> QED BY <1>6, <3>1, <3>2 DEF SettleContribution
  <2>2. Begins(q)
    BY <2>1
  <2> HIDE DEF Begins, Goal
  <2> QED BY <1>2, <2>1, <2>2
<1>7. ASSUME NEW r \in Reqs, NEW d \in Ids, NEW e \in Replacements, Update(r, d, e)
      PROVE  Goal
  <2> DEFINE q == [pc |-> "update", doc |-> d, body |-> e]
  <2>1. Goto(r, q) /\ d \in Readable /\ UNCHANGED corpus
    BY <1>7 DEF Update
  <2>2. Begins(q)
    BY <1>0, <2>1
  <2> HIDE DEF Begins, Goal, q
  <2> QED BY <1>2, <2>1, <2>2
<1>8. ASSUME NEW r \in Reqs, NEW d \in Ids, NEW s \in Additions, NEW a \in Authors,
             SetSummary(r, d, s, a)
      PROVE  Goal
  <2> DEFINE q == [pc |-> "summary", doc |-> d, rev |-> docs[d].rev, who |-> a,
                   text |-> Summarised(docs[d].text, s)]
  <2>1. Goto(r, q) /\ d \in Readable /\ UNCHANGED corpus
    BY <1>8 DEF SetSummary
  <2>2. q.text.summary \in Summaries
    BY <1>0, <2>1, CorpusAssumption DEF Summarised, Row, Texts
  <2>3. Begins(q)
    BY <1>0, <2>1, <2>2
  <2> HIDE DEF Begins, Goal, q
  <2> QED BY <1>2, <2>1, <2>3
<1>9. ASSUME NEW r \in Reqs, \/ Restate(r) \/ RecordConflict(r) \/ SettleUpdate(r)
                             \/ SettleSummary(r) \/ SettleStale(r)
                             \/ SettleAcceptance(r) \/ Lose(r)
      PROVE  Goal
  <2> HIDE DEF Goal
  <2> QED BY <1>3, <1>9 DEF Restate, Answer, RecordConflict, SettleUpdate, SettleSummary,
                            SettleStale, SettleAcceptance, Lose
<1>10. ASSUME NEW r \in Reqs, NEW p \in ProposalIds, Accept(r, p) PROVE Goal
  <2>1. PICK q : Goto(r, q) /\ q.pc \notin {"update", "summary"}
    BY <1>10 DEF Accept
  <2>2. Begins(q)
    BY <2>1
  <2> HIDE DEF Begins, Goal
  <2> QED BY <1>2, <2>1, <2>2
<1>11. ASSUME NEW d \in Ids,
              \/ \E m \in NewMetas : UpdateMetadata(d, m)
              \/ \E p \in ProposalIds, ch \in Changes : Propose(p, d, ch)
              \/ \E pr \in Promotions : Promote(d, pr)
              \/ Retire(d) \/ Publish(d) \/ Discard(d)
       PROVE  Goal
  <2> HIDE DEF Goal
  <2> QED BY <1>1, <1>11 DEF UpdateMetadata, Propose, Promote, Retire, Publish, Discard
<1>12. ASSUME NEW p \in ProposalIds, Reject(p) PROVE Goal
  <2> HIDE DEF Goal
  <2> QED BY <1>1, <1>12 DEF Reject
<1> HIDE DEF Goal
<1> QED
  BY <1>4, <1>5, <1>6, <1>7, <1>8, <1>9, <1>10, <1>11, <1>12 DEF Next

(* So handlers and proposals go on naming published notes.                 *)
LEMMA NextNamesPublished == Inv /\ NamesPublished /\ [Next]_vars => NamesPublished'
<1> SUFFICES ASSUME Inv, NamesPublished, [Next]_vars PROVE NamesPublished'
  OBVIOUS
<1>1. TypeInv /\ TypeOK /\ Effect /\ ContentFollowsRevision
  BY Effects, RevisionsGrow DEF Inv, TypeInv
<1>2. \A d : Published(d) => Published(d)'
  BY <1>1, PublishedStays
<1>3. ASSUME NEW r \in Reqs, req'[r].pc \in {"update", "summary"}
      PROVE  /\ Published(req[r].doc)'
             /\ req'[r].pc = "summary" => req'[r].text.summary \in Summaries
  <2>1. CASE req'[r] = req[r]
    <3>1. /\ Published(req[r].doc)
          /\ req[r].pc = "summary" => req[r].text.summary \in Summaries
      BY <1>3, <2>1 DEF NamesPublished
    <3>2. req'[r].doc \in DOMAIN maker' /\ (req'[r].doc \in DOMAIN docs' =>
                                              docs'[req'[r].doc].status = "active")
      BY <1>2, <2>1, <3>1 DEF Published
    <3> QED BY <2>1, <3>1, <3>2 DEF Published
  <2>2. CASE /\ UNCHANGED corpus /\ Published(req'[r].doc)
             /\ req'[r].pc = "summary" => req'[r].text.summary \in Summaries
    BY <2>2 DEF Published, corpus
  <2> QED BY <1>1, <1>3, <2>1, <2>2, BeginsOnPublished
<1>4. ASSUME NEW p \in DOMAIN proposals' PROVE Published(proposals[p].doc)'
  <2>1. CASE p \in DOMAIN proposals
    <3>1. Published(proposals[p].doc) /\ proposals'[p].doc = proposals[p].doc
      BY <1>4, <2>1, ProposalSteps DEF NamesPublished, ProposalsFollow, Written, Decided
    <3>2. /\ proposals[p].doc \in DOMAIN maker'
          /\ proposals[p].doc \in DOMAIN docs' => docs'[proposals[p].doc].status = "active"
      BY <1>2, <3>1 DEF Published
    <3> QED BY <3>1, <3>2 DEF Published
  <2>2. CASE p \notin DOMAIN proposals
    <3>1. proposals' # proposals
      BY <1>4, <2>2
    <3>2. PICK q \in ProposalIds, d \in Ids, ch \in Changes : Propose(q, d, ch)
      <4>1. ASSUME NEW c, NEW d, Contributes(c, d) PROVE UNCHANGED proposals
        BY <1>1, <4>1, ContributesFacts
      <4>2. ASSUME NEW q, NEW s, NEW n, Decide(q, s, n) PROVE DOMAIN proposals' = DOMAIN proposals
        BY <1>1, <4>2 DEF Decide, TypeOK
      <4> QED BY <1>1, <1>4, <2>2, <3>1, <4>1, <4>2
              DEF Effect, Quiet, Replaces, Summarises, Reclassifies, Accepts, Closes,
                  Retire, Publish, Discard, Promote
    <3>3. /\ d \in Readable /\ UNCHANGED <<docs, maker>> /\ p = q /\ proposals'[p].doc = d
      BY <1>4, <2>2, <3>2 DEF Propose, With, notes
    <3> QED BY <1>1, <3>3 DEF Published, Readable, TypeOK
  <2> QED BY <2>1, <2>2
<1> QED BY <1>3, <1>4 DEF NamesPublished

LEMMA WorkingInvariance == Spec => [](Inv /\ NamesPublished)
<1>1. Init => Inv /\ NamesPublished
  <2> SUFFICES ASSUME Init PROVE NamesPublished
    BY InitInv
  <2>1. PICK id \in [Legacy -> Ids] : Init!(id)
    BY DEF Init
  <2>2. proposals = << >> /\ req = [r \in Reqs |-> Idle]
    BY <2>1
  <2> QED BY <2>2 DEF NamesPublished, Idle
<1>2. Inv /\ NamesPublished /\ [Next]_vars => (Inv /\ NamesPublished)'
  BY NextInv, NextNamesPublished
<1> QED BY <1>1, <1>2, PTL DEF Spec

-----------------------------------------------------------------------------
(* 6. The duplicate gate.                                                  *)
(*                                                                         *)
(* The three parts of GateHolds are inductive together, once a case is     *)
(* known to be about a note that has existed: a flagged note is what       *)
(* Publish and Discard act on, and evidence stands because what is         *)
(* discarded is flagged and what is retired is under no review.            *)

InReview(d) == d \in DOMAIN cases /\ cases[d].state = "pending"
Flagged(d) == d \in DOMAIN docs /\ docs[d].status = "flagged"
FlaggedInReview == \A d \in Ids : Flagged(d) <=> InReview(d)
CasesAreOfNotes == DOMAIN cases \subseteq DOMAIN maker

(* A pending case is found under the note it is about.                     *)
LEMMA FlaggedMeans == TypeInv => (FlaggedIffPending <=> FlaggedInReview)
BY DEF TypeInv, TypeOK, PendingCaseHasCandidate, FlaggedIffPending, FlaggedInReview, Flagged,
       InReview

(* What the gate finds, said of texts instead of vectors.                  *)
LEMMA MatchesMeans ==
    ASSUME EmbeddingMatchesText, NEW text, NEW d
    PROVE  Matches(text, d) = {e \in Readable \ {d} : docs[e].text = text}
BY DEF EmbeddingMatchesText, Matches, Readable

(* A case is opened on the note, against published ones.                   *)
LEMMA ContributesCase ==
    ASSUME NEW c, NEW d, Contributes(c, d)
    PROVE  \/ Matches(c.text, NoDoc) = {} /\ UNCHANGED cases
           \/ /\ Matches(c.text, NoDoc) # {}
              /\ DOMAIN cases' = DOMAIN cases \cup {d} /\ cases'[d].state = "pending"
              /\ cases'[d].evidence \subseteq Readable
              /\ \A x \in DOMAIN cases \ {d} : cases'[x] = cases[x]
<1> SUFFICES ASSUME OpenCase(c, d)
             PROVE  /\ DOMAIN cases' = DOMAIN cases \cup {d} /\ cases'[d].state = "pending"
                    /\ cases'[d].evidence \subseteq Readable
                    /\ \A x \in DOMAIN cases \ {d} : cases'[x] = cases[x]
  BY DEF Contributes
<1>1. PICK S \in SUBSET Readable :
          cases' = With(cases, d, [state |-> "pending", candidate |-> d, evidence |-> S])
  BY DEF OpenCase
<1> QED BY <1>1 DEF With

(* The parts of the gate, kept by each effect in turn.                     *)
LEMMA FlaggedStay ==
    ASSUME TypeInv, FlaggedInReview, CasesAreOfNotes, Effect
    PROVE  FlaggedInReview' /\ CasesAreOfNotes'
<1> DEFINE Goal == FlaggedInReview' /\ CasesAreOfNotes'
<1> SUFFICES Goal
  OBVIOUS
<1>0. /\ TypeOK /\ \A d \in DOMAIN docs : docs[d] \in Row
      /\ DOMAIN docs \subseteq DOMAIN maker /\ DOMAIN maker \subseteq Ids
  BY DEF TypeInv, TypeOK
<1>1. ASSUME UNCHANGED <<docs, cases, maker>> PROVE Goal
  BY <1>1 DEF FlaggedInReview, Flagged, InReview, CasesAreOfNotes
<1>2. ASSUME NEW c, NEW d, Contributes(c, d) PROVE Goal
  <2>1. d \notin DOMAIN docs /\ d \notin DOMAIN cases
    BY <1>0, <1>2, ContributesFacts DEF CasesAreOfNotes, Contributes
  <2>2. /\ DOMAIN docs' = DOMAIN docs \cup {d}
        /\ docs'[d].status = IF Matches(c.text, NoDoc) = {} THEN "active" ELSE "flagged"
        /\ \A e \in DOMAIN docs : docs'[e] = docs[e]
        /\ DOMAIN maker' = DOMAIN maker \cup {d}
    BY <1>0, <1>2, ContributesFacts
  <2>3. \/ Matches(c.text, NoDoc) = {} /\ UNCHANGED cases
        \/ /\ Matches(c.text, NoDoc) # {}
           /\ DOMAIN cases' = DOMAIN cases \cup {d} /\ cases'[d].state = "pending"
           /\ \A x \in DOMAIN cases \ {d} : cases'[x] = cases[x]
    BY <1>2, ContributesCase
  <2>4. CasesAreOfNotes'
    BY <2>2, <2>3 DEF CasesAreOfNotes
  <2>5. \A e \in Ids \ {d} : (Flagged(e)' <=> Flagged(e)) /\ (InReview(e)' <=> InReview(e))
    BY <2>2, <2>3 DEF Flagged, InReview
  <2>6. Flagged(d)' <=> InReview(d)'
    BY <2>1, <2>2, <2>3 DEF Flagged, InReview
  <2> QED BY <2>4, <2>5, <2>6 DEF FlaggedInReview
<1>3. ASSUME NEW d, NEW text, NEW meta, Edited(d, text, meta) PROVE Goal
  <2>1. \A e : Flagged(e)' <=> Flagged(e)
    BY <1>0, <1>3, EditedFacts DEF Flagged
  <2> QED BY <1>3, <2>1 DEF Edited, FlaggedInReview, InReview, CasesAreOfNotes
<1>4. ASSUME NEW d \in Ids, Retire(d) PROVE Goal
  <2>1. /\ d \in DOMAIN docs /\ docs[d].status = "active"
        /\ DOMAIN cases' = DOMAIN cases
        /\ \A x \in DOMAIN cases : cases'[x].state = cases[x].state
        /\ Delete(d) /\ UNCHANGED maker
    BY <1>4, RetireFacts DEF Readable
  <2>2. DOMAIN docs' = DOMAIN docs \ {d} /\ \A e \in DOMAIN docs' : docs'[e] = docs[e]
    BY <2>1, DeleteType
  <2>3. \A e \in Ids : (Flagged(e)' <=> Flagged(e)) /\ (InReview(e)' <=> InReview(e))
    BY <2>1, <2>2 DEF Flagged, InReview
  <2> QED BY <2>1, <2>3 DEF FlaggedInReview, CasesAreOfNotes
<1>5. ASSUME NEW x \in Ids, Publish(x) PROVE Goal
  <2>1. /\ InReview(x) /\ DOMAIN cases' = DOMAIN cases /\ cases'[x].state = "accepted"
        /\ \A y \in DOMAIN cases \ {x} : cases'[y] = cases[y]
        /\ DOMAIN docs' = DOMAIN docs /\ UNCHANGED maker
        /\ \A e \in DOMAIN docs \ {x} : docs'[e] = docs[e]
        /\ x \in DOMAIN docs => docs'[x] = [docs[x] EXCEPT !.status = "active"]
    BY <1>5, PublishFacts DEF InReview
  <2>2. ~Flagged(x)' /\ ~InReview(x)'
    BY <1>0, <2>1 DEF Flagged, InReview, Row
  <2>3. \A e \in Ids \ {x} : (Flagged(e)' <=> Flagged(e)) /\ (InReview(e)' <=> InReview(e))
    BY <2>1 DEF Flagged, InReview
  <2> QED BY <2>1, <2>2, <2>3 DEF FlaggedInReview, CasesAreOfNotes
<1>6. ASSUME NEW x \in Ids, Discard(x) PROVE Goal
  <2>1. /\ DOMAIN cases' = DOMAIN cases /\ cases'[x].state = "rejected" /\ Delete(x)
        /\ \A y \in DOMAIN cases \ {x} : cases'[y] = cases[y]
        /\ UNCHANGED maker
    BY <1>6, DiscardFacts
  <2>2. DOMAIN docs' = DOMAIN docs \ {x} /\ \A e \in DOMAIN docs' : docs'[e] = docs[e]
    BY <2>1, DeleteType
  <2>3. ~Flagged(x)' /\ ~InReview(x)'
    BY <2>1, <2>2 DEF Flagged, InReview
  <2>4. \A e \in Ids \ {x} : (Flagged(e)' <=> Flagged(e)) /\ (InReview(e)' <=> InReview(e))
    BY <2>1, <2>2 DEF Flagged, InReview
  <2> QED BY <2>1, <2>3, <2>4 DEF FlaggedInReview, CasesAreOfNotes
<1>7. ASSUME NEW d, NEW pr, Promote(d, pr) PROVE Goal
  <2>1. \A e : Flagged(e)' <=> Flagged(e)
    BY <1>0, <1>7, PromoteFacts DEF Flagged
  <2> QED BY <1>7, <2>1 DEF Promote, FlaggedInReview, InReview, CasesAreOfNotes
<1> HIDE DEF Goal
<1> QED BY <1>1, <1>2, <1>3, <1>4, <1>5, <1>6, <1>7
        DEF Effect, Quiet, Replaces, Summarises, Reclassifies, Accepts, Closes, Propose, notes

LEMMA EvidenceStays ==
    ASSUME TypeInv, FlaggedInReview, EvidenceStands, Effect
    PROVE  EvidenceStands'
<1>0. /\ TypeOK /\ \A d \in DOMAIN docs : docs[d] \in Row
      /\ DOMAIN docs \subseteq DOMAIN maker /\ DOMAIN maker \subseteq Ids
  BY DEF TypeInv, TypeOK
<1>1. ASSUME Readable \subseteq Readable',
             \A x \in DOMAIN cases' : cases'[x].state = "pending" =>
                \/ cases'[x].evidence \subseteq Readable
                \/ x \in DOMAIN cases /\ cases[x] = cases'[x]
      PROVE  EvidenceStands'
  BY <1>1 DEF EvidenceStands
<1>2. ASSUME UNCHANGED <<docs, cases>> PROVE EvidenceStands'
  BY <1>2 DEF EvidenceStands, Readable
<1>3. ASSUME NEW c, NEW d, Contributes(c, d) PROVE EvidenceStands'
  <2>1. Readable \subseteq Readable'
    BY <1>0, <1>3, ContributesFacts DEF Readable
  <2> QED BY <1>1, <1>3, <2>1, ContributesCase
<1>4. ASSUME NEW d, NEW text, NEW meta, Edited(d, text, meta) PROVE EvidenceStands'
  <2>1. Readable \subseteq Readable' /\ UNCHANGED cases
    BY <1>0, <1>4, EditedFacts DEF Readable
  <2> QED BY <1>1, <2>1
<1>5. ASSUME NEW d \in Ids, Retire(d) PROVE EvidenceStands'
  <2>1. /\ ~UnderReview(d) /\ DOMAIN cases' = DOMAIN cases /\ Delete(d)
        /\ \A x \in DOMAIN cases : /\ cases'[x].state = cases[x].state
                                   /\ cases'[x].evidence = cases[x].evidence
    BY <1>5, RetireFacts
  <2>2. DOMAIN docs' = DOMAIN docs \ {d} /\ \A e \in DOMAIN docs' : docs'[e] = docs[e]
    BY <2>1, DeleteType
  <2>3. Readable' = Readable \ {d}
    BY <2>2 DEF Readable
  <2> QED BY <2>1, <2>3 DEF EvidenceStands, UnderReview
<1>6. ASSUME NEW x \in Ids, Publish(x) PROVE EvidenceStands'
  <2>1. /\ DOMAIN cases' = DOMAIN cases /\ cases'[x].state = "accepted"
        /\ \A y \in DOMAIN cases \ {x} : cases'[y] = cases[y]
        /\ DOMAIN docs' = DOMAIN docs
        /\ \A e \in DOMAIN docs \ {x} : docs'[e] = docs[e]
        /\ x \in DOMAIN docs => docs'[x] = [docs[x] EXCEPT !.status = "active"]
    BY <1>6, PublishFacts
  <2>2. Readable \subseteq Readable'
    BY <1>0, <2>1 DEF Readable, Row
  <2> QED BY <1>1, <2>1, <2>2
<1>7. ASSUME NEW x \in Ids, Discard(x) PROVE EvidenceStands'
  <2>1. /\ InReview(x) /\ Delete(x)
        /\ DOMAIN cases' = DOMAIN cases /\ cases'[x].state = "rejected"
        /\ \A y \in DOMAIN cases \ {x} : cases'[y] = cases[y]
    BY <1>7, DiscardFacts DEF InReview
  <2>2. x \notin Readable
    BY <2>1 DEF FlaggedInReview, Flagged, Readable
  <2>3. DOMAIN docs' = DOMAIN docs \ {x} /\ \A e \in DOMAIN docs' : docs'[e] = docs[e]
    BY <2>1, DeleteType
  <2>4. Readable' = Readable
    BY <2>2, <2>3 DEF Readable
  <2> QED BY <1>1, <2>1, <2>4
<1>8. ASSUME NEW d, NEW pr, Promote(d, pr) PROVE EvidenceStands'
  <2>1. Readable \subseteq Readable' /\ UNCHANGED cases
    BY <1>0, <1>8, PromoteFacts DEF Readable
  <2> QED BY <1>1, <2>1
<1> QED BY <1>2, <1>3, <1>4, <1>5, <1>6, <1>7, <1>8
        DEF Effect, Quiet, Replaces, Summarises, Reclassifies, Accepts, Closes, Propose, notes

(* Only a text nobody has is written, and only a reviewer publishes what   *)
(* somebody has.                                                           *)
LEMMA DuplicatesStayJudged ==
    ASSUME TypeInv, EmbeddingMatchesText, DuplicatesAreJudged, Effect
    PROVE  DuplicatesAreJudged'
<1>0. /\ TypeOK /\ \A d \in DOMAIN docs : docs[d] \in Row
      /\ DOMAIN docs \subseteq Ids /\ NoDoc \notin Ids
  BY CorpusAssumption DEF TypeInv, TypeOK
<1>1. ASSUME Readable' \subseteq Readable, \A e \in Readable' : docs'[e].text = docs[e].text,
             \A e \in Readable' : e \in judged => e \in judged'
      PROVE  DuplicatesAreJudged'
  BY <1>1 DEF DuplicatesAreJudged
<1>2. ASSUME UNCHANGED <<docs, judged>> PROVE DuplicatesAreJudged'
  BY <1>1, <1>2 DEF Readable
<1>3. ASSUME NEW c, NEW d, Contributes(c, d) PROVE DuplicatesAreJudged'
  <2>1. /\ DOMAIN docs' = DOMAIN docs \cup {d} /\ UNCHANGED judged
        /\ docs'[d].status = IF Matches(c.text, NoDoc) = {} THEN "active" ELSE "flagged"
        /\ docs'[d].text = c.text /\ d \notin DOMAIN docs
        /\ \A e \in DOMAIN docs : docs'[e] = docs[e]
    BY <1>0, <1>3, ContributesFacts
  <2>2. CASE Matches(c.text, NoDoc) = {}
    <3>1. \A e \in Readable : docs[e].text # c.text
      BY <1>0, <2>2, MatchesMeans DEF Readable
    <3>2. Readable' = Readable \cup {d}
      BY <2>1, <2>2 DEF Readable
    <3>3. \A e \in Readable : e # d /\ docs'[e].text = docs[e].text
      BY <2>1 DEF Readable
    <3> QED BY <2>1, <3>1, <3>2, <3>3 DEF DuplicatesAreJudged
  <2>3. CASE Matches(c.text, NoDoc) # {}
    <3>1. Readable' \subseteq Readable
      BY <2>1, <2>3 DEF Readable
    <3> QED BY <1>1, <2>1, <3>1 DEF Readable
  <2> QED BY <2>2, <2>3
<1>4. ASSUME NEW d, NEW text, NEW meta, Edited(d, text, meta) PROVE DuplicatesAreJudged'
  <2>1. /\ d \in DOMAIN docs /\ docs[d].status = "active" /\ DOMAIN docs' = DOMAIN docs
        /\ docs'[d].text = text /\ docs'[d].status = "active"
        /\ \A e \in DOMAIN docs \ {d} : docs'[e] = docs[e]
        /\ judged' = IF text = docs[d].text THEN judged ELSE judged \ {d}
    BY <1>0, <1>4, EditedFacts
  <2>2. Readable' = Readable
    BY <2>1 DEF Readable
  <2>3. CASE text = docs[d].text
    BY <1>1, <2>1, <2>2, <2>3 DEF Readable
  <2>4. CASE text # docs[d].text
    <3>1. \A e \in Readable \ {d} : docs[e].text # text
      BY <1>4, <2>4, MatchesMeans DEF Edited
    <3>2. \A e \in Readable \ {d} : docs'[e].text = docs[e].text /\ (e \in judged => e \in judged')
      BY <2>1 DEF Readable
    <3> QED BY <2>1, <2>2, <3>1, <3>2 DEF DuplicatesAreJudged
  <2> QED BY <2>3, <2>4
<1>5. ASSUME NEW d, Delete(d) PROVE DuplicatesAreJudged'
  <2>1. /\ DOMAIN docs' = DOMAIN docs \ {d} /\ \A e \in DOMAIN docs' : docs'[e] = docs[e]
        /\ judged' = judged \ {d}
    BY <1>5, DeleteType DEF Delete
  <2> QED BY <1>1, <2>1 DEF Readable
<1>6. ASSUME NEW x, Publish(x) PROVE DuplicatesAreJudged'
  <2>1. /\ DOMAIN docs' = DOMAIN docs /\ judged' = judged \cup {x}
        /\ \A e \in DOMAIN docs \ {x} : docs'[e] = docs[e]
    BY <1>6, PublishFacts
  <2>2. \A e \in Readable' : e # x => e \in Readable /\ docs'[e].text = docs[e].text
    BY <2>1 DEF Readable
  <2> QED BY <2>1, <2>2 DEF DuplicatesAreJudged
<1>7. ASSUME NEW d, NEW pr, Promote(d, pr) PROVE DuplicatesAreJudged'
  <2>1. /\ DOMAIN docs' = DOMAIN docs /\ UNCHANGED judged
        /\ \A e \in DOMAIN docs : docs'[e].status = docs[e].status /\ docs'[e].text = docs[e].text
    BY <1>0, <1>7, PromoteFacts
  <2> QED BY <1>1, <2>1 DEF Readable
<1> QED BY <1>2, <1>3, <1>4, <1>5, <1>6, <1>7
        DEF Effect, Quiet, Replaces, Summarises, Reclassifies, Accepts, Closes, Propose, Retire,
            Discard, notes

(* The initial notes are all published, under different titles, and no     *)
(* case is open.                                                           *)
LEMMA InitGate == Init => DuplicatesAreJudged /\ FlaggedInReview /\ EvidenceStands /\ CasesAreOfNotes
<1> SUFFICES ASSUME Init
             PROVE  DuplicatesAreJudged /\ FlaggedInReview /\ EvidenceStands /\ CasesAreOfNotes
  OBVIOUS
<1>1. PICK id \in [Legacy -> Ids] : Init!(id)
  BY DEF Init
<1> DEFINE Of(d) == CHOOSE c \in Legacy : id[c] = d
           olds == {id[c] : c \in Legacy}
<1>2. /\ DOMAIN docs = olds /\ cases = << >>
      /\ \A d \in olds : docs[d].status = "active" /\ docs[d].text = Of(d).text
  BY <1>1
<1>3. \A d \in olds : Of(d) \in Legacy /\ id[Of(d)] = d
  OBVIOUS
<1> HIDE DEF Of, olds
<1>4. \A d, e \in olds : docs[d].text = docs[e].text => d = e
  BY <1>2, <1>3, CorpusAssumption
<1> QED BY <1>2, <1>4 DEF DuplicatesAreJudged, FlaggedInReview, EvidenceStands, CasesAreOfNotes,
                          Flagged, InReview, Readable

(* GateHolds, which CorpusWrites checks: what is flagged is in review,     *)
(* against notes that are there, and no interleaving of handlers publishes *)
(* a second note with one text unless a reviewer let it stand.             *)
THEOREM GateAlwaysHolds == Spec => []GateHolds
<1> DEFINE G == DuplicatesAreJudged /\ FlaggedInReview /\ EvidenceStands /\ CasesAreOfNotes
<1>1. Init => G
  BY InitGate
<1>2. Inv /\ NamesPublished /\ G /\ [Next]_vars => G'
  <2> SUFFICES ASSUME Inv, NamesPublished, G, [Next]_vars PROVE G'
    OBVIOUS
  <2>1. Effect /\ TypeInv /\ EmbeddingMatchesText
    BY Effects DEF Inv
  <2> QED BY <2>1, FlaggedStay, EvidenceStays, DuplicatesStayJudged
<1>3. Inv /\ G => GateHolds
  BY FlaggedMeans DEF Inv, GateHolds
<1> HIDE DEF G
<1> QED BY <1>1, <1>2, <1>3, WorkingInvariance, PTL DEF Spec

-----------------------------------------------------------------------------
(* 7. The ledger and the events.                                           *)
(*                                                                         *)
(* What it says of notes is inductive with two facts the code keeps but    *)
(* does not state: no note was ever made under a key the ledger lacks, and *)
(* no event says of an id that it is gone before there was a note.         *)

LedgerOfNotes == OneNotePerKey /\ LedgerNamesItsNote /\ GoneIsAudited
MadeUnderItsKey == \A d \in DOMAIN maker : maker[d] \in DOMAIN writes
GoneWereNotes == \A d \in Ids : Gone(d) => d \in DOMAIN maker
LedgerInv == LedgerOfNotes /\ MadeUnderItsKey /\ GoneWereNotes

(* GoneIsAudited in terms of Gone.                                         *)
LEMMA GoneMeans == GoneIsAudited <=> \A d \in DOMAIN maker : d \notin DOMAIN docs <=> Gone(d)
BY DEF GoneIsAudited, Gone

(* A step that neither makes nor removes a note.                           *)
LEMMA LedgerUntouched ==
    ASSUME LedgerInv, TypeOK, DOMAIN docs' = DOMAIN docs, UNCHANGED maker, SameLedger,
           NothingGone
    PROVE  LedgerInv'
<1>0. DOMAIN maker \subseteq Ids /\ DOMAIN docs \subseteq DOMAIN maker
  BY DEF TypeOK
<1>1. OneNotePerKey'
  BY DEF LedgerInv, LedgerOfNotes, OneNotePerKey
<1>2. LedgerNamesItsNote'
  BY <1>0 DEF LedgerInv, LedgerOfNotes, LedgerNamesItsNote, SameLedger
<1>3. GoneIsAudited'
  <2>1. \A d \in DOMAIN maker' : d \notin DOMAIN docs' <=> Gone(d)'
    BY <1>0, GoneMeans DEF LedgerInv, LedgerOfNotes, NothingGone
  <2> QED BY <2>1 DEF GoneIsAudited, Gone
<1>4. MadeUnderItsKey' /\ GoneWereNotes'
  BY DEF LedgerInv, MadeUnderItsKey, GoneWereNotes, SameLedger, NothingGone
<1> QED BY <1>1, <1>2, <1>3, <1>4 DEF LedgerInv, LedgerOfNotes

(* A step that removes a note and says so.                                 *)
LEMMA LedgerRemoval ==
    ASSUME LedgerInv, TypeInv, NEW d \in DOMAIN docs, Delete(d), UNCHANGED maker,
           Gone(d)', \A e \in Ids \ {d} : Gone(e)' <=> Gone(e)
    PROVE  LedgerInv'
<1>0. /\ DOMAIN maker \subseteq Ids /\ DOMAIN docs \subseteq DOMAIN maker /\ d \in Ids
      /\ writes \in [DOMAIN writes -> Write]
  BY DEF TypeInv, TypeOK
<1>1. /\ DOMAIN docs' = DOMAIN docs \ {d} /\ DOMAIN writes' = DOMAIN writes
  BY DeleteType
<1>2. \A k \in DOMAIN writes : writes'[k].doc = Forget(writes[k].doc, d)
  BY <1>0 DEF Delete, Write
<1>3. OneNotePerKey'
  BY DEF LedgerInv, LedgerOfNotes, OneNotePerKey
<1>4. LedgerNamesItsNote'
  BY <1>0, <1>1, <1>2 DEF LedgerInv, LedgerOfNotes, LedgerNamesItsNote, Forget
<1>5. GoneIsAudited'
  <2>1. \A e \in DOMAIN maker' : e \notin DOMAIN docs' <=> Gone(e)'
    BY <1>0, <1>1, GoneMeans DEF LedgerInv, LedgerOfNotes
  <2> QED BY <2>1 DEF GoneIsAudited, Gone
<1>6. MadeUnderItsKey' /\ GoneWereNotes'
  BY <1>0, <1>1 DEF LedgerInv, MadeUnderItsKey, GoneWereNotes
<1> QED BY <1>3, <1>4, <1>5, <1>6 DEF LedgerInv, LedgerOfNotes

(* A step that makes a note, under a key the ledger did not have.          *)
LEMMA LedgerAddition ==
    ASSUME LedgerInv, TypeOK, NEW c, NEW d, Contributes(c, d)
    PROVE  LedgerInv'
<1>0. /\ DOMAIN maker \subseteq Ids /\ DOMAIN docs \subseteq DOMAIN maker
      /\ d \in Ids /\ d \notin DOMAIN maker /\ Key(c) \notin DOMAIN writes /\ NothingGone
  BY DEF TypeOK, Contributes
<1>1. /\ DOMAIN docs' = DOMAIN docs \cup {d}
      /\ DOMAIN maker' = DOMAIN maker \cup {d} /\ maker'[d] = Key(c)
      /\ \A e \in DOMAIN maker : maker'[e] = maker[e]
      /\ DOMAIN writes' = DOMAIN writes \cup {Key(c)} /\ writes'[Key(c)].doc = d
      /\ \A k \in DOMAIN writes : writes'[k] = writes[k]
  BY ContributesFacts
<1>2. \A e \in DOMAIN maker : maker[e] # Key(c)
  BY <1>0 DEF LedgerInv, MadeUnderItsKey
<1>3. OneNotePerKey'
  BY <1>1, <1>2 DEF LedgerInv, LedgerOfNotes, OneNotePerKey
<1>4. LedgerNamesItsNote'
  BY <1>0, <1>1, <1>2 DEF LedgerInv, LedgerOfNotes, LedgerNamesItsNote
<1>5. GoneIsAudited'
  <2>1. ~Gone(d)'
    BY <1>0 DEF LedgerInv, GoneWereNotes, NothingGone
  <2>2. \A e \in DOMAIN maker' : e \notin DOMAIN docs' <=> Gone(e)'
    BY <1>0, <1>1, <2>1, GoneMeans DEF LedgerInv, LedgerOfNotes, NothingGone
  <2> QED BY <2>2 DEF GoneIsAudited, Gone
<1>6. MadeUnderItsKey' /\ GoneWereNotes'
  BY <1>0, <1>1 DEF LedgerInv, MadeUnderItsKey, GoneWereNotes, NothingGone
<1> QED BY <1>3, <1>4, <1>5, <1>6 DEF LedgerInv, LedgerOfNotes

LEMMA LedgerStays ==
    ASSUME LedgerInv, TypeInv, FlaggedInReview, Effect
    PROVE  LedgerInv'
<1>0. TypeOK /\ DOMAIN docs \subseteq Ids
  BY DEF TypeInv, TypeOK
<1>1. ASSUME UNCHANGED <<docs, maker>>, SameLedger, NothingGone PROVE LedgerInv'
  BY <1>0, <1>1, LedgerUntouched
<1>2. ASSUME UNCHANGED writes PROVE SameLedger
  BY <1>2 DEF SameLedger
<1>3. ASSUME NEW d, NEW text, NEW meta, Edited(d, text, meta) PROVE LedgerInv'
  <2>1. DOMAIN docs' = DOMAIN docs /\ UNCHANGED <<writes, maker>> /\ NothingGone
    BY <1>0, <1>3, EditedFacts DEF Edited
  <2> QED BY <1>0, <1>2, <2>1, LedgerUntouched
<1>4. ASSUME NEW d \in Ids, Retire(d) PROVE LedgerInv'
  <2>1. d \in DOMAIN docs /\ Delete(d) /\ Record("retire", "retired", d) /\ UNCHANGED maker
    BY <1>4, RetireFacts DEF Readable
  <2>2. Gone(d)' /\ \A e \in Ids \ {d} : Gone(e)' <=> Gone(e)
    BY <2>1 DEF Record, Gone
  <2> QED BY <2>1, <2>2, LedgerRemoval
<1>5. ASSUME NEW x \in Ids, Discard(x) PROVE LedgerInv'
  <2>1. /\ InReview(x) /\ Delete(x) /\ UNCHANGED maker
        /\ audit' = audit \cup {<<"review", "candidate_deleted", x>>,
                                <<"review", "rejected", x>>}
    BY <1>5, DiscardFacts DEF InReview
  <2>2. x \in DOMAIN docs
    BY <2>1 DEF FlaggedInReview, Flagged
  <2>3. Gone(x)' /\ \A e \in Ids \ {x} : Gone(e)' <=> Gone(e)
    BY <2>1 DEF Gone
  <2> QED BY <2>1, <2>2, <2>3, LedgerRemoval
<1>6. ASSUME NEW x \in Ids, Publish(x), NothingGone PROVE LedgerInv'
  <2>1. DOMAIN docs' = DOMAIN docs /\ UNCHANGED <<writes, maker>>
    BY <1>6, PublishFacts
  <2> QED BY <1>0, <1>2, <1>6, <2>1, LedgerUntouched
<1>7. ASSUME NEW d, NEW pr, Promote(d, pr), NothingGone PROVE LedgerInv'
  <2>1. DOMAIN docs' = DOMAIN docs /\ UNCHANGED <<writes, maker>>
    BY <1>0, <1>7, PromoteFacts
  <2> QED BY <1>0, <1>2, <1>7, <2>1, LedgerUntouched
<1>8. ASSUME NEW c, NEW d, Contributes(c, d) PROVE LedgerInv'
  BY <1>0, <1>8, LedgerAddition
<1> QED BY <1>1, <1>2, <1>3, <1>4, <1>5, <1>6, <1>7, <1>8
        DEF Effect, Quiet, Replaces, Summarises, Reclassifies, Accepts, Closes, Propose, notes

(* The ledger of the imported notes.                                       *)
LEMMA InitLedger == Init => LedgerInv
<1> SUFFICES ASSUME Init PROVE LedgerInv
  OBVIOUS
<1>1. PICK id \in [Legacy -> Ids] : Init!(id)
  BY DEF Init
<1> DEFINE Of(d) == CHOOSE c \in Legacy : id[c] = d
           W(k) == CHOOSE e \in Legacy : Key(e) = k
           olds == {id[c] : c \in Legacy}
<1>2. /\ DOMAIN docs = olds /\ DOMAIN maker = olds /\ audit = {}
      /\ \A d \in olds : maker[d] = Key(Of(d))
  BY <1>1
<1>3. /\ DOMAIN writes = {Key(c) : c \in Legacy}
      /\ \A k \in DOMAIN writes : writes[k].doc = id[W(k)]
  BY <1>1
<1>4. \A d \in olds : Of(d) \in Legacy /\ id[Of(d)] = d
  OBVIOUS
<1>5. \A k \in DOMAIN writes : W(k) \in Legacy /\ Key(W(k)) = k /\ id[W(k)] \in olds
  BY <1>3
<1> HIDE DEF Of, W
<1>6. \A c, e \in Legacy : Key(c) = Key(e) => c = e
  BY CorpusAssumption
<1>7. OneNotePerKey
  <2>1. ASSUME NEW d \in olds, NEW e \in olds, maker[d] = maker[e] PROVE d = e
    BY <1>2, <1>4, <1>6, <2>1
  <2> QED BY <1>2, <2>1 DEF OneNotePerKey
<1>8. ASSUME NEW d \in olds PROVE maker[d] \in DOMAIN writes /\ writes[maker[d]].doc = d
  <2>1. maker[d] \in DOMAIN writes
    BY <1>2, <1>3, <1>4
  <2>2. W(maker[d]) = Of(d)
    BY <1>2, <1>4, <1>5, <1>6, <2>1
  <2> QED BY <1>3, <1>4, <2>1, <2>2
<1>9. LedgerNamesItsNote /\ MadeUnderItsKey
  BY <1>2, <1>3, <1>5, <1>8 DEF LedgerNamesItsNote, MadeUnderItsKey
<1>10. GoneIsAudited /\ GoneWereNotes
  BY <1>2 DEF GoneIsAudited, GoneWereNotes, Gone
<1> QED BY <1>7, <1>9, <1>10 DEF LedgerInv, LedgerOfNotes

(* What it says of bodies is inductive with two more: an uncomparable      *)
(* digest is an imported one, and only those are restated.                 *)
Replayed(c) == <<"contribute", "replayed", c>> \in audit
LegacyKeys == {Key(e) : e \in Legacy}
DigestInv ==
    /\ KeyAnswersOneBody
    /\ \A k \in DOMAIN writes : ~writes[k].current => k \in LegacyKeys
    /\ \A r \in Reqs : req[r].pc = "restate" =>
          Key(req[r].body) \in DOMAIN writes /\ Key(req[r].body) \in LegacyKeys

(* Only a restatement changes a digest; the rows a step adds have one that *)
(* can be compared, and it answers only a body its key was used for.       *)
DigestsStay ==
    /\ \A k \in DOMAIN writes : /\ k \in DOMAIN writes'
                                /\ writes'[k].digest = writes[k].digest
                                /\ writes'[k].current = writes[k].current
    /\ \A k \in DOMAIN writes' \ DOMAIN writes : writes'[k].current
    /\ \A c \in Contributions : Replayed(c)' =>
          \/ Replayed(c)
          \/ /\ Key(c) \in DOMAIN writes
             /\ writes[Key(c)].current /\ writes[Key(c)].digest = c

(* Only a replay that found such a digest goes on to restate it.           *)
RestatesBegin ==
    \A r \in Reqs :
        \/ req'[r] = req[r]
        \/ req'[r].pc # "restate"
        \/ /\ UNCHANGED writes /\ Key(req'[r].body) \in DOMAIN writes
           /\ ~writes[Key(req'[r].body)].current

LEMMA DigestSteps ==
    TypeInv /\ [Next]_vars => RestatesBegin /\ (DigestsStay \/ \E r \in Reqs : Restate(r))
<1> DEFINE Goal == RestatesBegin /\ (DigestsStay \/ \E r \in Reqs : Restate(r))
<1> SUFFICES ASSUME TypeInv, [Next]_vars PROVE Goal
  OBVIOUS
<1>0. TypeOK /\ req \in [Reqs -> Request]
  BY DEF TypeInv, TypeOK
<1>1. ASSUME NEW r \in Reqs, NEW q, Goto(r, q),
             \/ q.pc # "restate"
             \/ /\ UNCHANGED writes /\ Key(q.body) \in DOMAIN writes
                /\ ~writes[Key(q.body)].current
      PROVE  RestatesBegin
  <2>1. req'[r] = q /\ \A s \in Reqs : s # r => req'[s] = req[s]
    BY <1>0, <1>1 DEF Goto
  <2> QED BY <1>1, <2>1 DEF RestatesBegin
<1>2. ASSUME UNCHANGED req PROVE RestatesBegin
  BY <1>2 DEF RestatesBegin
<1>3. ASSUME NEW r \in Reqs, Finish(r) PROVE RestatesBegin
  BY <1>1, <1>3 DEF Finish, Idle
<1>4. ASSUME UNCHANGED writes, \A c \in Contributions : Replayed(c)' => Replayed(c)
      PROVE  DigestsStay
  BY <1>4 DEF DigestsStay
<1>5. ASSUME UNCHANGED corpus PROVE DigestsStay
  BY <1>4, <1>5 DEF corpus, Replayed
<1>6. ASSUME NEW op, NEW outcome, NEW target, Record(op, outcome, target),
             op # "contribute" \/ outcome # "replayed"
      PROVE  \A c \in Contributions : Replayed(c)' => Replayed(c)
  BY <1>6 DEF Record, Replayed
<1>7. ASSUME NEW r \in Reqs, NEW c \in Contributions, Key(c) \in DOMAIN writes, Replay(r, c)
      PROVE  Goal
  <2>1. UNCHANGED writes
    BY <1>7, ReplayFacts
  <2>2. \/ UNCHANGED audit
        \/ /\ Record("contribute", "replayed", c)
           /\ writes[Key(c)].current /\ writes[Key(c)].digest = c
    BY <1>7, ReplayFacts
  <2>3. DigestsStay
    BY <1>7, <2>1, <2>2 DEF DigestsStay, Replayed, Record
  <2>4. \/ Finish(r)
        \/ Goto(r, [pc |-> "conflict", key |-> Key(c)])
        \/ Goto(r, [pc |-> "restate", body |-> c]) /\ ~writes[Key(c)].current
    BY <1>7, ReplayFacts
  <2>5. RestatesBegin
    BY <1>1, <1>3, <1>7, <2>1, <2>4
  <2> QED BY <2>3, <2>5
<1>8. ASSUME NEW r \in Reqs, NEW c \in Contributions, NEW d, NEW status, Finish(r),
             Key(c) \notin DOMAIN writes, Store(c, d, status), status # "replayed"
      PROVE  Goal
  <2> DEFINE row == [digest |-> c, current |-> TRUE, doc |-> d,
                     state |-> IF status = "active" THEN "inserted" ELSE "flagged"]
  <2>1. writes' = With(writes, Key(c), row) /\ row.current
    BY <1>8 DEF Store
  <2> HIDE DEF row
  <2>2. /\ DOMAIN writes' = DOMAIN writes \cup {Key(c)} /\ writes'[Key(c)].current
        /\ \A k \in DOMAIN writes : writes'[k] = writes[k]
    BY <1>8, <2>1 DEF With
  <2>3. \A e \in Contributions : Replayed(e)' => Replayed(e)
    BY <1>6, <1>8 DEF Store
  <2>4. DigestsStay
    BY <2>2, <2>3 DEF DigestsStay
  <2> QED BY <1>3, <1>8, <2>4
<1>9. ASSUME NEW d, Delete(d) PROVE /\ DOMAIN writes' = DOMAIN writes
                                   /\ \A k \in DOMAIN writes :
                                         /\ writes'[k].digest = writes[k].digest
                                         /\ writes'[k].current = writes[k].current
  BY <1>0, <1>9 DEF Delete, TypeOK, Write
<1>10. CASE UNCHANGED vars
  BY <1>2, <1>5, <1>10 DEF vars, corpus
<1>11. ASSUME NEW r \in Reqs, NEW c \in Contributions, Contribute(r, c) PROVE Goal
  <2>1. CASE Key(c) \in DOMAIN writes /\ Replay(r, c)
    BY <1>7, <2>1
  <2>2. CASE Goto(r, [pc |-> "contribute", body |-> c]) /\ UNCHANGED corpus
    BY <1>1, <1>5, <2>2
  <2> QED BY <1>11, <2>1, <2>2 DEF Contribute
<1>12. ASSUME NEW r \in Reqs, NEW d \in Ids, SettleContribution(r, d) PROVE Goal
  <2> DEFINE c == req[r].body
  <2>1. c \in Contributions
    BY <1>0, <1>12, RequestFields DEF SettleContribution
  <2>2. CASE ~Unsettled(Key(c)) /\ Replay(r, c)
    <3> HIDE DEF c, Goal
    <3> QED BY <1>7, <2>1, <2>2 DEF Unsettled
  <2>3. CASE /\ Unsettled(Key(c)) /\ Finish(r)
             /\ \E status \in {"active", "flagged"} : Store(c, d, status)
    <3> HIDE DEF c, Goal
    <3> QED BY <1>8, <2>1, <2>3 DEF Unsettled
  <2> QED BY <1>12, <2>2, <2>3 DEF SettleContribution
<1>13. ASSUME NEW r \in Reqs,
              \/ \E d \in Ids, e \in Replacements : Update(r, d, e)
              \/ \E d \in Ids, s \in Additions, a \in Authors : SetSummary(r, d, s, a)
              \/ \E p \in ProposalIds : Accept(r, p)
       PROVE  Goal
  <2>1. UNCHANGED corpus /\ \E q : Goto(r, q) /\ q.pc # "restate"
    <3>1. CASE \E d \in Ids, e \in Replacements : Update(r, d, e)
      BY <3>1 DEF Update
    <3>2. CASE \E d \in Ids, s \in Additions, a \in Authors : SetSummary(r, d, s, a)
      BY <3>2 DEF SetSummary
    <3>3. CASE \E p \in ProposalIds : Accept(r, p)
      BY <3>3 DEF Accept
    <3> QED BY <1>13, <3>1, <3>2, <3>3
  <2> QED BY <1>1, <1>5, <2>1
<1>14. ASSUME NEW r \in Reqs,
              \/ RecordConflict(r) \/ SettleUpdate(r) \/ SettleSummary(r)
              \/ SettleStale(r) \/ SettleAcceptance(r) \/ Lose(r)
       PROVE  Goal
  <2>1. Finish(r)
    BY <1>14 DEF RecordConflict, SettleUpdate, SettleSummary, SettleStale,
                 SettleAcceptance, Lose
  <2>2. \/ UNCHANGED corpus
        \/ /\ UNCHANGED writes
           /\ \E op, outcome, target :
                 /\ Record(op, outcome, target)
                 /\ op # "contribute" \/ outcome # "replayed"
    BY <1>14 DEF RecordConflict, SettleUpdate, SettleSummary, SettleStale,
                 SettleAcceptance, MarkStale, Lose
  <2> QED BY <1>3, <1>4, <1>5, <1>6, <2>1, <2>2
<1>15. ASSUME \/ \E d \in Ids, m \in NewMetas : UpdateMetadata(d, m)
              \/ \E p \in ProposalIds, d \in Ids, ch \in Changes : Propose(p, d, ch)
              \/ \E d \in Ids, pr \in Promotions : Promote(d, pr)
              \/ \E d \in Ids : Publish(d)
              \/ \E p \in ProposalIds : Reject(p)
       PROVE  Goal
  <2>1. /\ UNCHANGED <<writes, req>>
        /\ \E op, outcome, target :
              /\ Record(op, outcome, target)
              /\ op # "contribute" \/ outcome # "replayed"
    <3>1. CASE \E d \in Ids, m \in NewMetas : UpdateMetadata(d, m)
      BY <3>1 DEF UpdateMetadata
    <3>2. CASE \E p \in ProposalIds, d \in Ids, ch \in Changes : Propose(p, d, ch)
      BY <3>2 DEF Propose
    <3>3. CASE \E d \in Ids, pr \in Promotions : Promote(d, pr)
      BY <3>3 DEF Promote
    <3>4. CASE \E d \in Ids : Publish(d)
      BY <3>4 DEF Publish
    <3>5. CASE \E p \in ProposalIds : Reject(p)
      BY <3>5 DEF Reject
    <3> QED BY <1>15, <3>1, <3>2, <3>3, <3>4, <3>5
  <2> QED BY <1>2, <1>4, <1>6, <2>1
<1>16. ASSUME NEW d \in Ids, Retire(d) \/ Discard(d) PROVE Goal
  <2>1. UNCHANGED req /\ \E e : Delete(e)
    BY <1>16 DEF Retire, Discard
  <2>2. \A c \in Contributions : Replayed(c)' => Replayed(c)
    BY <1>16 DEF Retire, Discard, Record, Replayed
  <2> QED BY <1>2, <1>9, <2>1, <2>2 DEF DigestsStay
<1>17. ASSUME NEW r \in Reqs, Restate(r) PROVE Goal
  BY <1>0, <1>3, <1>17, RestateFacts
<1> HIDE DEF Goal
<1> QED BY <1>10, <1>11, <1>12, <1>13, <1>14, <1>15, <1>16, <1>17 DEF Next

LEMMA DigestsAgree == TypeInv /\ DigestInv /\ [Next]_vars => DigestInv'
<1> SUFFICES ASSUME TypeInv, DigestInv, [Next]_vars PROVE DigestInv'
  OBVIOUS
<1>0. TypeOK /\ RestatesBegin /\ (DigestsStay \/ \E r \in Reqs : Restate(r))
  BY DigestSteps DEF TypeInv
<1>1. DOMAIN writes \subseteq DOMAIN writes'
  BY <1>0, RestateFacts DEF DigestsStay
<1>2. ASSUME NEW r \in Reqs, req'[r].pc = "restate"
      PROVE  Key(req'[r].body) \in DOMAIN writes' /\ Key(req'[r].body) \in LegacyKeys
  BY <1>0, <1>1, <1>2 DEF RestatesBegin, DigestInv
<1>3. CASE DigestsStay
  <2>1. \A k \in DOMAIN writes' : ~writes'[k].current => k \in LegacyKeys
    BY <1>3 DEF DigestsStay, DigestInv
  <2>2. ASSUME NEW c \in Contributions, Replayed(c)'
        PROVE  /\ Key(c) \in DOMAIN writes' /\ writes'[Key(c)].current
               /\ Key(c) \notin LegacyKeys => writes'[Key(c)].digest = c
    BY <1>3, <2>2 DEF DigestsStay, DigestInv, KeyAnswersOneBody, Replayed, LegacyKeys
  <2>3. KeyAnswersOneBody'
    BY <2>2 DEF KeyAnswersOneBody, Replayed, LegacyKeys
  <2> QED BY <1>2, <2>1, <2>3 DEF DigestInv, LegacyKeys
<1>4. ASSUME NEW r \in Reqs, Restate(r) PROVE DigestInv'
  <2> DEFINE e == req[r].body
  <2>1. /\ Key(e) \in DOMAIN writes /\ Key(e) \in LegacyKeys
        /\ Record("contribute", "replayed", e) /\ DOMAIN writes' = DOMAIN writes
        /\ writes'[Key(e)].current
        /\ \A k \in DOMAIN writes : k # Key(e) => writes'[k] = writes[k]
    BY <1>0, <1>4, RestateFacts DEF DigestInv, Restate
  <2> HIDE DEF e
  <2>2. \A k \in DOMAIN writes' : ~writes'[k].current => k \in LegacyKeys
    BY <2>1 DEF DigestInv
  <2>3. ASSUME NEW c \in Contributions, Replayed(c)'
        PROVE  /\ Key(c) \in DOMAIN writes' /\ writes'[Key(c)].current
               /\ Key(c) \notin LegacyKeys => writes'[Key(c)].digest = c
    <3>1. Replayed(c) \/ c = e
      BY <2>1, <2>3 DEF Replayed, Record
    <3> QED BY <2>1, <3>1 DEF DigestInv, KeyAnswersOneBody, Replayed, LegacyKeys
  <2>4. KeyAnswersOneBody'
    BY <2>3 DEF KeyAnswersOneBody, Replayed, LegacyKeys
  <2> QED BY <1>2, <2>2, <2>4 DEF DigestInv, LegacyKeys
<1> QED BY <1>0, <1>3, <1>4

LEMMA InitDigests == Init => DigestInv
<1> SUFFICES ASSUME Init PROVE DigestInv
  OBVIOUS
<1>1. PICK id \in [Legacy -> Ids] : Init!(id)
  BY DEF Init
<1>2. DOMAIN writes = LegacyKeys /\ audit = {} /\ req = [r \in Reqs |-> Idle]
  BY <1>1 DEF LegacyKeys
<1> QED BY <1>2 DEF DigestInv, KeyAnswersOneBody, Idle

(* LedgerIsTrue, which CorpusWrites checks: a key makes one note however   *)
(* often it is retried and answers one body, the ledger names the note for *)
(* as long as there is one, and it is gone exactly when an event says why. *)
THEOREM LedgerAlwaysTrue == Spec => []LedgerIsTrue
<1> DEFINE G == FlaggedInReview /\ CasesAreOfNotes /\ LedgerInv /\ DigestInv
<1>1. Init => G
  BY InitGate, InitLedger, InitDigests
<1>2. Inv /\ NamesPublished /\ G /\ [Next]_vars => G'
  <2> SUFFICES ASSUME Inv, NamesPublished, G, [Next]_vars PROVE G'
    OBVIOUS
  <2>1. Effect /\ TypeInv
    BY Effects DEF Inv
  <2> QED BY <2>1, FlaggedStay, LedgerStays, DigestsAgree
<1>3. G => LedgerIsTrue
  BY DEF LedgerInv, LedgerOfNotes, DigestInv, LedgerIsTrue
<1> HIDE DEF G
<1> QED BY <1>1, <1>2, <1>3, WorkingInvariance, PTL DEF Spec

-----------------------------------------------------------------------------
(* 8. The abstract corpus.                                                 *)
(*                                                                         *)
(* VaultCorpus implements GovernedCorpus: each effect of section 5 is one  *)
(* of its actions or changes nothing it has.  Shown and Drafts are what    *)
(* Serial puts for its notes and proposals.                                *)

Shown == [d \in DOMAIN docs |-> [live |-> docs[d].status = "active", by |-> docs[d].by,
                                 text |-> docs[d].text, meta |-> docs[d].meta]]
Drafts == [p \in DOMAIN proposals |->
              [doc |-> proposals[p].doc, base |-> proposals[p].seen,
               change |-> proposals[p].change, state |-> proposals[p].state]]
Held(text, d) == \E x \in DOMAIN Shown \ {d} : Shown[x].live /\ Shown[x].text = text

SameIds == DOMAIN maker' = DOMAIN maker /\ DOMAIN writes' = DOMAIN writes
Sets(d, text, meta) ==
    /\ d \in DOMAIN Shown /\ Shown[d].live
    /\ Shown' = [Shown EXCEPT ![d].text = text, ![d].meta = meta]
    /\ SameIds

(* The actions of GovernedCorpus, in these terms.                          *)
LEMMA SerialStutter ==
    ASSUME Shown' = Shown, Drafts' = Drafts, SameIds
    PROVE  UNCHANGED Serial!vars
BY DEF Serial!vars, Shown, Drafts, SameIds

LEMMA SerialSets ==
    ASSUME NEW d, NEW text, NEW meta, Sets(d, text, meta)
    PROVE  Serial!SetContent(d, text, meta)
BY DEF Serial!SetContent, Sets, SameIds, Shown

LEMMA SerialTaken == \A d, text : Held(text, d) <=> Serial!Taken(text, d)
BY DEF Serial!Taken, Held, Shown

LEMMA SerialContributes ==
    ASSUME NEW d \in Ids, NEW k \in Authors \X Keys, NEW text \in Texts, NEW meta \in Metas,
           d \notin DOMAIN maker, k \notin DOMAIN writes,
           DOMAIN maker' = DOMAIN maker \cup {d}, DOMAIN writes' = DOMAIN writes \cup {k},
           Shown' = [z \in DOMAIN Shown \cup {d} |->
                        IF z = d THEN [live |-> ~Held(text, d), text |-> text, meta |-> meta,
                                       by |-> k[1]]
                                 ELSE Shown[z]],
           Drafts' = Drafts
    PROVE  Serial!Next
<1>1. Serial!Contribute(d, k, text, meta, k[1])
  BY DEF Serial!Contribute, Serial!Put, Serial!Taken, Held, Shown, Drafts
<1> QED BY <1>1 DEF Serial!Next

LEMMA SerialReplaces ==
    ASSUME NEW d \in Ids, NEW text \in Texts, NEW meta \in Metas, Sets(d, text, meta),
           ~Held(text, d), Drafts' = Drafts
    PROVE  Serial!Next
<1>1. Serial!SetContent(d, text, meta) /\ ~Serial!Taken(text, d)
  BY SerialSets, SerialTaken
<1>2. Serial!Replace(d, text, meta)
  BY <1>1 DEF Serial!Replace, Drafts
<1> QED BY <1>2 DEF Serial!Next

LEMMA SerialSummarises ==
    ASSUME NEW d \in Ids, NEW s \in Summaries, NEW text, NEW meta,
           Shown[d].text.summary = NoSummary, meta = Shown[d].meta,
           text = [Shown[d].text EXCEPT !.summary = s], Sets(d, text, meta),
           ~Held(text, d), Drafts' = Drafts
    PROVE  Serial!Next
<1>1. Serial!SetContent(d, text, meta) /\ ~Serial!Taken(text, d)
  BY SerialSets, SerialTaken
<1>2. LET t == [Shown[d].text EXCEPT !.summary = s]
      IN Serial!SetContent(d, t, Shown[d].meta) /\ ~Serial!Taken(t, d)
  <2> DEFINE t == [Shown[d].text EXCEPT !.summary = s]
             m == Shown[d].meta
  <2>1. t = text /\ m = meta
    OBVIOUS
  <2> HIDE DEF t, m
  <2>2. Serial!SetContent(d, t, m)
    BY <2>1 DEF Serial!SetContent, Sets, SameIds, Shown
  <2>3. ~Serial!Taken(t, d)
    BY <1>1, <2>1
  <2> QED BY <2>2, <2>3 DEF t, m
<1>3. Serial!AddSummary(d, s)
  BY <1>2 DEF Serial!AddSummary, Drafts, Shown
<1> QED BY <1>3 DEF Serial!Next

LEMMA SerialReclassifies ==
    ASSUME NEW d \in Ids, NEW meta \in Metas, NEW text, text = Shown[d].text,
           Sets(d, text, meta), Drafts' = Drafts
    PROVE  Serial!Next
<1>1. Serial!SetContent(d, text, meta)
  BY SerialSets
<1>2. Serial!Reclassify(d, meta)
  BY <1>1 DEF Serial!Reclassify, Drafts, Shown
<1> QED BY <1>2 DEF Serial!Next

LEMMA SerialProposes ==
    ASSUME NEW p \in ProposalIds, NEW d \in Ids, NEW ch \in Changes,
           p \notin DOMAIN Drafts, d \in DOMAIN Shown, Shown[d].live,
           Drafts' = [z \in DOMAIN Drafts \cup {p} |->
                         IF z = p THEN [doc |-> d, base |-> <<Shown[d].text, Shown[d].meta>>,
                                        change |-> ch, state |-> "pending"]
                                  ELSE Drafts[z]],
           Shown' = Shown, SameIds
    PROVE  Serial!Next
<1>1. Serial!Propose(p, d, ch)
  BY DEF Serial!Propose, Serial!Put, Serial!Base, Shown, Drafts, SameIds
<1> QED BY <1>1 DEF Serial!Next

LEMMA SerialAccepts ==
    ASSUME NEW p \in ProposalIds, p \in DOMAIN Drafts, Drafts[p].state = "pending",
           LET d == Drafts[p].doc
               new == Amended(Shown[d], Drafts[p].change)
           IN /\ d \in DOMAIN Shown /\ <<Shown[d].text, Shown[d].meta>> = Drafts[p].base
              /\ Sets(d, new.text, new.meta)
              /\ new.text # Shown[d].text => ~Held(new.text, d),
           Drafts' = [Drafts EXCEPT ![p].state = "accepted"]
    PROVE  Serial!Next
<1>1. LET d == Drafts[p].doc
          new == Amended(Shown[d], Drafts[p].change)
      IN /\ d \in DOMAIN Shown
         /\ Serial!Base(d) = Drafts[p].base
         /\ Serial!SetContent(d, new.text, new.meta)
         /\ new.text # Shown[d].text => ~Serial!Taken(new.text, d)
  <2> DEFINE d == Drafts[p].doc
             new == Amended(Shown[d], Drafts[p].change)
  <2>1. /\ d \in DOMAIN Shown /\ <<Shown[d].text, Shown[d].meta>> = Drafts[p].base
        /\ Sets(d, new.text, new.meta) /\ (new.text # Shown[d].text => ~Held(new.text, d))
    OBVIOUS
  <2>2. Serial!Base(d) = <<Shown[d].text, Shown[d].meta>>
    BY DEF Serial!Base, Shown
  <2> HIDE DEF d, new
  <2>3. Serial!SetContent(d, new.text, new.meta)
    BY <2>1 DEF Serial!SetContent, Sets, SameIds, Shown
  <2>4. Held(new.text, d) <=> Serial!Taken(new.text, d)
    BY SerialTaken
  <2>5. /\ d \in DOMAIN Shown /\ Serial!Base(d) = Drafts[p].base
        /\ Serial!SetContent(d, new.text, new.meta)
        /\ new.text # Shown[d].text => ~Serial!Taken(new.text, d)
    BY <2>1, <2>2, <2>3, <2>4
  <2> QED BY <2>5 DEF d, new
<1>2. Serial!Accept(p)
  BY <1>1 DEF Serial!Accept, Shown, Drafts
<1> QED BY <1>2 DEF Serial!Next

LEMMA SerialCloses ==
    ASSUME NEW p \in ProposalIds, p \in DOMAIN Drafts, Drafts[p].state = "pending",
           NEW s \in {"rejected", "stale"}, Drafts' = [Drafts EXCEPT ![p].state = s],
           Shown' = Shown, SameIds
    PROVE  Serial!Next
<1>1. Serial!Close(p, s)
  BY DEF Serial!Close, Shown, Drafts, SameIds
<1> QED BY <1>1 DEF Serial!Next

LEMMA SerialEndorses ==
    ASSUME NEW d \in Ids, d \in DOMAIN Shown, ~Shown[d].live,
           Shown' = [Shown EXCEPT ![d].live = TRUE], Drafts' = Drafts, SameIds
    PROVE  Serial!Next
<1>1. Serial!Endorse(d)
  BY DEF Serial!Endorse, Shown, Drafts, SameIds
<1> QED BY <1>1 DEF Serial!Next

LEMMA SerialRemoves ==
    ASSUME NEW d \in Ids, d \in DOMAIN Shown,
           Shown' = [x \in DOMAIN Shown \ {d} |-> Shown[x]], Drafts' = Drafts, SameIds
    PROVE  Serial!Next
<1>1. Serial!Remove(d)
  BY DEF Serial!Remove, Serial!Drop, Shown, Drafts, SameIds
<1> QED BY <1>1 DEF Serial!Next

(* What a step shows.                                                      *)
LEMMA HeldMeans ==
    ASSUME EmbeddingMatchesText, NEW text, NEW d
    PROVE  Held(text, d) <=> Matches(text, d) # {}
<1>1. Matches(text, d) = {e \in Readable \ {d} : docs[e].text = text}
  BY MatchesMeans
<1>2. Held(text, d) <=> \E x \in DOMAIN docs \ {d} : docs[x].status = "active" /\ docs[x].text = text
  BY DEF Held, Shown
<1> QED BY <1>1, <1>2 DEF Readable

LEMMA DraftsSame == UNCHANGED proposals => Drafts' = Drafts
BY DEF Drafts

LEMMA ShownSame ==
    ASSUME DOMAIN docs' = DOMAIN docs,
           \A e \in DOMAIN docs : /\ docs'[e].status = docs[e].status
                                  /\ docs'[e].text = docs[e].text
                                  /\ docs'[e].meta = docs[e].meta
                                  /\ docs'[e].by = docs[e].by
    PROVE  Shown' = Shown
BY DEF Shown

LEMMA EditedSets ==
    ASSUME TypeOK, NEW d, NEW text, NEW meta, Edited(d, text, meta)
    PROVE  Sets(d, text, meta) /\ Shown[d].text = docs[d].text /\ Shown[d].meta = docs[d].meta
<1>1. /\ d \in DOMAIN docs /\ docs[d].status = "active" /\ DOMAIN docs' = DOMAIN docs
      /\ docs'[d].text = text /\ docs'[d].meta = meta
      /\ docs'[d].status = "active" /\ docs'[d].by = docs[d].by
      /\ \A e \in DOMAIN docs \ {d} : docs'[e] = docs[e]
      /\ SameIds
  BY EditedFacts DEF SameIds
<1>2. /\ d \in DOMAIN Shown /\ Shown[d].live
      /\ Shown[d].text = docs[d].text /\ Shown[d].meta = docs[d].meta
  BY <1>1 DEF Shown
<1>3. Shown' = [Shown EXCEPT ![d].text = text, ![d].meta = meta]
  BY <1>1 DEF Shown
<1> QED BY <1>1, <1>2, <1>3 DEF Sets

LEMMA DecideDrafts ==
    ASSUME TypeOK, NEW p \in DOMAIN proposals, NEW state, NEW applied, Decide(p, state, applied)
    PROVE  Drafts' = [Drafts EXCEPT ![p].state = state]
<1> DEFINE row == [proposals[p] EXCEPT !.state = state, !.applied = applied]
<1>1. proposals[p] \in Proposal /\ proposals' = [proposals EXCEPT ![p] = row]
  BY DEF Decide, TypeOK
<1>2. /\ row.doc = proposals[p].doc /\ row.seen = proposals[p].seen
      /\ row.change = proposals[p].change /\ row.state = state
  BY <1>1 DEF Proposal
<1> HIDE DEF row
<1>3. /\ DOMAIN proposals' = DOMAIN proposals /\ proposals'[p] = row
      /\ \A q \in DOMAIN proposals \ {p} : proposals'[q] = proposals[q]
  BY <1>1 DEF TypeOK
<1> QED BY <1>2, <1>3 DEF Drafts

(* Each effect is a step of the abstract corpus, or none.                  *)
LEMMA EffectIsSerial ==
    ASSUME Inv, FlaggedInReview, Effect
    PROVE  Serial!Next \/ UNCHANGED Serial!vars
<1> DEFINE Goal == Serial!Next \/ UNCHANGED Serial!vars
<1> SUFFICES Goal
  OBVIOUS
<1>0. /\ TypeInv /\ TypeOK /\ EmbeddingMatchesText
      /\ DOMAIN docs \subseteq Ids /\ DOMAIN proposals \subseteq ProposalIds
      /\ \A d \in DOMAIN docs : docs[d] \in Row
      /\ \A d \in DOMAIN docs : /\ d \in DOMAIN Shown /\ (Shown[d].live <=> docs[d].status = "active")
                                /\ Shown[d].text = docs[d].text /\ Shown[d].meta = docs[d].meta
      /\ DOMAIN Shown = DOMAIN docs /\ DOMAIN Drafts = DOMAIN proposals
  BY DEF Inv, TypeInv, TypeOK, Shown, Drafts
<1>1. ASSUME Quiet PROVE Goal
  <2>1. Shown' = Shown /\ Drafts' = Drafts /\ SameIds
    BY <1>1 DEF Quiet, SameLedger, SameIds, Shown, Drafts
  <2> QED BY <2>1, SerialStutter
<1>2. ASSUME NEW c, NEW d, Contributes(c, d) PROVE Goal
  <2>1. c \in Contributions /\ d \in Ids /\ d \notin DOMAIN maker /\ Key(c) \notin DOMAIN writes
    BY <1>2 DEF Contributes
  <2>2. /\ Key(c) \in Authors \X Keys /\ c.text \in Texts /\ c.meta \in Metas /\ Key(c)[1] = c.by
    BY <2>1, ContributionFields DEF Key
  <2>3. /\ d \notin DOMAIN docs /\ DOMAIN docs' = DOMAIN docs \cup {d}
        /\ docs'[d].status = IF Matches(c.text, NoDoc) = {} THEN "active" ELSE "flagged"
        /\ docs'[d].text = c.text /\ docs'[d].meta = c.meta /\ docs'[d].by = c.by
        /\ \A e \in DOMAIN docs : docs'[e] = docs[e]
        /\ DOMAIN maker' = DOMAIN maker \cup {d}
        /\ DOMAIN writes' = DOMAIN writes \cup {Key(c)}
        /\ UNCHANGED proposals
    BY <1>0, <1>2, ContributesFacts
  <2>4. Matches(c.text, d) = Matches(c.text, NoDoc)
    <3>1. /\ Matches(c.text, d) = {e \in Readable \ {d} : docs[e].text = c.text}
          /\ Matches(c.text, NoDoc) = {e \in Readable \ {NoDoc} : docs[e].text = c.text}
      BY <1>0, MatchesMeans
    <3>2. d \notin Readable /\ NoDoc \notin Readable
      BY <1>0, <2>3, CorpusAssumption DEF Readable
    <3> QED BY <3>1, <3>2
  <2>5. Held(c.text, d) <=> Matches(c.text, NoDoc) # {}
    BY <1>0, <2>4, HeldMeans
  <2>6. Shown' = [z \in DOMAIN Shown \cup {d} |->
                     IF z = d THEN [live |-> ~Held(c.text, d), text |-> c.text, meta |-> c.meta,
                                    by |-> Key(c)[1]]
                              ELSE Shown[z]]
    <3>1. \A e \in DOMAIN docs : /\ Shown'[e] = Shown[e] /\ e # d
      BY <2>3 DEF Shown
    <3>2. CASE Held(c.text, d)
      <4>1. Shown'[d] = [live |-> FALSE, by |-> c.by, text |-> c.text, meta |-> c.meta]
        BY <2>3, <2>5, <3>2 DEF Shown
      <4>2. DOMAIN Shown' = DOMAIN Shown \cup {d} /\ Shown' = [z \in DOMAIN Shown' |-> Shown'[z]]
        BY <1>0, <2>3 DEF Shown
      <4> QED BY <1>0, <2>2, <3>1, <3>2, <4>1, <4>2
    <3>3. CASE ~Held(c.text, d)
      <4>1. Shown'[d] = [live |-> TRUE, by |-> c.by, text |-> c.text, meta |-> c.meta]
        BY <2>3, <2>5, <3>3 DEF Shown
      <4>2. DOMAIN Shown' = DOMAIN Shown \cup {d} /\ Shown' = [z \in DOMAIN Shown' |-> Shown'[z]]
        BY <1>0, <2>3 DEF Shown
      <4> QED BY <1>0, <2>2, <3>1, <3>3, <4>1, <4>2
    <3> QED BY <3>2, <3>3
  <2>7. Drafts' = Drafts
    BY <2>3, DraftsSame
  <2> QED BY <2>1, <2>2, <2>3, <2>6, <2>7, SerialContributes
<1>3. ASSUME NEW d, NEW e, Replaces(d, e) PROVE Goal
  <2>1. /\ Edited(d, e.text, e.meta) /\ Matches(e.text, d) = {} /\ UNCHANGED proposals
        /\ e.text \in Texts /\ e.meta \in Metas
    BY <1>3, CorpusAssumption DEF Replaces, Contents
  <2>2. Sets(d, e.text, e.meta) /\ d \in Ids
    BY <1>0, <2>1, EditedSets DEF Edited, Readable
  <2>3. ~Held(e.text, d) /\ Drafts' = Drafts
    BY <1>0, <2>1, HeldMeans, DraftsSame
  <2> QED BY <2>1, <2>2, <2>3, SerialReplaces
<1>4. ASSUME NEW d, NEW s, Summarises(d, s) PROVE Goal
  <2>1. PICK text, meta : text = Summarised(docs[d].text, s) /\ meta = docs[d].meta
    OBVIOUS
  <2>2. /\ Edited(d, text, meta) /\ Matches(text, d) = {} /\ UNCHANGED proposals
        /\ s \in Summaries /\ docs[d].text.summary = NoSummary
    BY <1>4, <2>1 DEF Summarises
  <2>3. Sets(d, text, meta) /\ d \in Ids /\ Shown[d].text = docs[d].text /\ Shown[d].meta = docs[d].meta
    BY <1>0, <2>2, EditedSets DEF Edited, Readable
  <2>4. ~Held(text, d) /\ Drafts' = Drafts
    BY <1>0, <2>2, HeldMeans, DraftsSame
  <2>5. text = [Shown[d].text EXCEPT !.summary = s]
    BY <2>1, <2>3 DEF Summarised
  <2> QED BY <2>1, <2>2, <2>3, <2>4, <2>5, SerialSummarises
<1>5. ASSUME NEW d, NEW m, Reclassifies(d, m) PROVE Goal
  <2>1. PICK text : text = docs[d].text
    OBVIOUS
  <2>2. Edited(d, text, m) /\ UNCHANGED proposals /\ m \in Metas
    BY <1>5, <2>1, CorpusAssumption DEF Reclassifies
  <2>3. Sets(d, text, m) /\ d \in Ids /\ Shown[d].text = docs[d].text
    BY <1>0, <2>2, EditedSets DEF Edited, Readable
  <2> QED BY <2>1, <2>2, <2>3, DraftsSame, SerialReclassifies
<1>6. ASSUME NEW p, Accepts(p) PROVE Goal
  <2>1. PICK d, e : d = proposals[p].doc /\ e = Amended(docs[d], proposals[p].change)
    OBVIOUS
  <2>2. /\ p \in DOMAIN proposals /\ proposals[p].state = "pending" /\ OnBase(p)
        /\ Edited(d, e.text, e.meta)
        /\ Decide(p, "accepted", docs'[d].rev)
    BY <1>6, <2>1 DEF Accepts, Pending
  <2>3. /\ Sets(d, e.text, e.meta) /\ d \in DOMAIN docs
        /\ Shown[d].text = docs[d].text /\ Shown[d].meta = docs[d].meta
    BY <1>0, <2>2, EditedSets DEF Edited, Readable
  <2>4. e.text # docs[d].text => ~Held(e.text, d)
    BY <1>0, <2>2, HeldMeans DEF Edited
  <2>5. Drafts' = [Drafts EXCEPT ![p].state = "accepted"]
    BY <1>0, <2>2, DecideDrafts
  <2>6. /\ p \in DOMAIN Drafts /\ Drafts[p].state = "pending" /\ Drafts[p].doc = d
        /\ Drafts[p].base = proposals[p].seen /\ Drafts[p].change = proposals[p].change
    BY <2>1, <2>2 DEF Drafts
  <2>7. proposals[p].seen = <<docs[d].text, docs[d].meta>>
    BY <2>1, <2>2, <2>3 DEF Inv, ProposalsOnBase, OnBase, AtRevision
  <2>8. e = Amended(Shown[d], Drafts[p].change)
    BY <2>1, <2>3, <2>6 DEF Amended
  <2>9. p \in ProposalIds
    BY <1>0, <2>2
  <2>10. LET dd == Drafts[p].doc
             new == Amended(Shown[dd], Drafts[p].change)
         IN /\ dd \in DOMAIN Shown /\ <<Shown[dd].text, Shown[dd].meta>> = Drafts[p].base
            /\ Sets(dd, new.text, new.meta)
            /\ new.text # Shown[dd].text => ~Held(new.text, dd)
    BY <1>0, <2>3, <2>4, <2>6, <2>7, <2>8
  <2> QED BY <2>5, <2>6, <2>9, <2>10, SerialAccepts
<1>7. ASSUME NEW p, NEW s, Closes(p, s) PROVE Goal
  <2>1. p \in DOMAIN proposals /\ proposals[p].state = "pending" /\ s \in {"rejected", "stale"}
    BY <1>7 DEF Closes, Pending
  <2>2. Drafts' = [Drafts EXCEPT ![p].state = s]
    BY <1>0, <1>7, <2>1, DecideDrafts DEF Closes
  <2>3. Shown' = Shown /\ SameIds
    BY <1>7 DEF Closes, notes, Shown, SameIds
  <2>4. p \in ProposalIds /\ p \in DOMAIN Drafts /\ Drafts[p].state = "pending"
    BY <1>0, <2>1 DEF Drafts
  <2> QED BY <2>1, <2>2, <2>3, <2>4, SerialCloses
<1>8. ASSUME NEW p \in ProposalIds, NEW d \in Ids, NEW ch \in Changes, Propose(p, d, ch)
      PROVE  Goal
  <2> DEFINE row == [doc |-> d, rev |-> docs[d].rev, change |-> ch, state |-> "pending",
                     applied |-> 0, seen |-> <<docs[d].text, docs[d].meta>>]
  <2>1. /\ d \in DOMAIN docs /\ docs[d].status = "active" /\ p \notin DOMAIN proposals
        /\ proposals' = With(proposals, p, row) /\ UNCHANGED <<docs, maker, writes>>
    BY <1>8 DEF Propose, notes, Readable
  <2>2. /\ DOMAIN proposals' = DOMAIN proposals \cup {p} /\ proposals'[p] = row
        /\ \A q \in DOMAIN proposals : proposals'[q] = proposals[q]
    BY <2>1 DEF With
  <2>3. Shown' = Shown /\ SameIds
    BY <2>1 DEF Shown, SameIds
  <2>4. Drafts' = [z \in DOMAIN Drafts \cup {p} |->
                      IF z = p THEN [doc |-> d, base |-> <<Shown[d].text, Shown[d].meta>>,
                                     change |-> ch, state |-> "pending"]
                               ELSE Drafts[z]]
    <3>1. \A q \in DOMAIN proposals : Drafts'[q] = Drafts[q] /\ q # p
      BY <2>1, <2>2 DEF Drafts
    <3>2. Drafts'[p] = [doc |-> d, base |-> <<Shown[d].text, Shown[d].meta>>, change |-> ch,
                        state |-> "pending"]
      BY <1>0, <2>1, <2>2 DEF Drafts
    <3>3. /\ DOMAIN Drafts' = DOMAIN Drafts \cup {p}
          /\ Drafts' = [z \in DOMAIN Drafts' |-> Drafts'[z]]
      BY <2>2 DEF Drafts
    <3> QED BY <1>0, <3>1, <3>2, <3>3
  <2> HIDE DEF row
  <2> QED BY <1>0, <2>1, <2>3, <2>4, SerialProposes
<1>9. ASSUME NEW d \in Ids, Retire(d) PROVE Goal
  <2>1. d \in DOMAIN docs /\ Delete(d) /\ UNCHANGED <<proposals, maker>>
    BY <1>0, <1>9, RetireFacts DEF Readable
  <2>2. /\ DOMAIN docs' = DOMAIN docs \ {d} /\ \A e \in DOMAIN docs' : docs'[e] = docs[e]
        /\ DOMAIN writes' = DOMAIN writes
    BY <1>0, <2>1, DeleteType
  <2>3. Shown' = [x \in DOMAIN Shown \ {d} |-> Shown[x]]
    BY <2>2 DEF Shown
  <2> QED BY <1>0, <2>1, <2>2, <2>3, DraftsSame, SerialRemoves DEF SameIds
<1>10. ASSUME NEW x \in Ids, Publish(x) PROVE Goal
  <2>1. /\ InReview(x) /\ DOMAIN docs' = DOMAIN docs
        /\ \A e \in DOMAIN docs \ {x} : docs'[e] = docs[e]
        /\ x \in DOMAIN docs => docs'[x] = [docs[x] EXCEPT !.status = "active"]
        /\ UNCHANGED <<proposals, writes, maker>>
    BY <1>0, <1>10, PublishFacts DEF InReview
  <2>2. x \in DOMAIN docs /\ docs[x].status = "flagged" /\ docs[x] \in Row
    BY <1>0, <2>1 DEF FlaggedInReview, Flagged
  <2>3. /\ docs'[x].status = "active" /\ docs'[x].text = docs[x].text
        /\ docs'[x].meta = docs[x].meta /\ docs'[x].by = docs[x].by
    BY <2>1, <2>2 DEF Row
  <2>4. Shown' = [Shown EXCEPT ![x].live = TRUE]
    BY <2>1, <2>2, <2>3 DEF Shown
  <2>5. x \in DOMAIN Shown /\ ~Shown[x].live
    BY <1>0, <2>2
  <2>6. Drafts' = Drafts /\ SameIds
    BY <2>1, DraftsSame DEF SameIds
  <2> QED BY <2>4, <2>5, <2>6, SerialEndorses
<1>11. ASSUME NEW x \in Ids, Discard(x) PROVE Goal
  <2>1. InReview(x) /\ Delete(x) /\ UNCHANGED <<proposals, maker>>
    BY <1>0, <1>11, DiscardFacts DEF InReview
  <2>2. /\ DOMAIN docs' = DOMAIN docs \ {x} /\ \A e \in DOMAIN docs' : docs'[e] = docs[e]
        /\ DOMAIN writes' = DOMAIN writes
    BY <1>0, <2>1, DeleteType
  <2>3. x \in DOMAIN docs
    BY <2>1 DEF FlaggedInReview, Flagged
  <2>4. Shown' = [z \in DOMAIN Shown \ {x} |-> Shown[z]]
    BY <2>2 DEF Shown
  <2> QED BY <1>0, <2>1, <2>2, <2>3, <2>4, DraftsSame, SerialRemoves DEF SameIds
<1>12. ASSUME NEW d, NEW pr, Promote(d, pr) PROVE Goal
  <2>1. Shown' = Shown
    BY <1>0, <1>12, PromoteFacts, ShownSame
  <2>2. Drafts' = Drafts /\ SameIds
    BY <1>0, <1>12, PromoteFacts, DraftsSame DEF SameIds
  <2> QED BY <2>1, <2>2, SerialStutter
<1> HIDE DEF Goal
<1> QED BY <1>1, <1>2, <1>3, <1>4, <1>5, <1>6, <1>7, <1>8, <1>9, <1>10, <1>11, <1>12
        DEF Effect

(* ImplementsSerial: every handler, spread over its transactions and       *)
(* however interleaved with others, has the effect of one write of         *)
(* GovernedCorpus at one instant.  CorpusWrites checks it of the handlers  *)
(* that edit, as EditsAreSerial.                                           *)
THEOREM WritesAreSerial == Spec => ImplementsSerial
<1> DEFINE G == FlaggedInReview /\ CasesAreOfNotes
<1>1. Init => G
  BY InitGate
<1>2. Inv /\ NamesPublished /\ G /\ [Next]_vars => G' /\ [Serial!Next]_(Serial!vars)
  <2> SUFFICES ASSUME Inv, NamesPublished, G, [Next]_vars
               PROVE  G' /\ [Serial!Next]_(Serial!vars)
    OBVIOUS
  <2>1. Effect /\ TypeInv
    BY Effects DEF Inv
  <2>2. Serial!Next \/ UNCHANGED Serial!vars
    BY <2>1, EffectIsSerial
  <2> QED BY <2>1, <2>2, FlaggedStay
<1> HIDE DEF G
<1> QED BY <1>1, <1>2, WorkingInvariance, PTL DEF Spec, ImplementsSerial

=============================================================================
