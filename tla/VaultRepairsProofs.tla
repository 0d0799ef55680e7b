------------------------- MODULE VaultRepairsProofs -------------------------
(***************************************************************************)
(* Proofs about VaultRepairs, for any corpus, any import maps whose        *)
(* classes do not meet, any number of scripts and of requests in flight:   *)
(* the row and its vector agree, a summary that is added is about the text *)
(* the note has, an import takes place whole and once with citations that  *)
(* are true at that moment, and an edge means what was said.               *)
(*                                                                         *)
(* All four rest on what a script in flight knows of the corpus it read.   *)
(* What it read of a row is right as long as the row has the same revision *)
(* (AmendKnows, RemapKnows, ReadsAreTexts), although the repairs that do   *)
(* not move the revision may have rewritten the row in between; what the   *)
(* resolver read is right because it holds the corpus lock (ResolverHolds) *)
(* and what an import planned is right because it plans again              *)
(* (ImportKnows says what its plan is worth by itself).                    *)
(***************************************************************************)
EXTENDS VaultRepairs, FiniteSetTheorems, WellFoundedInduction, TLAPS

-----------------------------------------------------------------------------
(* The inductive invariant.                                                *)

Kind(r, kind) == req[r].pc = kind

(* What each kind of request in flight looks like, and what it cannot      *)
(* know: a revision that is still to come, an id that is taken.            *)
AmendType(r) ==
    /\ req[r].doc \in DOMAIN said
    /\ req[r].row \in Row
    /\ req[r].doc \in DOMAIN docs => req[r].row.rev <= docs[req[r].doc].rev
RemapType(r) ==
    /\ DOMAIN req[r].changes \subseteq DOMAIN said
    /\ \A d \in DOMAIN req[r].changes :
          /\ req[r].changes[d] \in Seq(Refs)
          /\ req[r].revs[d] \in 1..MaxRev
          /\ d \in DOMAIN docs => req[r].revs[d] <= docs[d].rev
AuthorType(r) ==
    /\ DOMAIN req[r].file \subseteq DOMAIN said
    /\ \A d \in DOMAIN req[r].file :
          /\ req[r].file[d].rev \in 1..MaxRev
          /\ req[r].file[d].about \in 1..MaxRev
          /\ d \in DOMAIN docs => req[r].file[d].rev <= docs[d].rev
ApplyType(r) ==
    /\ DOMAIN req[r].work \subseteq DOMAIN said
    /\ \A d \in DOMAIN req[r].work :
          /\ req[r].work[d].rev \in 1..MaxRev
          /\ req[r].work[d].text \in 1..MaxRev
          /\ req[r].work[d].about \in 1..MaxRev
          /\ d \in DOMAIN docs => req[r].work[d].rev <= docs[d].rev
ImportType(r) ==
    /\ req[r].minted \in Mints
    /\ Range(req[r].minted) \cap DOMAIN said = {}
    /\ req[r].cited \in [DOMAIN Files -> Seq(Refs)]

RowsType ==
    /\ DOMAIN docs \subseteq DOMAIN said
    /\ IsFiniteSet(DOMAIN docs)
    /\ docs \in [DOMAIN docs -> Row]
    /\ \A d \in DOMAIN docs : docs[d].text <= docs[d].rev
SaidType ==
    /\ DOMAIN said \subseteq Ids
    /\ said \in [DOMAIN said -> Seq(Refs)]
RequestType(r) ==
    /\ Kind(r, "amend") => AmendType(r)
    /\ Kind(r, "remap") => RemapType(r)
    /\ Kind(r, "author") => AuthorType(r)
    /\ Kind(r, "apply") => ApplyType(r)
    /\ Kind(r, "import") => ImportType(r)
ReqType == \A r \in Reqs : RequestType(r)
Apart ==
    \A r, q \in Reqs :
        /\ Kind(r, "import") /\ Kind(q, "import") =>
              r = q \/ Range(req[r].minted) \cap Range(req[q].minted) = {}
        /\ Kind(r, "resolve") /\ Kind(q, "resolve") => r = q
TypeInv ==
    /\ DOMAIN req = Reqs /\ DOMAIN vectors = DOMAIN docs
    /\ RowsType /\ SaidType /\ ReqType /\ Apart

(* A text read with a revision is the text the row has at that revision.   *)
ReadsAreTexts(r) ==
    /\ Kind(r, "author") =>
          \A d \in DOMAIN req[r].file \cap DOMAIN docs :
              docs[d].rev = req[r].file[d].rev => req[r].file[d].about = docs[d].text
    /\ Kind(r, "apply") =>
          \A d \in DOMAIN req[r].work \cap DOMAIN docs :
              docs[d].rev = req[r].work[d].rev =>
                  req[r].work[d].text = docs[d].text /\ req[r].work[d].about = docs[d].text

(* A list of references that could be a document's: with the lists it has  *)
(* kept it says all that was said, and it says nothing else.               *)
Carries(d, s) ==
    /\ \A x \in Elements(said[d]) : \/ \E y \in Elements(s) : Means(d, x, y)
                                    \/ \E list \in docs[d].kept : x \in Elements(list)
    /\ \A y \in Elements(s) : Explained(d, y)

(* What an amendment, or a remap, read of a row is such a list while the   *)
(* row has the revision it was read at.                                    *)
AmendKnows(r) ==
    Kind(r, "amend") =>
        LET d == req[r].doc
        IN d \in DOMAIN docs \ raced /\ docs[d].rev = req[r].row.rev =>
              Carries(d, req[r].row.refs)
RemapKnows(r) ==
    Kind(r, "remap") =>
        \A d \in DOMAIN req[r].changes \cap (DOMAIN docs \ raced) :
            docs[d].rev = req[r].revs[d] => Carries(d, req[r].changes[d])

(* The corpus the resolver read is there until it has written.             *)
ResolverHolds(r) ==
    Kind(r, "resolve") =>
        \A d \in DOMAIN req[r].changes :
            LET change == req[r].changes[d]
            IN /\ d \in DOMAIN docs
               /\ change.before \in Seq(Refs)
               /\ change.after = Resolution(Index, change.before)
               /\ Dropped(Index, change.before) # {} => docs[d].kept \subseteq {change.before}

(* The citations of a page that is to be imported say what the page says.  *)
ImportKnows(r) ==
    Kind(r, "import") =>
        \A f \in DOMAIN Files :
            /\ \A y \in Elements(req[r].cited[f]) :
                  \/ \E x \in Elements(Files[f].sources) : Same(x, y)
                  \/ \E x \in Elements(Files[f].related) :
                        x = y \/ (y \in Ids /\ <<req[r].minted[f], x, y>> \in req[r].links)
            /\ \A x \in Elements(Files[f].sources) :
                  \E y \in Elements(req[r].cited[f]) : Same(x, y)

RequestKnows(r) == /\ ReadsAreTexts(r) /\ AmendKnows(r) /\ RemapKnows(r)
                   /\ ResolverHolds(r) /\ ImportKnows(r)
RequestsKnow == \A r \in Reqs : RequestKnows(r)
RowsCarry == \A d \in DOMAIN docs \ raced : Carries(d, docs[d].refs)

Inv == TypeInv /\ EmbeddingFollows /\ RowsCarry /\ RequestsKnow

-----------------------------------------------------------------------------
(* What an id means.                                                       *)

LEMMA SameIsEquivalence ==
    /\ \A x : Same(x, x)
    /\ \A x, y, z : Same(x, y) /\ Same(y, z) => Same(x, z)
  <1>1. \A x : Same(x, x)
    BY DEF Same
  <1>2. ASSUME NEW x, NEW y, NEW z, Same(x, y), Same(y, z)
        PROVE  Same(x, z)
    <2>1. CASE x = y \/ y = z
      BY <1>2, <2>1
    <2>2. CASE x # y /\ y # z
      <3>1. PICK C \in Classes : {x, y} \subseteq C
        BY <1>2, <2>2 DEF Same
      <3>2. PICK D \in Classes : {y, z} \subseteq D
        BY <1>2, <2>2 DEF Same
      <3>3. C = D
        BY <3>1, <3>2, RepairsAssumption
      <3> QED
        BY <3>1, <3>2, <3>3 DEF Same
    <2> QED
      BY <2>1, <2>2
  <1> QED
    BY <1>1, <1>2

(* A name is in no class.                                                  *)
LEMMA NamesAreAlone ==
    ASSUME NEW x, NEW y, Same(x, y), x \in Names \/ y \in Names
    PROVE  x = y
  BY RepairsAssumption DEF Same

LEMMA MeansGoesOn ==
    ASSUME NEW d, NEW x, NEW y, NEW z, Means(d, x, y), Same(y, z)
    PROVE  Means(d, x, z)
  BY SameIsEquivalence DEF Means

(* What means a name is that name.                                         *)
LEMMA OnlyItselfMeansAName ==
    ASSUME NEW d, NEW x, NEW y \in Names, Means(d, x, y)
    PROVE  x = y
  <1>1. CASE Same(x, y)
    BY <1>1, NamesAreAlone
  <1>2. ASSUME NEW z \in Ids, Same(z, y)
        PROVE  FALSE
    BY <1>2, NamesAreAlone, RepairsAssumption
  <1> QED
    BY <1>1, <1>2 DEF Means

-----------------------------------------------------------------------------
(* A finite set of numbers taken in order.                                 *)

LEMMA LeastOfThem ==
    ASSUME NEW T, T \subseteq Nat, T # {}
    PROVE  \E i \in T : \A j \in T : i <= j
  <1>1. PICK i \in T : \A j \in T : ~(<<j, i>> \in OpToRel(<, Nat))
    BY NatLessThanWellFounded, WFMin
  <1>2. ASSUME NEW j \in T
        PROVE  i <= j
    <2>1. i \in Nat /\ j \in Nat
      OBVIOUS
    <2>2. CASE j < i
      <3>1. <<j, i>> \in OpToRel(<, Nat)
        BY <2>1, <2>2 DEF OpToRel
      <3> QED
        BY <1>1, <3>1
    <2> QED
      BY <2>1, <2>2
  <1> QED
    BY <1>2

(* Place takes every one of them, and nothing else.                        *)
LEMMA PlacesAreAll ==
    ASSUME NEW S, NEW n \in Nat, S \subseteq 1..n
    PROVE  /\ Cardinality(S) \in Nat
           /\ \A k \in 1..Cardinality(S) : Place(S, k) \in S
           /\ \A i \in S : \E k \in 1..Cardinality(S) : Place(S, k) = i
  <1> DEFINE Upto(i) == {j \in S : j <= i}
             rank == [i \in S |-> Cardinality(Upto(i))]
  <1>1. IsFiniteSet(S)
    <2>1. IsFiniteSet(1..n)
      BY FS_Interval
    <2> QED
      BY <2>1, FS_Subset
  <1>2. Cardinality(S) \in Nat
    BY <1>1, FS_CardinalityType
  <1>3. ASSUME NEW i \in S
        PROVE  /\ IsFiniteSet(Upto(i))
               /\ Cardinality(Upto(i)) \in 1..Cardinality(S)
    <2>1. Upto(i) \in SUBSET S /\ i \in Upto(i)
      OBVIOUS
    <2>2. IsFiniteSet(Upto(i)) /\ Cardinality(Upto(i)) <= Cardinality(S)
      BY <1>1, <2>1, FS_Subset
    <2>3. Cardinality(Upto(i)) \in Nat
      BY <2>2, FS_CardinalityType
    <2>4. Cardinality(Upto(i)) # 0
      BY <2>1, <2>2, FS_EmptySet
    <2> QED
      BY <1>2, <2>2, <2>3, <2>4
  <1>4. ASSUME NEW i \in S, NEW j \in S, Cardinality(Upto(i)) = Cardinality(Upto(j)), i <= j
        PROVE  i = j
    <2>1. Upto(i) \in SUBSET Upto(j)
      <3>1. ASSUME NEW k \in Upto(i)
            PROVE  k \in Upto(j)
        <4>1. k \in S /\ k <= i /\ k \in Int /\ i \in Int /\ j \in Int
          OBVIOUS
        <4>2. k <= j
          BY <1>4, <4>1
        <4> QED
          BY <4>1, <4>2
      <3> QED
        BY <3>1
    <2>2. Upto(i) = Upto(j)
      BY <1>3, <1>4, <2>1, FS_Subset
    <2>3. j \in Upto(i)
      BY <2>2
    <2> QED
      BY <1>4, <2>3
  <1>5. ASSUME NEW i \in S, NEW j \in S, Cardinality(Upto(i)) = Cardinality(Upto(j))
        PROVE  i = j
    <2>1. CASE i <= j
      BY <1>4, <1>5, <2>1
    <2>2. CASE j <= i
      BY <1>4, <1>5, <2>2
    <2> QED
      BY <2>1, <2>2
  <1>6. rank \in Injection(S, 1..Cardinality(S))
    <2>1. rank \in [S -> 1..Cardinality(S)]
      BY <1>3
    <2>2. \A i \in S : rank[i] = Cardinality(Upto(i))
      OBVIOUS
    <2> HIDE DEF rank, Upto
    <2>3. ASSUME NEW i \in DOMAIN rank, NEW j \in DOMAIN rank, rank[i] = rank[j]
          PROVE  i = j
      BY <1>5, <2>1, <2>2, <2>3
    <2> QED
      BY <2>1, <2>3 DEF Injection, IsInjective
  <1>7. rank \in Surjection(S, 1..Cardinality(S))
    <2>1. IsFiniteSet(1..Cardinality(S)) /\ Cardinality(1..Cardinality(S)) = Cardinality(S)
      BY <1>2, FS_Interval
    <2> HIDE DEF rank
    <2> QED
      BY <1>6, <2>1, FS_Injection
  <1>8. ASSUME NEW k \in 1..Cardinality(S)
        PROVE  Place(S, k) \in S /\ Cardinality(Upto(Place(S, k))) = k
    <2>1. \E i \in S : rank[i] = k
      <3> HIDE DEF rank
      <3> QED
        BY <1>7 DEF Surjection
    <2>2. \E i \in S : Cardinality({j \in S : j <= i}) = k
      BY <2>1
    <2>3. /\ Place(S, k) \in S
          /\ Cardinality({j \in S : j <= Place(S, k)}) = k
      BY <2>2 DEF Place
    <2> QED
      BY <2>3
  <1>9. ASSUME NEW i \in S
        PROVE  \E k \in 1..Cardinality(S) : Place(S, k) = i
    <2>1. PICK k \in 1..Cardinality(S) : k = Cardinality(Upto(i))
      BY <1>3
    <2>2. Place(S, k) \in S /\ Cardinality(Upto(Place(S, k))) = k
      BY <1>8
    <2>3. Place(S, k) = i
      <3> HIDE DEF Upto
      <3> QED
        BY <1>5, <2>1, <2>2
    <2> QED
      BY <2>3
  <1> QED
    BY <1>2, <1>8, <1>9

-----------------------------------------------------------------------------
(* What the resolver and the remap make of a list.                         *)

LEMMA ElementsOfSeq ==
    ASSUME NEW S, NEW s \in Seq(S)
    PROVE  /\ Elements(s) \subseteq S
           /\ \A i \in 1..Len(s) : s[i] \in Elements(s)
           /\ \A x \in Elements(s) : \E i \in 1..Len(s) : s[i] = x
  BY DEF Elements, ToSet

LEMMA ElementsOfConcat ==
    ASSUME NEW S, NEW s \in Seq(S), NEW t \in Seq(S)
    PROVE  /\ s \o t \in Seq(S)
           /\ Elements(s \o t) = Elements(s) \cup Elements(t)
  <1>1. /\ s \o t \in Seq(S)
        /\ Len(s \o t) = Len(s) + Len(t)
        /\ \A i \in 1 .. Len(s) + Len(t) :
              (s \o t)[i] = IF i <= Len(s) THEN s[i] ELSE t[i - Len(s)]
    OBVIOUS
  <1>2. Len(s) \in Nat /\ Len(t) \in Nat
    OBVIOUS
  <1>3. ASSUME NEW x \in Elements(s \o t)
        PROVE  x \in Elements(s) \cup Elements(t)
    <2>1. PICK i \in 1..(Len(s) + Len(t)) : (s \o t)[i] = x
      BY <1>1, <1>3, ElementsOfSeq
    <2>2. CASE i <= Len(s)
      BY <1>1, <1>2, <2>1, <2>2, ElementsOfSeq
    <2>3. CASE ~(i <= Len(s))
      <3>1. i - Len(s) \in 1..Len(t)
        BY <1>2, <2>3
      <3> QED
        BY <1>1, <2>1, <2>3, <3>1, ElementsOfSeq
    <2> QED
      BY <2>2, <2>3
  <1>4. ASSUME NEW x \in Elements(s)
        PROVE  x \in Elements(s \o t)
    <2>1. PICK i \in 1..Len(s) : s[i] = x
      BY <1>4, ElementsOfSeq
    <2>2. i \in 1..Len(s \o t) /\ (s \o t)[i] = x
      BY <1>1, <1>2, <2>1
    <2> QED
      BY <1>1, <2>2, ElementsOfSeq
  <1>5. ASSUME NEW x \in Elements(t)
        PROVE  x \in Elements(s \o t)
    <2>1. PICK i \in 1..Len(t) : t[i] = x
      BY <1>5, ElementsOfSeq
    <2>2. /\ Len(s) + i \in 1..(Len(s) + Len(t))
          /\ ~(Len(s) + i <= Len(s))
          /\ (Len(s) + i) - Len(s) = i
      BY <1>2
    <2>3. (s \o t)[Len(s) + i] = x
      BY <1>1, <2>1, <2>2
    <2> QED
      BY <1>1, <2>2, <2>3, ElementsOfSeq
  <1> QED
    BY <1>1, <1>3, <1>4, <1>5

(* The one document a resolvable name names.                               *)
LEMMA TargetIsTheOne ==
    ASSUME NEW index, DOMAIN index \subseteq Ids, IsFiniteSet(DOMAIN index),
           NEW s, NEW x \in Resolvable(index, s)
    PROVE  /\ x \in Names /\ x \in Elements(s)
           /\ Candidates(index, x) = {Target(index, x)}
           /\ Target(index, x) \in DOMAIN index /\ Target(index, x) \in Ids
           /\ x \notin Dropped(index, s)
  <1>1. x \in Elements(s) \cap Names /\ Cardinality(Candidates(index, x)) = 1
    BY DEF Resolvable
  <1>2. Candidates(index, x) \in SUBSET (DOMAIN index)
    BY DEF Candidates, Titled
  <1>3. IsFiniteSet(Candidates(index, x))
    BY <1>2, FS_Subset
  <1>4. PICK d : Candidates(index, x) = {d}
    BY <1>1, <1>3, FS_Singleton
  <1>5. Target(index, x) = d
    BY <1>4 DEF Target
  <1> QED
    BY <1>1, <1>2, <1>4, <1>5 DEF Dropped

LEMMA ResolvedValues ==
    ASSUME NEW index, DOMAIN index \subseteq Ids, IsFiniteSet(DOMAIN index),
           NEW s \in Seq(Refs), NEW x \in Elements(s)
    PROVE  /\ Value(index, s, x) \in Refs
           /\ x \in Resolvable(index, s) => Value(index, s, x) = Target(index, x)
           /\ x \notin Resolvable(index, s) => Value(index, s, x) = x
  <1>1. x \in Refs
    BY ElementsOfSeq
  <1> QED
    BY <1>1, TargetIsTheOne DEF Value, Refs

(* resolve_edges keeps what is no name and every ambiguous one, drops the  *)
(* names of nothing, and puts the document in the place of its name.       *)
LEMMA ResolutionIs ==
    ASSUME NEW index, DOMAIN index \subseteq Ids, IsFiniteSet(DOMAIN index),
           NEW s \in Seq(Refs)
    PROVE  /\ Resolution(index, s) \in Seq(Refs)
           /\ Elements(Resolution(index, s)) =
                {x \in Elements(s) : x \notin Resolvable(index, s) \cup Dropped(index, s)}
                   \cup {Target(index, x) : x \in Resolvable(index, s)}
  <1> DEFINE L == Left(index, s)
             R == Resolvable(index, s)
             D == Dropped(index, s)
             stay == {x \in Elements(s) : x \notin R \cup D}
             came == {Target(index, x) : x \in R}
  <1>1. L \subseteq 1..Len(s) /\ Len(s) \in Nat
    BY DEF Left
  <1>2. /\ Cardinality(L) \in Nat
        /\ \A k \in 1..Cardinality(L) : Place(L, k) \in L
        /\ \A i \in L : \E k \in 1..Cardinality(L) : Place(L, k) = i
    BY <1>1, PlacesAreAll
  <1>3. \A i \in L : /\ s[i] \in Elements(s)
                     /\ s[i] \notin D
                     /\ ~Redundant(index, s, i)
    BY <1>1, ElementsOfSeq DEF Left
  <1>4. Resolution(index, s) = [k \in 1..Cardinality(L) |-> Value(index, s, s[Place(L, k)])]
    BY DEF Resolution
  <1>5. \A k \in 1..Cardinality(L) : Value(index, s, s[Place(L, k)]) \in Refs
    BY <1>2, <1>3, ResolvedValues
  <1>6. Resolution(index, s) \in Seq(Refs)
    <2> HIDE DEF L
    <2> QED
      BY <1>2, <1>4, <1>5
  <1>7. Elements(Resolution(index, s)) = {Value(index, s, s[i]) : i \in L}
    <2> HIDE DEF L
    <2>1. Elements(Resolution(index, s))
            = {Value(index, s, s[Place(L, k)]) : k \in 1..Cardinality(L)}
      BY <1>4 DEF Elements, ToSet
    <2> QED
      BY <1>2, <2>1
  <1>8. ASSUME NEW i \in L
        PROVE  Value(index, s, s[i]) \in stay \cup came
    <2>1. CASE s[i] \in R
      BY <1>3, <2>1, ResolvedValues
    <2>2. CASE s[i] \notin R
      BY <1>3, <2>2, ResolvedValues
    <2> QED
      BY <2>1, <2>2
  <1>9. ASSUME NEW x \in stay
        PROVE  \E i \in L : Value(index, s, s[i]) = x
    <2>1. PICK i \in 1..Len(s) : s[i] = x
      BY <1>9, ElementsOfSeq
    <2>2. i \in DOMAIN s /\ ~Redundant(index, s, i) /\ s[i] \notin D
      BY <1>9, <2>1 DEF Redundant
    <2>3. i \in L
      BY <2>2 DEF Left
    <2> QED
      BY <1>9, <2>1, <2>3, ResolvedValues
  <1>10. ASSUME NEW x \in R
         PROVE  \E i \in L : Value(index, s, s[i]) = Target(index, x)
    <2>1. /\ x \in Names /\ x \in Elements(s)
          /\ Target(index, x) \in Ids /\ Value(index, s, x) = Target(index, x)
      BY <1>10, TargetIsTheOne, ResolvedValues
    <2>2. Target(index, x) \notin Names
      BY <2>1, RepairsAssumption
    <2>3. CASE Target(index, x) \in Elements(s)
      <3>1. Target(index, x) \in stay
        BY <2>2, <2>3 DEF Resolvable, Dropped
      <3> QED
        BY <1>9, <3>1
    <2>4. CASE Target(index, x) \notin Elements(s)
      <3> DEFINE T == {i \in 1..Len(s) : /\ s[i] \in Names
                                          /\ Value(index, s, s[i]) = Target(index, x)}
      <3>1. T \subseteq Nat /\ T # {}
        BY <2>1, ElementsOfSeq
      <3>2. PICK i \in T : \A j \in T : i <= j
        BY <3>1, LeastOfThem
      <3>3. i \in 1..Len(s) /\ s[i] \in Names /\ Value(index, s, s[i]) = Target(index, x)
        OBVIOUS
      <3>4. s[i] \in R
        BY <2>2, <3>3, ElementsOfSeq, ResolvedValues
      <3>5. s[i] \notin D
        BY <3>4, TargetIsTheOne
      <3>6. ASSUME NEW j \in 1..(i - 1), s[j] \in Names,
                   Value(index, s, s[j]) = Value(index, s, s[i])
            PROVE  FALSE
        <4>1. j \in 1..Len(s) /\ ~(i <= j)
          BY <1>1, <3>3
        <4>2. j \in T
          BY <3>3, <3>6, <4>1
        <4> QED
          BY <3>2, <4>1, <4>2
      <3>7. ~Redundant(index, s, i)
        BY <2>4, <3>3, <3>6 DEF Redundant
      <3>8. i \in L
        BY <3>3, <3>5, <3>7 DEF Left
      <3> QED
        BY <3>3, <3>8
    <2> QED
      BY <2>3, <2>4
  <1>11. {Value(index, s, s[i]) : i \in L} = stay \cup came
    <2> HIDE DEF L, stay
    <2> QED
      BY <1>8, <1>9, <1>10
  <1> QED
    BY <1>6, <1>7, <1>11

LEMMA CanonicalIs ==
    ASSUME NEW x, NEW live, live \subseteq Ids
    PROVE  /\ Same(x, Canonical(live, x))
           /\ x \in Refs => Canonical(live, x) \in Refs
  <1>1. CASE \E C \in Classes : x \in C /\ Cardinality(C \cap live) = 1
    <2>1. PICK C \in Classes : x \in C /\ Cardinality(C \cap live) = 1
      BY <1>1
    <2>2. C \cap live # {}
      BY <2>1, FS_EmptySet
    <2>3. \E d \in live : \E D \in Classes : {x, d} \subseteq D
      BY <2>1, <2>2
    <2>4. /\ Canonical(live, x) \in live
          /\ \E D \in Classes : {x, Canonical(live, x)} \subseteq D
      BY <1>1, <2>3 DEF Canonical
    <2> QED
      BY <2>4 DEF Same, Refs
  <1>2. CASE ~ \E C \in Classes : x \in C /\ Cardinality(C \cap live) = 1
    <2>1. Canonical(live, x) = x
      BY <1>2 DEF Canonical
    <2> QED
      BY <2>1, SameIsEquivalence
  <1> QED
    BY <1>1, <1>2

(* The remap changes no meaning.                                           *)
LEMMA RemappedIs ==
    ASSUME NEW s \in Seq(Refs), NEW live, live \subseteq Ids
    PROVE  /\ Remapped(live, s) \in Seq(Refs)
           /\ \A x \in Elements(s) : Canonical(live, x) \in Elements(Remapped(live, s))
           /\ \A y \in Elements(Remapped(live, s)) : \E x \in Elements(s) : Same(x, y)
           /\ \A x \in Elements(s) : \E y \in Elements(Remapped(live, s)) : Same(x, y)
  <1>1. Remapped(live, s) = [i \in 1..Len(s) |-> Canonical(live, s[i])]
    BY DEF Remapped
  <1>2. \A i \in 1..Len(s) : Canonical(live, s[i]) \in Refs /\ s[i] \in Elements(s)
    BY CanonicalIs, ElementsOfSeq
  <1>3. Remapped(live, s) \in Seq(Refs) /\ Len(Remapped(live, s)) = Len(s)
    BY <1>1, <1>2
  <1>4. ASSUME NEW x \in Elements(s)
        PROVE  Canonical(live, x) \in Elements(Remapped(live, s)) /\ Same(x, Canonical(live, x))
    <2>1. PICK i \in 1..Len(s) : s[i] = x
      BY ElementsOfSeq
    <2>2. Remapped(live, s)[i] = Canonical(live, x) /\ i \in 1..Len(Remapped(live, s))
      BY <1>1, <1>3, <2>1
    <2> QED
      BY <1>3, <2>2, ElementsOfSeq, CanonicalIs
  <1>5. ASSUME NEW y \in Elements(Remapped(live, s))
        PROVE  \E x \in Elements(s) : Same(x, y)
    <2>1. PICK i \in 1..Len(s) : Remapped(live, s)[i] = y
      BY <1>3, ElementsOfSeq
    <2> QED
      BY <1>1, <1>2, <2>1, CanonicalIs
  <1> QED
    BY <1>3, <1>4, <1>5

LEMMA RowsAreTyped ==
    ASSUME TypeInv
    PROVE  /\ DOMAIN docs \subseteq Ids /\ DOMAIN Index = DOMAIN docs
           /\ IsFiniteSet(DOMAIN docs)
           /\ \A d \in DOMAIN docs :
                 /\ docs[d] \in Row
                 /\ docs[d].rev \in 1..MaxRev /\ docs[d].rev \in Int
                 /\ docs[d].text \in 1..MaxRev /\ docs[d].text \in Int
                 /\ docs[d].text <= docs[d].rev
                 /\ docs[d].refs \in Seq(Refs) /\ docs[d].kept \subseteq Seq(Refs)
                 /\ docs[d].title \in Names /\ docs[d].slug \in Names
                 /\ docs[d].summary \in 0..MaxRev
                 /\ docs[d].file \in Slugs \cup {NoFile}
                 /\ said[d] \in Seq(Refs)
  BY RepairsAssumption DEF TypeInv, RowsType, SaidType, Row, Index

-----------------------------------------------------------------------------
(* What a step leaves to the requests that do not take it: ids do not come *)
(* back; at one revision a row has one text, means one thing and keeps     *)
(* what it has kept; and nobody joins or leaves the corpus under the lock. *)
Steady ==
    /\ DOMAIN said \subseteq DOMAIN said'
    /\ (DOMAIN docs' \ DOMAIN docs) \cap DOMAIN said = {}
    /\ resolved \subseteq resolved'
    /\ \A d \in DOMAIN docs \cap DOMAIN docs' :
          /\ docs[d].rev <= docs'[d].rev
          /\ docs'[d].rev = docs[d].rev =>
                /\ docs'[d].text = docs[d].text
                /\ docs[d].kept \subseteq docs'[d].kept
                /\ said'[d] = said[d]
                /\ d \in raced => d \in raced'
    /\ \A r \in Reqs :
          Kind(r, "import") /\ req'[r] = req[r] =>
              Range(req[r].minted) \cap DOMAIN said' = {}
    /\ \A r \in Reqs :
          Kind(r, "resolve") /\ req'[r] = req[r] =>
              /\ DOMAIN docs' = DOMAIN docs
              /\ \A d \in DOMAIN docs :
                    Link(docs'[d]) = Link(docs[d]) /\ docs'[d].kept = docs[d].kept

LEMMA StaysTyped ==
    ASSUME TypeInv, Steady, RowsType', NEW r \in Reqs, req'[r] = req[r]
    PROVE  /\ (Kind(r, "amend") => AmendType(r))'
           /\ (Kind(r, "remap") => RemapType(r))'
           /\ (Kind(r, "author") => AuthorType(r))'
           /\ (Kind(r, "apply") => ApplyType(r))'
           /\ (Kind(r, "import") => ImportType(r))'
  <1> DEFINE q == req[r]
  <1>1. ASSUME NEW d \in DOMAIN said
        PROVE  /\ d \in DOMAIN said'
               /\ d \in DOMAIN docs' =>
                     /\ d \in DOMAIN docs /\ docs[d].rev <= docs'[d].rev
                     /\ docs[d].rev \in Int /\ docs'[d].rev \in Int
    BY RowsAreTyped, RepairsAssumption DEF Steady, RowsType, Row
  <1>2. CASE q.pc = "amend"
    <2>1. AmendType(r)
      BY <1>2 DEF TypeInv, ReqType, RequestType, Kind
    <2>2. q.row.rev \in Int
      BY <2>1, RepairsAssumption DEF AmendType, Row
    <2>3. q.doc \in DOMAIN docs' => q.row.rev <= docs'[q.doc].rev
      BY <1>1, <2>1, <2>2 DEF AmendType
    <2>4. AmendType(r)'
      BY <1>1, <2>1, <2>3 DEF AmendType
    <2> QED
      BY <1>2, <2>4 DEF Kind
  <1>3. CASE q.pc = "remap"
    <2>1. RemapType(r)
      BY <1>3 DEF TypeInv, ReqType, RequestType, Kind
    <2>2. ASSUME NEW d \in DOMAIN q.changes
          PROVE  d \in DOMAIN docs' => q.revs[d] <= docs'[d].rev
      <3>1. d \in DOMAIN said /\ q.revs[d] \in Int
        BY <2>1, RepairsAssumption DEF RemapType
      <3> QED
        BY <1>1, <2>1, <3>1 DEF RemapType
    <2>3. RemapType(r)'
      BY <1>1, <2>1, <2>2 DEF RemapType
    <2> QED
      BY <1>3, <2>3 DEF Kind
  <1>4. CASE q.pc = "author"
    <2>1. AuthorType(r)
      BY <1>4 DEF TypeInv, ReqType, RequestType, Kind
    <2>2. ASSUME NEW d \in DOMAIN q.file
          PROVE  d \in DOMAIN docs' => q.file[d].rev <= docs'[d].rev
      <3>1. d \in DOMAIN said /\ q.file[d].rev \in Int
        BY <2>1, RepairsAssumption DEF AuthorType
      <3> QED
        BY <1>1, <2>1, <3>1 DEF AuthorType
    <2>3. AuthorType(r)'
      BY <1>1, <2>1, <2>2 DEF AuthorType
    <2> QED
      BY <1>4, <2>3 DEF Kind
  <1>5. CASE q.pc = "apply"
    <2>1. ApplyType(r)
      BY <1>5 DEF TypeInv, ReqType, RequestType, Kind
    <2>2. ASSUME NEW d \in DOMAIN q.work
          PROVE  d \in DOMAIN docs' => q.work[d].rev <= docs'[d].rev
      <3>1. d \in DOMAIN said /\ q.work[d].rev \in Int
        BY <2>1, RepairsAssumption DEF ApplyType
      <3> QED
        BY <1>1, <2>1, <3>1 DEF ApplyType
    <2>3. ApplyType(r)'
      BY <1>1, <2>1, <2>2 DEF ApplyType
    <2> QED
      BY <1>5, <2>3 DEF Kind
  <1>6. CASE q.pc = "import"
    <2>1. ImportType(r)
      BY <1>6 DEF TypeInv, ReqType, RequestType, Kind
    <2>2. Range(q.minted) \cap DOMAIN said' = {}
      BY <1>6 DEF Steady, Kind
    <2>3. ImportType(r)'
      BY <2>1, <2>2 DEF ImportType
    <2> QED
      BY <1>6, <2>3 DEF Kind
  <1> QED
    BY <1>2, <1>3, <1>4, <1>5, <1>6 DEF Kind

LEMMA CarriesStays ==
    ASSUME NEW d, NEW s, Carries(d, s), resolved \subseteq resolved',
           said'[d] = said[d], docs[d].kept \subseteq docs'[d].kept
    PROVE  Carries(d, s)'
  <1>1. \A x, y : Means(d, x, y) => Means(d, x, y)'
    BY DEF Means, Same
  <1>2. ASSUME NEW x \in Elements(said'[d])
        PROVE  \/ \E y \in Elements(s) : Means(d, x, y)'
               \/ \E list \in docs'[d].kept : x \in Elements(list)
    BY <1>1 DEF Carries
  <1>3. ASSUME NEW y \in Elements(s)
        PROVE  \E x \in Elements(said'[d]) : Means(d, x, y)'
    BY <1>1 DEF Carries, Explained
  <1> QED
    BY <1>2, <1>3 DEF Carries, Explained

LEMMA StaysKnown ==
    ASSUME TypeInv, Steady, RowsType', NEW r \in Reqs, req'[r] = req[r],
           ReadsAreTexts(r), AmendKnows(r), RemapKnows(r), ResolverHolds(r), ImportKnows(r)
    PROVE  /\ ReadsAreTexts(r)' /\ AmendKnows(r)' /\ RemapKnows(r)'
           /\ ResolverHolds(r)' /\ ImportKnows(r)'
  <1>1. ASSUME NEW d \in DOMAIN said, d \in DOMAIN docs', NEW n \in Int,
               docs'[d].rev = n,
               d \in DOMAIN docs => n <= docs[d].rev
        PROVE  /\ d \in DOMAIN docs /\ docs[d].rev = n
               /\ docs'[d].text = docs[d].text
               /\ docs[d].kept \subseteq docs'[d].kept
               /\ said'[d] = said[d]
               /\ d \notin raced' => d \notin raced
    <2>1. d \in DOMAIN docs
      BY <1>1 DEF Steady
    <2>2. docs[d].rev \in Int /\ docs[d].rev <= docs'[d].rev
      BY <1>1, <2>1, RowsAreTyped DEF Steady
    <2>3. docs'[d].rev = docs[d].rev
      BY <1>1, <2>1, <2>2
    <2> QED
      BY <1>1, <2>1, <2>3 DEF Steady
  <1>2. ASSUME Kind(r, "author"), NEW d \in DOMAIN req[r].file \cap DOMAIN docs',
               docs'[d].rev = req[r].file[d].rev
        PROVE  req[r].file[d].about = docs'[d].text
    <2>1. /\ d \in DOMAIN said /\ req[r].file[d].rev \in Int
          /\ d \in DOMAIN docs => req[r].file[d].rev <= docs[d].rev
      BY <1>2, RepairsAssumption DEF TypeInv, ReqType, RequestType, AuthorType
    <2>2. d \in DOMAIN docs /\ docs[d].rev = req[r].file[d].rev /\ docs'[d].text = docs[d].text
      BY <1>1, <1>2, <2>1
    <2> QED
      BY <1>2, <2>2 DEF ReadsAreTexts
  <1>3. ASSUME Kind(r, "apply"), NEW d \in DOMAIN req[r].work \cap DOMAIN docs',
               docs'[d].rev = req[r].work[d].rev
        PROVE  req[r].work[d].text = docs'[d].text /\ req[r].work[d].about = docs'[d].text
    <2>1. /\ d \in DOMAIN said /\ req[r].work[d].rev \in Int
          /\ d \in DOMAIN docs => req[r].work[d].rev <= docs[d].rev
      BY <1>3, RepairsAssumption DEF TypeInv, ReqType, RequestType, ApplyType
    <2>2. d \in DOMAIN docs /\ docs[d].rev = req[r].work[d].rev /\ docs'[d].text = docs[d].text
      BY <1>1, <1>3, <2>1
    <2> QED
      BY <1>3, <2>2 DEF ReadsAreTexts
  <1>4. ReadsAreTexts(r)'
    BY <1>2, <1>3 DEF ReadsAreTexts, Kind
  <1>5. ASSUME Kind(r, "amend"), req[r].doc \in DOMAIN docs' \ raced',
               docs'[req[r].doc].rev = req[r].row.rev
        PROVE  Carries(req[r].doc, req[r].row.refs)'
    <2>1. PICK d, s : d = req[r].doc /\ s = req[r].row.refs
      OBVIOUS
    <2>2. /\ d \in DOMAIN said /\ req[r].row.rev \in Int
          /\ d \in DOMAIN docs => req[r].row.rev <= docs[d].rev
      BY <1>5, <2>1, RepairsAssumption DEF TypeInv, ReqType, RequestType, AmendType, Row
    <2>3. /\ d \in DOMAIN docs /\ docs[d].rev = req[r].row.rev
          /\ docs[d].kept \subseteq docs'[d].kept /\ said'[d] = said[d] /\ d \notin raced
      BY <1>1, <1>5, <2>1, <2>2
    <2>4. Carries(d, s)
      BY <1>5, <2>1, <2>3 DEF AmendKnows
    <2>5. Carries(d, s)'
      BY <2>3, <2>4, CarriesStays DEF Steady
    <2>6. d = req'[r].doc /\ s = req'[r].row.refs
      BY <2>1
    <2> QED
      BY <2>5, <2>6
  <1>6. ASSUME Kind(r, "remap"), NEW d \in DOMAIN req[r].changes \cap (DOMAIN docs' \ raced'),
               docs'[d].rev = req[r].revs[d]
        PROVE  Carries(d, req[r].changes[d])'
    <2>1. PICK s : s = req[r].changes[d]
      OBVIOUS
    <2>2. /\ d \in DOMAIN said /\ req[r].revs[d] \in Int
          /\ d \in DOMAIN docs => req[r].revs[d] <= docs[d].rev
      BY <1>6, RepairsAssumption DEF TypeInv, ReqType, RequestType, RemapType
    <2>3. /\ d \in DOMAIN docs /\ docs[d].rev = req[r].revs[d]
          /\ docs[d].kept \subseteq docs'[d].kept /\ said'[d] = said[d] /\ d \notin raced
      BY <1>1, <1>6, <2>2
    <2>4. Carries(d, s)
      BY <1>6, <2>1, <2>3 DEF RemapKnows
    <2>5. Carries(d, s)'
      BY <2>3, <2>4, CarriesStays DEF Steady
    <2>6. s = req'[r].changes[d]
      BY <2>1
    <2> QED
      BY <2>5, <2>6
  <1>7. AmendKnows(r)'
    BY <1>5 DEF AmendKnows, Kind
  <1>8. RemapKnows(r)'
    BY <1>6 DEF RemapKnows, Kind
  <1>9. ResolverHolds(r)'
    <2>1. CASE Kind(r, "resolve")
      <3>1. /\ DOMAIN docs' = DOMAIN docs
            /\ \A d \in DOMAIN docs :
                  Link(docs'[d]) = Link(docs[d]) /\ docs'[d].kept = docs[d].kept
        BY <2>1 DEF Steady
      <3>2. Index' = Index
        BY <3>1 DEF Index
      <3> QED
        <4>1. ASSUME NEW d \in DOMAIN req[r].changes
              PROVE  LET change == req[r].changes[d]
                     IN /\ d \in DOMAIN docs'
                        /\ change.before \in Seq(Refs)
                        /\ change.after = Resolution(Index', change.before)
                        /\ Dropped(Index', change.before) # {} =>
                              docs'[d].kept \subseteq {change.before}
          BY <2>1, <3>1, <3>2 DEF ResolverHolds
        <4> QED
          BY <4>1 DEF ResolverHolds
    <2>2. CASE ~Kind(r, "resolve")
      BY <2>2 DEF ResolverHolds, Kind
    <2> QED
      BY <2>1, <2>2
  <1>10. ImportKnows(r)'
    <2>1. PICK q : q = req[r]
      OBVIOUS
    <2>2. q = req'[r]
      BY <2>1
    <2> QED
      BY <2>1, <2>2 DEF ImportKnows, Kind
  <1> QED
    BY <1>4, <1>7, <1>8, <1>9, <1>10

-----------------------------------------------------------------------------
(* What each step does, field by field.                                    *)

LEMMA GotoDoes ==
    ASSUME TypeInv, NEW r \in Reqs, NEW q, Goto(r, q)
    PROVE  /\ DOMAIN req' = Reqs /\ req'[r] = q
           /\ \A p \in Reqs : p # r => req'[p] = req[p]
  BY DEF TypeInv, Goto

(* What the invariant says of the rows.                                    *)
RowsGood == /\ RowsType /\ SaidType /\ DOMAIN vectors = DOMAIN docs
            /\ EmbeddingFollows /\ RowsCarry

(* The steps that only read.                                               *)
Quiet == UNCHANGED <<docs, vectors, history>>

LEMMA QuietDoes ==
    ASSUME Inv, Quiet
    PROVE  Steady /\ RowsGood'
  <1>1. /\ docs' = docs /\ vectors' = vectors /\ said' = said
        /\ resolved' = resolved /\ raced' = raced
    BY DEF Quiet, history
  <1>2. \A d \in DOMAIN docs : docs[d].rev <= docs[d].rev
    BY RowsAreTyped DEF Inv
  <1>3. \A r \in Reqs : Kind(r, "import") => Range(req[r].minted) \cap DOMAIN said = {}
    BY DEF Inv, TypeInv, ReqType, RequestType, ImportType
  <1>4. Steady
    BY <1>1, <1>2, <1>3 DEF Steady
  <1>5. RowsType' /\ SaidType' /\ DOMAIN vectors' = DOMAIN docs'
    BY <1>1 DEF Inv, TypeInv, RowsType, SaidType
  <1>6. EmbeddingFollows'
    BY <1>1 DEF Inv, EmbeddingFollows
  <1>7. ASSUME NEW d \in DOMAIN docs \ raced
        PROVE  Carries(d, docs[d].refs)'
    <2>1. PICK s : s = docs[d].refs
      OBVIOUS
    <2>2. Carries(d, s)
      BY <2>1 DEF Inv, RowsCarry
    <2>3. Carries(d, s)'
      BY <1>1, <2>2, CarriesStays
    <2> QED
      BY <1>1, <2>1, <2>3
  <1>8. RowsCarry'
    BY <1>1, <1>7 DEF RowsCarry
  <1> QED
    BY <1>4, <1>5, <1>6, <1>8 DEF RowsGood

LEMMA StoreDoes ==
    ASSUME NEW d, NEW row, NEW refs, Store(d, row, refs)
    PROVE  /\ DOMAIN docs' = DOMAIN docs \cup {d}
           /\ DOMAIN vectors' = DOMAIN vectors \cup {d}
           /\ DOMAIN said' = DOMAIN said \cup {d}
           /\ docs'[d] = row /\ vectors'[d] = Embedded(row) /\ said'[d] = refs
           /\ \A e \in DOMAIN docs : e # d => docs'[e] = docs[e]
           /\ \A e \in DOMAIN vectors : e # d => vectors'[e] = vectors[e]
           /\ \A e \in DOMAIN said : e # d => said'[e] = said[e]
           /\ docs' \in [DOMAIN docs' -> {docs'[e] : e \in DOMAIN docs'}]
           /\ said' \in [DOMAIN said' -> {said'[e] : e \in DOMAIN said'}]
  BY DEF Store, With

(* A governed write of one row keeps all that is known of the others.      *)
LEMMA OthersStay ==
    ASSUME Inv, NEW d \in Ids, NEW row \in Row, row.text <= row.rev,
           NEW refs \in Seq(Refs), Store(d, row, refs), ~Locked,
           resolved' = resolved,
           \A e \in DOMAIN docs : e # d => (e \in raced <=> e \in raced'),
           d \in DOMAIN said => d \in DOMAIN docs /\ docs[d].rev < row.rev,
           d \notin DOMAIN said => d \notin Reserved,
           d \notin raced' => Carries(d, row.refs)'
    PROVE  Steady /\ RowsGood'
  <1>1. /\ DOMAIN docs' = DOMAIN docs \cup {d}
        /\ DOMAIN vectors' = DOMAIN vectors \cup {d}
        /\ DOMAIN said' = DOMAIN said \cup {d}
        /\ docs'[d] = row /\ vectors'[d] = Embedded(row) /\ said'[d] = refs
        /\ \A e \in DOMAIN docs : e # d => docs'[e] = docs[e]
        /\ \A e \in DOMAIN vectors : e # d => vectors'[e] = vectors[e]
        /\ \A e \in DOMAIN said : e # d => said'[e] = said[e]
        /\ docs' \in [DOMAIN docs' -> {docs'[e] : e \in DOMAIN docs'}]
        /\ said' \in [DOMAIN said' -> {said'[e] : e \in DOMAIN said'}]
    BY StoreDoes
  <1>2. TypeInv
    BY DEF Inv
  <1>3. DOMAIN docs \subseteq DOMAIN said
    BY <1>2 DEF TypeInv, RowsType
  <1>4. ASSUME NEW e \in DOMAIN docs
        PROVE  /\ docs[e].rev <= docs'[e].rev
               /\ docs'[e].rev = docs[e].rev => e # d
    <2>1. CASE e = d
      <3>1. docs[e].rev < row.rev /\ row.rev \in Int /\ docs[e].rev \in Int
        BY <1>2, <1>3, <2>1, RowsAreTyped, RepairsAssumption DEF Row
      <3> QED
        BY <1>1, <2>1, <3>1
    <2>2. CASE e # d
      BY <1>1, <1>2, <2>2, RowsAreTyped
    <2> QED
      BY <2>1, <2>2
  <1>5. ASSUME NEW r \in Reqs, Kind(r, "import")
        PROVE  Range(req[r].minted) \cap DOMAIN said' = {}
    <2>1. /\ req[r].minted \in Mints
          /\ Range(req[r].minted) \cap DOMAIN said = {}
      BY <1>2, <1>5 DEF TypeInv, ReqType, RequestType, ImportType
    <2>2. d \notin Range(req[r].minted)
      BY <2>1 DEF Reserved
    <2> QED
      BY <1>1, <2>1, <2>2
  <1>6. Steady
    <2>1. \A r \in Reqs : ~Kind(r, "resolve")
      BY DEF Locked, Kind
    <2>2. (DOMAIN docs' \ DOMAIN docs) \cap DOMAIN said = {}
      BY <1>1
    <2>3. \A e \in DOMAIN docs \cap DOMAIN docs' :
             /\ docs[e].rev <= docs'[e].rev
             /\ docs'[e].rev = docs[e].rev =>
                   /\ docs'[e].text = docs[e].text
                   /\ docs[e].kept \subseteq docs'[e].kept
                   /\ said'[e] = said[e]
                   /\ e \in raced => e \in raced'
      BY <1>1, <1>3, <1>4
    <2> QED
      BY <1>1, <1>5, <2>1, <2>2, <2>3 DEF Steady
  <1>7. RowsType'
    <2>1. IsFiniteSet(DOMAIN docs')
      BY <1>1, <1>2, FS_AddElement DEF TypeInv, RowsType
    <2>2. \A e \in DOMAIN docs' : docs'[e] \in Row /\ docs'[e].text <= docs'[e].rev
      BY <1>1, <1>2 DEF TypeInv, RowsType
    <2>3. docs' \in [DOMAIN docs' -> Row]
      BY <1>1, <2>2
    <2> QED
      BY <1>1, <1>3, <2>1, <2>2, <2>3 DEF RowsType
  <1>8. SaidType'
    <2>1. \A e \in DOMAIN said' : said'[e] \in Seq(Refs)
      BY <1>1, <1>2 DEF TypeInv, SaidType
    <2>2. said' \in [DOMAIN said' -> Seq(Refs)]
      BY <1>1, <2>1
    <2> QED
      BY <1>1, <1>2, <2>2 DEF TypeInv, SaidType
  <1>9. DOMAIN vectors' = DOMAIN docs' /\ DOMAIN vectors = DOMAIN docs
    BY <1>1, <1>2 DEF TypeInv
  <1>10. EmbeddingFollows'
    <2>1. ASSUME NEW e \in DOMAIN docs'
          PROVE  vectors'[e] = Embedded(docs'[e])
      <3>1. CASE e = d
        BY <1>1, <3>1
      <3>2. CASE e # d
        BY <1>1, <1>9, <3>2 DEF Inv, EmbeddingFollows
      <3> QED
        BY <3>1, <3>2
    <2> QED
      BY <2>1 DEF EmbeddingFollows, Embedded
  <1>11. RowsCarry'
    <2>1. ASSUME NEW e \in DOMAIN docs' \ raced'
          PROVE  Carries(e, docs[e].refs)' \/ e = d
      <3>1. CASE e # d
        <4>1. PICK s : s = docs[e].refs
          OBVIOUS
        <4>2. Carries(e, s)
          BY <1>1, <2>1, <3>1, <4>1 DEF Inv, RowsCarry
        <4>3. Carries(e, s)'
          BY <1>1, <1>3, <2>1, <3>1, <4>2, CarriesStays
        <4>4. s = docs'[e].refs
          BY <1>1, <2>1, <3>1, <4>1
        <4> QED
          BY <4>3, <4>4
      <3> QED
        BY <3>1
    <2>2. d \notin raced' => Carries(d, docs[d].refs)'
      <3>1. row.refs = docs'[d].refs
        BY <1>1
      <3> QED
        BY <3>1
    <2> QED
      BY <2>1, <2>2 DEF RowsCarry
  <1> QED
    BY <1>6, <1>7, <1>8, <1>9, <1>10, <1>11 DEF RowsGood

LEMMA ContributeKeeps ==
    ASSUME Inv, NEW d \in Ids, NEW title \in Names, Contribute(d, title)
    PROVE  Steady /\ RowsGood'
  <1> DEFINE row == [rev |-> 1, text |-> 1, title |-> title, slug |-> title, summary |-> NoSummary,
                     refs |-> << >>, kept |-> {}, file |-> NoFile]
  <1>1. row \in Row /\ row.text <= row.rev /\ row.refs = << >>
    BY RepairsAssumption DEF Row, NoSummary
  <1>2. /\ ~Locked /\ d \notin DOMAIN said /\ d \notin Reserved
        /\ Store(d, row, << >>) /\ resolved' = resolved /\ raced' = raced
    BY DEF Contribute
  <1>3. Elements(<< >>) = {} /\ << >> \in Seq(Refs)
    BY DEF Elements, ToSet
  <1>4. said'[d] = << >>
    BY <1>2 DEF Store, With
  <1> HIDE DEF row
  <1>5. Carries(d, row.refs)'
    BY <1>1, <1>3, <1>4 DEF Carries
  <1> QED
    BY <1>1, <1>2, <1>3, <1>5, OthersStay

LEMMA UpdateKeeps ==
    ASSUME Inv, NEW d \in Ids, NEW title \in Names, NEW refs \in Lists,
                NEW s \in BOOLEAN, Update(d, title, refs, s)
    PROVE  Steady /\ RowsGood'
  <1>1. /\ ~Locked /\ d \in DOMAIN docs /\ docs[d].rev < MaxRev
        /\ resolved' = resolved /\ raced' = raced \ {d} /\ d \in DOMAIN said
    BY DEF Update, Inv, TypeInv, RowsType
  <1>2. docs[d] \in Row /\ docs[d].rev \in 1..MaxRev
    BY <1>1, RowsAreTyped DEF Inv
  <1>3. refs \in Seq(Refs)
    BY RepairsAssumption DEF Refs
  <1>4. PICK row : /\ row = [docs[d] EXCEPT !.rev = @ + 1, !.text = docs[d].rev + 1,
                                            !.title = title, !.refs = refs,
                                            !.summary = IF s THEN docs[d].rev + 1
                                                             ELSE NoSummary]
                   /\ Store(d, row, refs)
    BY DEF Update
  <1>5. docs[d].rev + 1 \in 1..MaxRev
    BY <1>1, <1>2, RepairsAssumption
  <1>6. /\ row \in Row /\ row.rev = docs[d].rev + 1 /\ row.text = row.rev
        /\ row.refs = refs
    <2>1. PICK m \in 0..MaxRev : m = IF s THEN docs[d].rev + 1 ELSE NoSummary
      BY <1>5, RepairsAssumption DEF NoSummary
    <2>2. PICK n \in 1..MaxRev : n = docs[d].rev + 1
      BY <1>5
    <2>3. row = [docs[d] EXCEPT !.rev = n, !.text = n, !.title = title, !.refs = refs,
                                  !.summary = m]
      BY <1>4, <2>1, <2>2
    <2> QED
      BY <1>2, <1>3, <2>2, <2>3 DEF Row
  <1>7. docs[d].rev < row.rev /\ row.text <= row.rev
    BY <1>2, <1>5, <1>6
  <1>8. said'[d] = refs
    BY <1>4 DEF Store, With
  <1>9. Carries(d, refs)'
    <2>1. \A x \in Elements(refs) : Means(d, x, x)'
      BY DEF Means, Same
    <2> QED
      BY <1>8, <2>1 DEF Carries, Explained
  <1>10. \A e \in DOMAIN docs : e # d => (e \in raced <=> e \in raced')
    BY <1>1
  <1> QED
    BY <1>1, <1>3, <1>4, <1>6, <1>7, <1>9, <1>10, OthersStay

LEMMA AmendKeeps ==
    ASSUME Inv, NEW r \in Reqs, Amend(r)
    PROVE  Steady /\ RowsGood'
  <1>1. PICK d, row : d = req[r].doc /\ row = req[r].row
    OBVIOUS
  <1>2. /\ Kind(r, "amend") /\ ~Locked /\ resolved' = resolved /\ raced' = raced
    BY DEF Amend, Kind
  <1>3. d \in DOMAIN said /\ row \in Row /\ d \in Ids /\ row.rev \in 1..MaxRev
    BY <1>1, <1>2, RepairsAssumption
       DEF Inv, TypeInv, ReqType, RequestType, AmendType, SaidType, Row
  <1>4. CASE UNCHANGED <<docs, vectors, said>>
    BY <1>2, <1>4, QuietDoes DEF Quiet, history
  <1>5. CASE /\ d \in DOMAIN docs /\ docs[d].rev = row.rev /\ row.rev < MaxRev
             /\ Store(d, [row EXCEPT !.rev = @ + 1, !.text = row.rev + 1,
                                     !.kept = docs[d].kept], said[d])
    <2>1. PICK new, refs : /\ new = [row EXCEPT !.rev = @ + 1, !.text = row.rev + 1,
                                                !.kept = docs[d].kept]
                           /\ refs = said[d] /\ Store(d, new, refs)
      BY <1>5
    <2>2. docs[d].kept \subseteq Seq(Refs) /\ refs \in Seq(Refs)
      BY <1>5, <2>1, RowsAreTyped DEF Inv
    <2>3. row.rev + 1 \in 1..MaxRev
      BY <1>3, <1>5, RepairsAssumption
    <2>4. /\ new \in Row /\ new.rev = row.rev + 1 /\ new.text = row.rev + 1
          /\ new.refs = row.refs /\ new.kept = docs[d].kept
      BY <1>3, <2>1, <2>2, <2>3 DEF Row
    <2>5. new.text <= new.rev /\ docs[d].rev < new.rev
      BY <1>3, <1>5, <2>3, <2>4
    <2>6. docs'[d] = new /\ said'[d] = said[d]
      BY <2>1 DEF Store, With
    <2>7. ASSUME d \notin raced'
          PROVE  Carries(d, new.refs)'
      <3>1. Carries(d, row.refs)
        BY <1>1, <1>2, <1>5, <2>7 DEF Inv, RequestsKnow, RequestKnows, AmendKnows
      <3> QED
        BY <1>2, <2>4, <2>6, <3>1, CarriesStays
    <2>8. \A e \in DOMAIN docs : e # d => (e \in raced <=> e \in raced')
      BY <1>2
    <2> QED
      BY <1>2, <1>3, <1>5, <2>1, <2>2, <2>4, <2>5, <2>7, <2>8, OthersStay
  <1>6. \/ UNCHANGED <<docs, vectors, said>>
        \/ /\ d \in DOMAIN docs /\ docs[d].rev = row.rev /\ row.rev < MaxRev
           /\ Store(d, [[row EXCEPT !.rev = @ + 1, !.text = row.rev + 1]
                           EXCEPT !.kept = docs[d].kept], said[d])
    BY <1>1 DEF Amend
  <1>7. [[row EXCEPT !.rev = @ + 1, !.text = row.rev + 1] EXCEPT !.kept = docs[d].kept]
          = [row EXCEPT !.rev = @ + 1, !.text = row.rev + 1, !.kept = docs[d].kept]
    BY <1>3 DEF Row
  <1> QED
    BY <1>4, <1>5, <1>6, <1>7

LEMMA RetireKeeps ==
    ASSUME Inv, NEW d \in Ids, Retire(d)
    PROVE  Steady /\ RowsGood'
  <1>1. /\ ~Locked /\ docs' = Without(docs, {d}) /\ vectors' = Without(vectors, {d})
        /\ said' = said /\ resolved' = resolved /\ raced' = raced
    BY DEF Retire, history
  <1>2. /\ DOMAIN docs' = DOMAIN docs \ {d} /\ DOMAIN vectors' = DOMAIN docs'
        /\ \A e \in DOMAIN docs' : docs'[e] = docs[e] /\ vectors'[e] = vectors[e]
    BY <1>1 DEF Inv, TypeInv, Without
  <1>3. Steady
    <2>1. \A r \in Reqs : ~Kind(r, "resolve")
      BY <1>1 DEF Locked, Kind
    <2>2. \A e \in DOMAIN docs : docs[e].rev <= docs[e].rev
      BY RowsAreTyped DEF Inv
    <2>3. \A r \in Reqs : Kind(r, "import") => Range(req[r].minted) \cap DOMAIN said = {}
      BY DEF Inv, TypeInv, ReqType, RequestType, ImportType
    <2> QED
      BY <1>1, <1>2, <2>1, <2>2, <2>3 DEF Steady
  <1>4. RowsType' /\ SaidType'
    <2>1. docs' \in [DOMAIN docs' -> Row]
      BY <1>1, <1>2 DEF Inv, TypeInv, RowsType, Without
    <2>2. IsFiniteSet(DOMAIN docs')
      BY <1>2, FS_RemoveElement DEF Inv, TypeInv, RowsType
    <2> QED
      BY <1>1, <1>2, <2>1, <2>2 DEF Inv, TypeInv, RowsType, SaidType
  <1>5. EmbeddingFollows'
    BY <1>2 DEF Inv, EmbeddingFollows, Embedded
  <1>6. RowsCarry'
    <2>1. ASSUME NEW e \in DOMAIN docs' \ raced'
          PROVE  Carries(e, docs[e].refs)'
      <3>1. PICK s : s = docs[e].refs
        OBVIOUS
      <3>2. Carries(e, s)
        BY <1>1, <1>2, <2>1, <3>1 DEF Inv, RowsCarry
      <3>3. Carries(e, s)'
        BY <1>1, <1>2, <2>1, <3>2, CarriesStays
      <3>4. s = docs'[e].refs
        BY <1>2, <2>1, <3>1
      <3> QED
        BY <3>3, <3>4
    <2> QED
      BY <2>1 DEF RowsCarry
  <1> QED
    BY <1>2, <1>3, <1>4, <1>5, <1>6 DEF RowsGood

LEMMA RemapWriteKeeps ==
    ASSUME Inv, NEW r \in Reqs, RemapWrite(r)
    PROVE  Steady /\ RowsGood'
  <1>1. PICK new, revs : new = req[r].changes /\ revs = req[r].revs
    OBVIOUS
  <1>2. /\ docs' = [d \in DOMAIN docs |->
                      IF d \in DOMAIN new THEN [docs[d] EXCEPT !.refs = new[d]] ELSE docs[d]]
        /\ raced' = raced \cup {d \in DOMAIN new \cap DOMAIN docs : docs[d].rev # revs[d]}
        /\ vectors' = vectors /\ said' = said /\ resolved' = resolved
    BY <1>1 DEF RemapWrite
  <1>3. Kind(r, "remap") /\ TypeInv
    BY DEF RemapWrite, Kind, Inv
  <1>4. \A d \in DOMAIN new : new[d] \in Seq(Refs)
    BY <1>1, <1>3 DEF TypeInv, ReqType, RequestType, RemapType
  <1>5. DOMAIN docs' = DOMAIN docs
    BY <1>2
  <1>6. ASSUME NEW d \in DOMAIN docs
        PROVE  /\ docs'[d] \in Row
               /\ docs'[d].rev = docs[d].rev /\ docs'[d].text = docs[d].text
               /\ docs'[d].kept = docs[d].kept /\ Link(docs'[d]) = Link(docs[d])
               /\ docs'[d].summary = docs[d].summary
               /\ docs'[d].refs = IF d \in DOMAIN new THEN new[d] ELSE docs[d].refs
    <2>1. docs[d] \in Row
      BY <1>3, RowsAreTyped
    <2>2. CASE d \in DOMAIN new
      <3>1. PICK u : u = [docs[d] EXCEPT !.refs = new[d]]
        OBVIOUS
      <3>2. /\ u \in Row /\ u.rev = docs[d].rev /\ u.text = docs[d].text
            /\ u.kept = docs[d].kept /\ Link(u) = Link(docs[d])
            /\ u.summary = docs[d].summary /\ u.refs = new[d]
        BY <1>4, <2>1, <2>2, <3>1 DEF Row, Link
      <3>3. docs'[d] = u
        BY <1>2, <2>2, <3>1
      <3> QED
        BY <2>2, <3>2, <3>3
    <2>3. CASE d \notin DOMAIN new
      <3>1. docs'[d] = docs[d]
        BY <1>2, <2>3
      <3> QED
        BY <2>1, <2>3, <3>1
    <2> QED
      BY <2>2, <2>3
  <1>7. Steady
    <2>1. \A d \in DOMAIN docs : docs[d].rev <= docs'[d].rev
      BY <1>3, <1>6, RowsAreTyped
    <2>2. \A q \in Reqs : Kind(q, "import") => Range(req[q].minted) \cap DOMAIN said = {}
      BY <1>3 DEF TypeInv, ReqType, RequestType, ImportType
    <2> QED
      BY <1>2, <1>5, <1>6, <2>1, <2>2 DEF Steady
  <1>8. RowsType' /\ SaidType' /\ DOMAIN vectors' = DOMAIN docs'
    <2>1. docs' \in [DOMAIN docs' -> Row]
      BY <1>2, <1>5, <1>6
    <2> QED
      BY <1>2, <1>3, <1>5, <1>6, <2>1 DEF TypeInv, RowsType, SaidType
  <1>9. EmbeddingFollows'
    BY <1>2, <1>5, <1>6 DEF Inv, EmbeddingFollows, Embedded
  <1>10. ASSUME NEW d \in DOMAIN docs' \ raced'
         PROVE  Carries(d, docs[d].refs)'
    <2>1. PICK s : s = docs'[d].refs
      OBVIOUS
    <2>2. d \in DOMAIN docs /\ d \notin raced
      BY <1>2, <1>5, <1>10
    <2>3. Carries(d, s)
      <3>1. CASE d \in DOMAIN new
        <4>1. docs[d].rev = revs[d] /\ s = new[d]
          BY <1>2, <1>6, <1>10, <2>1, <2>2, <3>1
        <4> QED
          BY <1>1, <1>3, <2>2, <3>1, <4>1 DEF Inv, RequestsKnow, RequestKnows, RemapKnows
      <3>2. CASE d \notin DOMAIN new
        <4>1. s = docs[d].refs
          BY <1>6, <2>1, <2>2, <3>2
        <4> QED
          BY <2>2, <4>1 DEF Inv, RowsCarry
      <3> QED
        BY <3>1, <3>2
    <2>4. Carries(d, s)'
      BY <1>2, <1>6, <2>2, <2>3, CarriesStays
    <2> QED
      BY <2>1, <2>4
  <1> QED
    BY <1>7, <1>8, <1>9, <1>10 DEF RowsGood, RowsCarry

(* A resolved list carries what the list did: a name is the id it became,  *)
(* which is recorded, or is in the list that has been kept.                *)
LEMMA ResolutionCarries ==
    ASSUME NEW d, NEW index, NEW s \in Seq(Refs),
           DOMAIN index \subseteq Ids, IsFiniteSet(DOMAIN index),
           Carries(d, s), said'[d] = said[d],
           resolved \subseteq resolved',
           \A x \in Resolvable(index, s) : <<d, x, Target(index, x)>> \in resolved',
           docs[d].kept \subseteq docs'[d].kept,
           Dropped(index, s) # {} => s \in docs'[d].kept
    PROVE  Carries(d, Resolution(index, s))'
  <1> DEFINE after == Resolution(index, s)
  <1>1. Elements(after) =
          {x \in Elements(s) : x \notin Resolvable(index, s) \cup Dropped(index, s)}
             \cup {Target(index, x) : x \in Resolvable(index, s)}
    BY ResolutionIs
  <1>2. \A x, y : Means(d, x, y) => Means(d, x, y)'
    BY DEF Means, Same
  <1>3. ASSUME NEW x \in Resolvable(index, s)
        PROVE  x \in Names /\ Means(d, x, Target(index, x))'
    <2>1. x \in Names /\ Target(index, x) \in Ids
      BY TargetIsTheOne
    <2>2. PICK z : z = Target(index, x)
      OBVIOUS
    <2>3. z \in Ids /\ <<d, x, z>> \in resolved' /\ Same(z, z)
      BY <2>1, <2>2, SameIsEquivalence
    <2>4. Means(d, x, z)'
      BY <2>3 DEF Means
    <2> QED
      BY <2>1, <2>2, <2>4
  <1>4. ASSUME NEW x \in Elements(said[d])
        PROVE  \/ \E z \in Elements(after) : Means(d, x, z)'
               \/ \E list \in docs'[d].kept : x \in Elements(list)
    <2>1. CASE \E list \in docs[d].kept : x \in Elements(list)
      BY <2>1
    <2>2. ASSUME NEW y \in Elements(s), Means(d, x, y)
          PROVE  \/ \E z \in Elements(after) : Means(d, x, z)'
                 \/ \E list \in docs'[d].kept : x \in Elements(list)
      <3>1. CASE y \in Resolvable(index, s)
        <4>1. x = y
          BY <1>3, <2>2, <3>1, OnlyItselfMeansAName
        <4>2. Target(index, y) \in Elements(after)
          BY <1>1, <3>1
        <4> QED
          BY <1>3, <3>1, <4>1, <4>2
      <3>2. CASE y \in Dropped(index, s)
        <4>1. y \in Names
          BY <3>2 DEF Dropped
        <4>2. x = y
          BY <2>2, <4>1, OnlyItselfMeansAName
        <4> QED
          BY <2>2, <3>2, <4>2
      <3>3. CASE y \notin Resolvable(index, s) \cup Dropped(index, s)
        <4>1. y \in Elements(after)
          BY <1>1, <3>3
        <4> QED
          BY <1>2, <2>2, <4>1
      <3> QED
        BY <3>1, <3>2, <3>3
    <2> QED
      BY <2>1, <2>2 DEF Carries
  <1>5. ASSUME NEW z \in Elements(after)
        PROVE  \E x \in Elements(said[d]) : Means(d, x, z)'
    <2>1. CASE z \in Elements(s)
      BY <1>2, <2>1 DEF Carries, Explained
    <2>2. ASSUME NEW y \in Resolvable(index, s), z = Target(index, y)
          PROVE  \E x \in Elements(said[d]) : Means(d, x, z)'
      <3>1. y \in Elements(s)
        BY TargetIsTheOne
      <3>2. PICK x \in Elements(said[d]) : Means(d, x, y)
        BY <3>1 DEF Carries, Explained
      <3>3. x = y
        BY <1>3, <3>2, OnlyItselfMeansAName
      <3> QED
        BY <1>3, <2>2, <3>2, <3>3
    <2> QED
      BY <1>1, <2>1, <2>2
  <1> HIDE DEF after
  <1>6. Carries(d, after)'
    BY <1>4, <1>5 DEF Carries, Explained
  <1> QED
    BY <1>6 DEF after

LEMMA ResolveWriteKeeps ==
    ASSUME Inv, NEW r \in Reqs, ResolveWrite(r)
    PROVE  Steady /\ RowsGood'
  <1>1. PICK changes, written :
            /\ changes = req[r].changes
            /\ written = {d \in DOMAIN changes : Unmoved(d, changes[d])}
    OBVIOUS
  <1>2. /\ docs' = [d \in DOMAIN docs |->
                      IF d \in written
                        THEN [docs[d] EXCEPT !.refs = changes[d].after,
                                             !.kept = IF @ = {} THEN {changes[d].before}
                                                                ELSE @]
                        ELSE docs[d]]
        /\ resolved' = resolved \cup
              {<<e[1], e[2], Target(Index, e[2])>> : e \in
                  {e \in written \X Names : e[2] \in Resolvable(Index, docs[e[1]].refs)}}
        /\ vectors' = vectors /\ said' = said /\ raced' = raced
    BY <1>1 DEF ResolveWrite
  <1>3. TypeInv /\ Kind(r, "resolve") /\ req'[r] = Idle
    BY GotoDoes DEF Inv, ResolveWrite, Kind, Finish
  <1>4. DOMAIN Index \subseteq Ids /\ IsFiniteSet(DOMAIN Index) /\ DOMAIN docs' = DOMAIN docs
    BY <1>2, <1>3, RowsAreTyped
  <1>5. ASSUME NEW d \in written
        PROVE  /\ d \in DOMAIN docs /\ docs[d].refs \in Seq(Refs)
               /\ changes[d].before = docs[d].refs
               /\ changes[d].after = Resolution(Index, docs[d].refs)
               /\ changes[d].after \in Seq(Refs)
               /\ Dropped(Index, docs[d].refs) # {} => docs[d].kept \subseteq {docs[d].refs}
    <2>1. /\ d \in DOMAIN docs /\ docs[d].refs = changes[d].before
          /\ changes[d].before \in Seq(Refs)
          /\ changes[d].after = Resolution(Index, changes[d].before)
          /\ Dropped(Index, changes[d].before) # {} => docs[d].kept \subseteq {changes[d].before}
      BY <1>1, <1>3 DEF Inv, RequestsKnow, RequestKnows, ResolverHolds, Unmoved
    <2>2. Resolution(Index, changes[d].before) \in Seq(Refs)
      BY <1>4, <2>1, ResolutionIs
    <2> QED
      BY <2>1, <2>2
  <1>6. ASSUME NEW d \in DOMAIN docs
        PROVE  /\ docs'[d] \in Row
               /\ docs'[d].rev = docs[d].rev /\ docs'[d].text = docs[d].text
               /\ Link(docs'[d]) = Link(docs[d]) /\ docs'[d].summary = docs[d].summary
               /\ docs[d].kept \subseteq docs'[d].kept
               /\ d \notin written => docs'[d].refs = docs[d].refs
               /\ d \in written =>
                     /\ docs'[d].refs = Resolution(Index, docs[d].refs)
                     /\ docs'[d].kept = IF docs[d].kept = {} THEN {docs[d].refs}
                                                             ELSE docs[d].kept
    <2>1. docs[d] \in Row
      BY <1>3, RowsAreTyped
    <2>2. CASE d \in written
      <3>1. PICK m : m = IF docs[d].kept = {} THEN {changes[d].before} ELSE docs[d].kept
        OBVIOUS
      <3>2. m \subseteq Seq(Refs) /\ docs[d].kept \subseteq m
        BY <1>5, <2>1, <2>2, <3>1 DEF Row
      <3>3. PICK u : u = [docs[d] EXCEPT !.refs = changes[d].after, !.kept = m]
        OBVIOUS
      <3>4. /\ u \in Row /\ u.rev = docs[d].rev /\ u.text = docs[d].text
            /\ u.kept = m /\ Link(u) = Link(docs[d])
            /\ u.summary = docs[d].summary /\ u.refs = changes[d].after
        BY <1>5, <2>1, <2>2, <3>2, <3>3 DEF Row, Link
      <3>5. docs'[d] = u
        BY <1>2, <2>2, <3>1, <3>3
      <3> QED
        BY <1>5, <2>2, <3>1, <3>2, <3>4, <3>5
    <2>3. CASE d \notin written
      <3>1. docs'[d] = docs[d]
        BY <1>2, <2>3
      <3> QED
        BY <2>1, <2>3, <3>1
    <2> QED
      BY <2>2, <2>3
  <1>7. Steady
    <2>1. \A d \in DOMAIN docs : docs[d].rev <= docs'[d].rev
      <3>1. \A d \in DOMAIN docs : docs'[d].rev = docs[d].rev
        BY <1>6
      <3>2. \A d \in DOMAIN docs : docs[d].rev <= docs[d].rev
        BY <1>3, RowsAreTyped
      <3> QED
        BY <3>1, <3>2
    <2>2. \A q \in Reqs : Kind(q, "import") => Range(req[q].minted) \cap DOMAIN said = {}
      BY <1>3 DEF TypeInv, ReqType, RequestType, ImportType
    <2>3. ASSUME NEW q \in Reqs, Kind(q, "resolve"), req'[q] = req[q]
          PROVE  FALSE
      <3>1. q = r
        BY <1>3, <2>3 DEF TypeInv, Apart
      <3> QED
        BY <1>3, <2>3, <3>1 DEF Kind, Idle
    <2>4. resolved \subseteq resolved'
      BY <1>2
    <2> QED
      BY <1>2, <1>4, <1>6, <2>1, <2>2, <2>3, <2>4 DEF Steady
  <1>8. RowsType' /\ SaidType' /\ DOMAIN vectors' = DOMAIN docs'
    <2>1. docs' \in [DOMAIN docs' -> Row]
      BY <1>2, <1>4, <1>6
    <2> QED
      BY <1>2, <1>3, <1>4, <1>6, <2>1 DEF TypeInv, RowsType, SaidType
  <1>9. EmbeddingFollows'
    BY <1>2, <1>4, <1>6 DEF Inv, EmbeddingFollows, Embedded
  <1>10. ASSUME NEW d \in DOMAIN docs' \ raced'
         PROVE  Carries(d, docs[d].refs)'
    <2>1. PICK s, i : s = docs[d].refs /\ i = Index
      OBVIOUS
    <2>2. /\ d \in DOMAIN docs /\ d \notin raced /\ Carries(d, s)
          /\ said'[d] = said[d] /\ resolved \subseteq resolved'
      BY <1>2, <1>4, <1>10, <2>1 DEF Inv, RowsCarry
    <2>3. CASE d \in written
      <3>1. \A x \in Resolvable(i, s) : <<d, x, Target(i, x)>> \in resolved'
        <4>1. ASSUME NEW x \in Resolvable(i, s)
              PROVE  <<d, x, Target(i, x)>> \in resolved'
          <5>1. x \in Names
            BY DEF Resolvable
          <5>2. PICK e : e = <<d, x>>
            OBVIOUS
          <5>3. /\ e \in written \X Names /\ e[1] = d /\ e[2] = x
                /\ e[2] \in Resolvable(Index, docs[e[1]].refs)
            BY <2>1, <2>3, <5>1, <5>2
          <5>4. <<e[1], e[2], Target(Index, e[2])>> \in resolved'
            BY <1>2, <5>3
          <5> QED
            BY <2>1, <5>3, <5>4
        <4> QED
          BY <4>1
      <3>2. Dropped(i, s) # {} => s \in docs'[d].kept
        BY <1>5, <1>6, <2>1, <2>2, <2>3
      <3>3. s \in Seq(Refs) /\ DOMAIN i \subseteq Ids /\ IsFiniteSet(DOMAIN i)
        BY <1>4, <1>5, <2>1, <2>3
      <3>4. docs[d].kept \subseteq docs'[d].kept
        BY <1>6, <2>2
      <3>5. Carries(d, Resolution(i, s))'
        BY <2>2, <3>1, <3>2, <3>3, <3>4, ResolutionCarries
      <3>6. Resolution(i, s) = docs'[d].refs
        BY <1>6, <2>1, <2>2, <2>3
      <3> QED
        BY <3>5, <3>6
    <2>4. CASE d \notin written
      <3>1. Carries(d, s)'
        BY <1>6, <2>2, CarriesStays
      <3>2. s = docs'[d].refs
        BY <1>6, <2>1, <2>2, <2>4
      <3> QED
        BY <3>1, <3>2
    <2> QED
      BY <2>3, <2>4
  <1> QED
    BY <1>7, <1>8, <1>9, <1>10 DEF RowsGood, RowsCarry

LEMMA WriteSummariesDoes ==
    ASSUME Inv, NEW r \in Reqs, WriteSummaries(r)
    PROVE  /\ DOMAIN docs' = DOMAIN docs /\ DOMAIN vectors' = DOMAIN docs
           /\ docs' \in [DOMAIN docs' -> {docs'[e] : e \in DOMAIN docs'}]
           /\ said' = said /\ resolved' = resolved /\ raced' = raced /\ ~Locked
           /\ \A d \in DOMAIN docs :
                 \/ docs'[d] = docs[d] /\ vectors'[d] = vectors[d]
                 \/ /\ docs[d].summary = NoSummary
                    /\ docs'[d] \in Row /\ docs'[d].rev = docs[d].rev + 1
                    /\ docs'[d].text = docs[d].text /\ docs'[d].summary = docs[d].text
                    /\ docs'[d].refs = docs[d].refs /\ docs'[d].kept = docs[d].kept
                    /\ vectors'[d] = <<docs[d].text, docs[d].text>>
  <1>1. PICK work, written :
            /\ work = req[r].work
            /\ written = {d \in DOMAIN work : Writable(d, work[d]) /\ docs[d].rev < MaxRev}
    OBVIOUS
  <1>2. /\ docs' = [d \in DOMAIN docs |->
                      IF d \in written
                        THEN [docs[d] EXCEPT !.summary = work[d].about, !.rev = @ + 1]
                        ELSE docs[d]]
        /\ vectors' = [d \in DOMAIN vectors |->
                         IF d \in written THEN <<work[d].text, work[d].about>> ELSE vectors[d]]
        /\ said' = said /\ resolved' = resolved /\ raced' = raced /\ ~Locked
    BY <1>1 DEF WriteSummaries, history
  <1>3. /\ DOMAIN docs' = DOMAIN docs /\ DOMAIN vectors = DOMAIN docs
        /\ DOMAIN vectors' = DOMAIN docs /\ Kind(r, "apply")
    BY <1>2 DEF Inv, TypeInv, WriteSummaries, Kind
  <1>4. ASSUME NEW d \in written
        PROVE  /\ d \in DOMAIN docs /\ docs[d].summary = NoSummary
               /\ docs[d].rev < MaxRev
               /\ work[d].text = docs[d].text /\ work[d].about = docs[d].text
    <2>1. /\ d \in DOMAIN work /\ d \in DOMAIN docs /\ docs[d].summary = NoSummary
          /\ docs[d].rev = work[d].rev /\ docs[d].rev < MaxRev
      BY <1>1 DEF Writable, Undescribed
    <2> QED
      BY <1>1, <1>3, <2>1 DEF Inv, RequestsKnow, RequestKnows, ReadsAreTexts
  <1>5. ASSUME NEW d \in written
        PROVE  /\ docs'[d] \in Row /\ docs'[d].rev = docs[d].rev + 1
               /\ docs'[d].text = docs[d].text /\ docs'[d].summary = docs[d].text
               /\ docs'[d].refs = docs[d].refs /\ docs'[d].kept = docs[d].kept
               /\ vectors'[d] = <<docs[d].text, docs[d].text>>
    <2>1. docs[d] \in Row /\ docs[d].rev \in 1..MaxRev /\ docs[d].text \in 1..MaxRev
      BY <1>4, RowsAreTyped DEF Inv
    <2>2. docs[d].rev + 1 \in 1..MaxRev /\ docs[d].text \in 0..MaxRev
      BY <1>4, <2>1, RepairsAssumption
    <2>3. PICK u : u = [docs[d] EXCEPT !.summary = work[d].about, !.rev = docs[d].rev + 1]
      OBVIOUS
    <2>4. /\ u \in Row /\ u.rev = docs[d].rev + 1 /\ u.text = docs[d].text
          /\ u.summary = docs[d].text /\ u.refs = docs[d].refs /\ u.kept = docs[d].kept
      BY <1>4, <2>1, <2>2, <2>3 DEF Row
    <2>5. docs'[d] = u
      BY <1>2, <1>4, <2>3
    <2>6. vectors'[d] = <<docs[d].text, docs[d].text>>
      BY <1>2, <1>3, <1>4
    <2> QED
      BY <2>4, <2>5, <2>6
  <1>6. \A d \in DOMAIN docs : d \notin written => /\ docs'[d] = docs[d]
                                                   /\ vectors'[d] = vectors[d]
    BY <1>2, <1>3
  <1> QED
    BY <1>2, <1>3, <1>4, <1>5, <1>6

LEMMA WriteSummariesKeeps ==
    ASSUME Inv, NEW r \in Reqs, WriteSummaries(r)
    PROVE  Steady /\ RowsGood'
  <1>1. /\ DOMAIN docs' = DOMAIN docs /\ DOMAIN vectors' = DOMAIN docs
        /\ docs' \in [DOMAIN docs' -> {docs'[e] : e \in DOMAIN docs'}]
        /\ said' = said /\ resolved' = resolved /\ raced' = raced /\ ~Locked
    BY WriteSummariesDoes
  <1>2. ASSUME NEW d \in DOMAIN docs
        PROVE  /\ docs'[d] \in Row /\ docs'[d].text <= docs'[d].rev
               /\ docs[d].rev <= docs'[d].rev
               /\ docs'[d].text = docs[d].text /\ docs'[d].refs = docs[d].refs
               /\ docs'[d].kept = docs[d].kept
               /\ vectors'[d] = Embedded(docs'[d])
    <2>1. /\ docs[d] \in Row /\ docs[d].rev \in Int /\ docs[d].text \in Int
          /\ docs[d].text <= docs[d].rev
      BY RowsAreTyped DEF Inv
    <2>2. CASE docs'[d] = docs[d] /\ vectors'[d] = vectors[d]
      BY <2>1, <2>2 DEF Inv, EmbeddingFollows, Embedded
    <2>3. CASE /\ docs'[d] \in Row /\ docs'[d].rev = docs[d].rev + 1
               /\ docs'[d].text = docs[d].text /\ docs'[d].summary = docs[d].text
               /\ docs'[d].refs = docs[d].refs /\ docs'[d].kept = docs[d].kept
               /\ vectors'[d] = <<docs[d].text, docs[d].text>>
      BY <2>1, <2>3 DEF Embedded
    <2> QED
      BY <2>2, <2>3, WriteSummariesDoes
  <1>3. Steady
    <2>1. \A q \in Reqs : Kind(q, "import") => Range(req[q].minted) \cap DOMAIN said = {}
      BY DEF Inv, TypeInv, ReqType, RequestType, ImportType
    <2>2. \A q \in Reqs : ~Kind(q, "resolve")
      BY <1>1 DEF Locked, Kind
    <2> QED
      BY <1>1, <1>2, <2>1, <2>2 DEF Steady
  <1>4. RowsType' /\ SaidType' /\ DOMAIN vectors' = DOMAIN docs'
    <2>1. docs' \in [DOMAIN docs' -> Row]
      BY <1>1, <1>2
    <2> QED
      BY <1>1, <1>2, <2>1 DEF Inv, TypeInv, RowsType, SaidType
  <1>5. EmbeddingFollows'
    BY <1>1, <1>2 DEF EmbeddingFollows, Embedded
  <1>6. ASSUME NEW d \in DOMAIN docs' \ raced'
        PROVE  Carries(d, docs[d].refs)'
    <2>1. PICK s : s = docs[d].refs
      OBVIOUS
    <2>2. d \in DOMAIN docs /\ Carries(d, s)
      BY <1>1, <1>6, <2>1 DEF Inv, RowsCarry
    <2>3. Carries(d, s)' /\ s = docs'[d].refs
      BY <1>1, <1>2, <2>1, <2>2, CarriesStays
    <2> QED
      BY <2>3
  <1> QED
    BY <1>3, <1>4, <1>5, <1>6 DEF RowsGood, RowsCarry

-----------------------------------------------------------------------------
(* The import.                                                             *)

LEMMA MintsAre ==
    ASSUME NEW minted \in Mints
    PROVE  /\ DOMAIN minted = DOMAIN Files
           /\ \A f \in DOMAIN Files : minted[f] \in Ids /\ minted[f] \in Range(minted)
           /\ \A d \in Range(minted) : \E f \in DOMAIN Files : minted[f] = d
           /\ \A f, g \in DOMAIN Files : minted[f] = minted[g] => f = g
           /\ Range(minted) \subseteq Ids
           /\ Range(minted) \subseteq Reserved
           /\ IsFiniteSet(Range(minted))
  <1>1. minted \in [DOMAIN Files -> Ids] /\ IsInjective(minted)
    BY RepairsAssumption DEF Injection
  <1>2. /\ DOMAIN minted = DOMAIN Files
        /\ \A f \in DOMAIN Files : minted[f] \in Ids /\ minted[f] \in Range(minted)
        /\ \A d \in Range(minted) : \E f \in DOMAIN Files : minted[f] = d
        /\ Range(minted) \subseteq Ids
    BY <1>1 DEF Range
  <1>3. \A f, g \in DOMAIN Files : minted[f] = minted[g] => f = g
    BY <1>1, <1>2 DEF IsInjective
  <1>4. minted \in Surjection(DOMAIN Files, Range(minted))
    BY <1>1, <1>2 DEF Surjection
  <1>5. IsFiniteSet(Range(minted))
    BY <1>4, FS_Surjection, RepairsAssumption
  <1> QED
    BY <1>2, <1>3, <1>5 DEF Reserved

LEMMA FilesAre ==
    ASSUME NEW f \in DOMAIN Files
    PROVE  /\ Files[f].title \in Names /\ f \in Slugs /\ f # NoFile
           /\ Files[f].related \in Seq(Refs)
           /\ Files[f].sources \in Seq(Ids \cup Formers) /\ Files[f].sources \in Seq(Refs)
           /\ Files[f].related \o Files[f].sources \in Seq(Refs)
           /\ Elements(Files[f].related \o Files[f].sources)
                = Elements(Files[f].related) \cup Elements(Files[f].sources)
  <1>1. /\ Files[f].title \in Names /\ f \in Slugs /\ f # NoFile
        /\ Files[f].related \in Seq(Refs)
        /\ Files[f].sources \in Seq(Ids \cup Formers)
    BY RepairsAssumption
  <1>2. Files[f].sources \in Seq(Refs)
    BY <1>1 DEF Refs
  <1> QED
    BY <1>1, <1>2, ElementsOfConcat

(* The corpus with the pages in it.                                        *)
LEMMA JoinedIs ==
    ASSUME Inv, NEW minted \in Mints
    PROVE  /\ DOMAIN Joined(minted) = DOMAIN docs \cup Range(minted)
           /\ DOMAIN Joined(minted) \subseteq Ids /\ IsFiniteSet(DOMAIN Joined(minted))
  <1>1. DOMAIN Joined(minted) = DOMAIN docs \cup Range(minted)
    BY DEF Joined
  <1>2. /\ DOMAIN docs \subseteq Ids /\ IsFiniteSet(DOMAIN docs)
        /\ Range(minted) \subseteq Ids /\ IsFiniteSet(Range(minted))
    BY RowsAreTyped, MintsAre DEF Inv
  <1>3. IsFiniteSet(DOMAIN docs \cup Range(minted))
    BY <1>2, FS_Union
  <1> QED
    BY <1>1, <1>2, <1>3

(* What a page is planned to cite.                                         *)
LEMMA CitedIs ==
    ASSUME Inv, NEW minted \in Mints, NEW f \in DOMAIN Files
    PROVE  /\ Cited(minted, f) \in Seq(Refs)
           /\ Elements(Cited(minted, f)) =
                Elements(Resolution(Joined(minted), Files[f].related))
                  \cup Elements(Remapped(Notes, Files[f].sources))
           /\ \A x \in Resolvable(Joined(minted), Files[f].related) :
                 /\ x \in Elements(Files[f].related)
                 /\ Target(Joined(minted), x) \in Ids
                 /\ Target(Joined(minted), x) \in DOMAIN docs \cup Range(minted)
                 /\ Target(Joined(minted), x) \in Elements(Cited(minted, f))
                 /\ <<minted[f], x, Target(Joined(minted), x)>> \in Links(minted, f)
           /\ \A y \in Elements(Resolution(Joined(minted), Files[f].related)) :
                 \/ /\ y \in Elements(Files[f].related)
                    /\ y \notin Resolvable(Joined(minted), Files[f].related)
                    /\ y \notin Dropped(Joined(minted), Files[f].related)
                 \/ \E x \in Resolvable(Joined(minted), Files[f].related) :
                       y = Target(Joined(minted), x)
  <1>1. PICK j, s : j = Joined(minted) /\ s = Files[f].related
    OBVIOUS
  <1>2. /\ DOMAIN j = DOMAIN docs \cup Range(minted)
        /\ DOMAIN j \subseteq Ids /\ IsFiniteSet(DOMAIN j)
    BY <1>1, JoinedIs
  <1>3. s \in Seq(Refs) /\ Files[f].sources \in Seq(Refs)
    BY <1>1, FilesAre
  <1>4. /\ Resolution(j, s) \in Seq(Refs)
        /\ Elements(Resolution(j, s)) =
             {x \in Elements(s) : x \notin Resolvable(j, s) \cup Dropped(j, s)}
                \cup {Target(j, x) : x \in Resolvable(j, s)}
    BY <1>2, <1>3, ResolutionIs
  <1>5. Remapped(Notes, Files[f].sources) \in Seq(Refs)
    <2>1. Notes \subseteq Ids
      BY RowsAreTyped DEF Inv, Notes
    <2> QED
      BY <1>3, <2>1, RemappedIs
  <1>6. PICK a, b : a = Resolution(j, s) /\ b = Remapped(Notes, Files[f].sources)
    OBVIOUS
  <1>7. a \o b \in Seq(Refs) /\ Elements(a \o b) = Elements(a) \cup Elements(b)
    BY <1>4, <1>5, <1>6, ElementsOfConcat
  <1>8. Cited(minted, f) = a \o b
    BY <1>1, <1>6 DEF Cited
  <1>9. ASSUME NEW x \in Resolvable(j, s)
        PROVE  /\ x \in Elements(s) /\ Target(j, x) \in Ids
               /\ Target(j, x) \in DOMAIN docs \cup Range(minted)
               /\ Target(j, x) \in Elements(a)
               /\ <<minted[f], x, Target(j, x)>> \in Links(minted, f)
    BY <1>1, <1>2, <1>3, <1>4, <1>6, TargetIsTheOne DEF Links
  <1> QED
    BY <1>1, <1>4, <1>6, <1>7, <1>8, <1>9

(* The import of r goes through.                                          *)
Taken(r) ==
    /\ StillPlanned(req[r].minted, req[r].cited)
    /\ DOMAIN docs' = DOMAIN docs \cup Range(req[r].minted)
    /\ DOMAIN vectors' = DOMAIN vectors \cup Range(req[r].minted)
    /\ DOMAIN said' = DOMAIN said \cup Range(req[r].minted)
    /\ docs' \in [DOMAIN docs' -> {docs'[e] : e \in DOMAIN docs'}]
    /\ said' \in [DOMAIN said' -> {said'[e] : e \in DOMAIN said'}]
    /\ resolved' = resolved \cup req[r].links
    /\ \A d \in DOMAIN docs : d \notin Range(req[r].minted) /\ docs'[d] = docs[d]
    /\ \A d \in DOMAIN docs : vectors'[d] = vectors[d]
    /\ \A d \in DOMAIN said : said'[d] = said[d]
    /\ \A f \in DOMAIN Files :
          LET d == req[r].minted[f]
          IN /\ docs'[d] = [rev |-> 1, text |-> 1, title |-> Files[f].title,
                            slug |-> Files[f].title, summary |-> 1,
                            refs |-> req[r].cited[f], file |-> f,
                            kept |-> IF Files[f].related = << >> THEN {} ELSE {Files[f].related}]
             /\ vectors'[d] = Embedded(docs'[d])
             /\ said'[d] = Files[f].related \o Files[f].sources

LEMMA ImportWriteDoes ==
    ASSUME Inv, NEW r \in Reqs, ImportWrite(r)
    PROVE  /\ raced' = raced /\ ~Locked /\ Kind(r, "import") /\ req'[r] = Idle
           /\ UNCHANGED <<docs, vectors, said, resolved>> \/ Taken(r)
  <1> DEFINE minted == req[r].minted
             cited == req[r].cited
  <1>2. /\ raced' = raced /\ ~Locked /\ Kind(r, "import") /\ req'[r] = Idle
    BY GotoDoes DEF ImportWrite, Kind, Finish, Inv
  <1>3. /\ minted \in Mints /\ Range(minted) \cap DOMAIN said = {}
        /\ DOMAIN docs \subseteq DOMAIN said /\ DOMAIN vectors = DOMAIN docs
    BY <1>2 DEF Inv, TypeInv, ReqType, RequestType, ImportType, RowsType
  <1> DEFINE Page(f) == [rev |-> 1, text |-> 1, title |-> Files[f].title,
                         slug |-> Files[f].title, summary |-> 1,
                         refs |-> cited[f], file |-> f,
                         kept |-> IF Files[f].related = << >> THEN {} ELSE {Files[f].related}]
             pages == [d \in Range(minted) |->
                         Page(CHOOSE f \in DOMAIN Files : minted[f] = d)]
  <1>4. \/ UNCHANGED <<docs, vectors, said, resolved>>
        \/ /\ StillPlanned(minted, cited)
           /\ docs' = Over(pages, docs)
           /\ vectors' = Over([d \in DOMAIN pages |-> Embedded(pages[d])], vectors)
           /\ said' = Over([d \in DOMAIN pages |-> Files[pages[d].file].related
                                                     \o Files[pages[d].file].sources], said)
           /\ resolved' = resolved \cup req[r].links
    BY DEF ImportWrite
  <1>5. DOMAIN pages = Range(minted)
    OBVIOUS
  <1>6. ASSUME NEW f \in DOMAIN Files
        PROVE  minted[f] \in Range(minted) /\ pages[minted[f]] = Page(f)
    <2>1. minted[f] \in Range(minted)
      BY <1>3, MintsAre
    <2>2. (CHOOSE g \in DOMAIN Files : minted[g] = minted[f]) = f
      BY <1>3, MintsAre
    <2> QED
      BY <2>1, <2>2
  <1>7. \A f \in DOMAIN Files : Page(f).file = f
    OBVIOUS
  <1>8. ASSUME StillPlanned(minted, cited),
               docs' = Over(pages, docs),
               vectors' = Over([d \in DOMAIN pages |-> Embedded(pages[d])], vectors),
               said' = Over([d \in DOMAIN pages |-> Files[pages[d].file].related
                                                     \o Files[pages[d].file].sources], said),
               resolved' = resolved \cup req[r].links
        PROVE  Taken(r)
    <2> HIDE DEF pages, Page
    <2>1. /\ DOMAIN docs' = DOMAIN docs \cup Range(minted)
          /\ DOMAIN vectors' = DOMAIN vectors \cup Range(minted)
          /\ DOMAIN said' = DOMAIN said \cup Range(minted)
      BY <1>5, <1>8 DEF Over
    <2>2. /\ docs' \in [DOMAIN docs' -> {docs'[e] : e \in DOMAIN docs'}]
          /\ said' \in [DOMAIN said' -> {said'[e] : e \in DOMAIN said'}]
      BY <1>8 DEF Over
    <2>3. ASSUME NEW d \in DOMAIN docs
          PROVE  d \notin Range(minted) /\ docs'[d] = docs[d] /\ vectors'[d] = vectors[d]
      BY <1>3, <1>5, <1>8 DEF Over
    <2>4. ASSUME NEW d \in DOMAIN said
          PROVE  said'[d] = said[d]
      BY <1>3, <1>5, <1>8 DEF Over
    <2>5. ASSUME NEW f \in DOMAIN Files
          PROVE  /\ docs'[minted[f]] = Page(f)
                 /\ vectors'[minted[f]] = Embedded(docs'[minted[f]])
                 /\ said'[minted[f]] = Files[f].related \o Files[f].sources
      <3>1. /\ minted[f] \in Range(minted) /\ minted[f] \in DOMAIN pages
            /\ pages[minted[f]] = Page(f)
        BY <1>5, <1>6
      <3>2. docs'[minted[f]] = Page(f)
        BY <1>8, <3>1 DEF Over
      <3>3. vectors'[minted[f]] = Embedded(Page(f))
        BY <1>8, <3>1 DEF Over
      <3>4. said'[minted[f]] = Files[f].related \o Files[f].sources
        BY <1>7, <1>8, <3>1 DEF Over
      <3> QED
        BY <3>2, <3>3, <3>4
    <2> QED
      BY <1>8, <2>1, <2>2, <2>3, <2>4, <2>5 DEF Taken, Page
  <1> QED
    BY <1>2, <1>4, <1>8

LEMMA ImportWriteKeeps ==
    ASSUME Inv, NEW r \in Reqs, ImportWrite(r)
    PROVE  Steady /\ RowsGood'
  <1>1. /\ raced' = raced /\ ~Locked /\ Kind(r, "import") /\ req'[r] = Idle
        /\ UNCHANGED <<docs, vectors, said, resolved>> \/ Taken(r)
    BY ImportWriteDoes
  <1>2. CASE UNCHANGED <<docs, vectors, said, resolved>>
    BY <1>1, <1>2, QuietDoes DEF Quiet, history
  <1>3. CASE Taken(r)
    <2>1. PICK minted, cited, links :
             minted = req[r].minted /\ cited = req[r].cited /\ links = req[r].links
      OBVIOUS
    <2>2. /\ TypeInv /\ minted \in Mints /\ Range(minted) \cap DOMAIN said = {}
          /\ DOMAIN docs \subseteq DOMAIN said /\ DOMAIN vectors = DOMAIN docs
          /\ \A f \in DOMAIN Files : cited[f] \in Seq(Refs)
      BY <1>1, <2>1 DEF Inv, TypeInv, ReqType, RequestType, ImportType, RowsType
    <2>3. /\ DOMAIN docs' = DOMAIN docs \cup Range(minted)
          /\ DOMAIN vectors' = DOMAIN docs'
          /\ DOMAIN said' = DOMAIN said \cup Range(minted)
          /\ resolved' = resolved \cup links
          /\ \A d \in DOMAIN docs : d \notin Range(minted) /\ docs'[d] = docs[d]
          /\ \A d \in DOMAIN docs : vectors'[d] = vectors[d]
          /\ \A d \in DOMAIN said : said'[d] = said[d]
      BY <1>3, <2>1, <2>2 DEF Taken
    <2>4. ASSUME NEW d \in Range(minted)
          PROVE  \E f \in DOMAIN Files :
                    /\ d = minted[f] /\ docs'[d] \in Row
                    /\ docs'[d].rev = 1 /\ docs'[d].text = 1
                    /\ docs'[d].refs = cited[f]
                    /\ docs'[d].kept = IF Files[f].related = << >> THEN {} ELSE {Files[f].related}
                    /\ vectors'[d] = Embedded(docs'[d])
                    /\ said'[d] = Files[f].related \o Files[f].sources
      <3>1. PICK f \in DOMAIN Files : d = minted[f]
        BY <2>2, MintsAre
      <3>2. PICK page, kept :
               /\ page = [rev |-> 1, text |-> 1, title |-> Files[f].title,
                          slug |-> Files[f].title, summary |-> 1,
                          refs |-> cited[f], file |-> f, kept |-> kept]
               /\ kept = IF Files[f].related = << >> THEN {} ELSE {Files[f].related}
        OBVIOUS
      <3>3. /\ docs'[d] = page /\ vectors'[d] = Embedded(docs'[d])
            /\ said'[d] = Files[f].related \o Files[f].sources
        BY <1>3, <2>1, <3>1, <3>2 DEF Taken
      <3>4. kept \subseteq Seq(Refs) /\ Files[f].title \in Names /\ f \in Slugs
        BY <3>2, FilesAre
      <3>5. page \in Row
        BY <2>2, <3>2, <3>4, RepairsAssumption DEF Row
      <3>6. /\ docs'[d].rev = 1 /\ docs'[d].text = 1 /\ docs'[d].refs = cited[f]
            /\ docs'[d].kept = IF Files[f].related = << >> THEN {} ELSE {Files[f].related}
        BY <3>2, <3>3
      <3> QED
        BY <3>1, <3>3, <3>5, <3>6
    <2>4a. ASSUME NEW d \in Range(minted)
           PROVE  /\ docs'[d] \in Row /\ docs'[d].text <= docs'[d].rev
                  /\ vectors'[d] = Embedded(docs'[d]) /\ said'[d] \in Seq(Refs)
      <3>1. PICK f \in DOMAIN Files :
               /\ docs'[d] \in Row /\ docs'[d].rev = 1 /\ docs'[d].text = 1
               /\ vectors'[d] = Embedded(docs'[d])
               /\ said'[d] = Files[f].related \o Files[f].sources
        BY <2>4
      <3> QED
        BY <3>1, FilesAre
    <2>5. Steady
      <3>1. ASSUME NEW q \in Reqs, Kind(q, "import"), req'[q] = req[q]
            PROVE  Range(req[q].minted) \cap DOMAIN said' = {}
        <4>1. q # r
          BY <1>1, <3>1 DEF Kind, Idle
        <4>2. Range(req[q].minted) \cap Range(minted) = {}
          BY <1>1, <2>1, <2>2, <3>1, <4>1 DEF TypeInv, Apart
        <4>3. Range(req[q].minted) \cap DOMAIN said = {}
          BY <2>2, <3>1 DEF TypeInv, ReqType, RequestType, ImportType
        <4> QED
          BY <2>3, <4>2, <4>3
      <3>2. \A q \in Reqs : ~Kind(q, "resolve")
        BY <1>1 DEF Locked, Kind
      <3>3. \A d \in DOMAIN docs : docs[d].rev <= docs[d].rev
        BY <2>2, RowsAreTyped
      <3>4. (DOMAIN docs' \ DOMAIN docs) \cap DOMAIN said = {}
        BY <2>2, <2>3
      <3> QED
        BY <1>1, <2>2, <2>3, <3>1, <3>2, <3>3, <3>4 DEF Steady
    <2>6. RowsType'
      <3>1. \A d \in DOMAIN docs' : docs'[d] \in Row /\ docs'[d].text <= docs'[d].rev
        BY <2>2, <2>3, <2>4a, RowsAreTyped
      <3>2. docs' \in [DOMAIN docs' -> Row]
        BY <1>3, <3>1 DEF Taken
      <3>3. IsFiniteSet(DOMAIN docs')
        <4>1. IsFiniteSet(DOMAIN docs) /\ IsFiniteSet(Range(minted))
          BY <2>2, MintsAre, RowsAreTyped
        <4> QED
          BY <2>3, <4>1, FS_Union
      <3> QED
        BY <2>2, <2>3, <3>1, <3>2, <3>3 DEF RowsType
    <2>7. SaidType'
      <3>1. \A d \in DOMAIN said' : said'[d] \in Seq(Refs)
        BY <2>2, <2>3, <2>4a DEF TypeInv, SaidType
      <3>2. said' \in [DOMAIN said' -> Seq(Refs)]
        BY <1>3, <3>1 DEF Taken
      <3> QED
        BY <2>2, <2>3, <3>2, MintsAre DEF TypeInv, SaidType
    <2>8. EmbeddingFollows'
      BY <2>2, <2>3, <2>4a DEF Inv, EmbeddingFollows, Embedded
    <2>9. ASSUME NEW d \in DOMAIN docs' \ raced'
          PROVE  Carries(d, docs[d].refs)'
      <3>1. CASE d \in DOMAIN docs
        <4>1. PICK s : s = docs[d].refs
          OBVIOUS
        <4>2. Carries(d, s)
          BY <1>1, <2>9, <3>1, <4>1 DEF Inv, RowsCarry
        <4>3. Carries(d, s)' /\ s = docs'[d].refs
          BY <2>2, <2>3, <3>1, <4>1, <4>2, CarriesStays
        <4> QED
          BY <4>3
      <3>2. CASE d \in Range(minted)
        <4>1. PICK f \in DOMAIN Files :
                 /\ d = minted[f] /\ docs'[d].refs = cited[f]
                 /\ docs'[d].kept = IF Files[f].related = << >> THEN {} ELSE {Files[f].related}
                 /\ said'[d] = Files[f].related \o Files[f].sources
          BY <2>4, <3>2
        <4>2. /\ Elements(said'[d]) = Elements(Files[f].related) \cup Elements(Files[f].sources)
              /\ Files[f].related \in Seq(Refs)
          BY <4>1, FilesAre
        <4>3. /\ \A y \in Elements(cited[f]) :
                    \/ \E x \in Elements(Files[f].sources) : Same(x, y)
                    \/ \E x \in Elements(Files[f].related) :
                          x = y \/ (y \in Ids /\ <<d, x, y>> \in links)
              /\ \A x \in Elements(Files[f].sources) : \E y \in Elements(cited[f]) : Same(x, y)
          BY <1>1, <2>1, <4>1 DEF Inv, RequestsKnow, RequestKnows, ImportKnows
        <4>4. \A x, y : /\ Same(x, y) => Means(d, x, y)'
                        /\ y \in Ids /\ <<d, x, y>> \in links => Means(d, x, y)'
          BY <2>3 DEF Means, Same
        <4>5. ASSUME NEW x \in Elements(said'[d])
              PROVE  \/ \E y \in Elements(cited[f]) : Means(d, x, y)'
                     \/ \E list \in docs'[d].kept : x \in Elements(list)
          <5>1. CASE x \in Elements(Files[f].sources)
            BY <4>3, <4>4, <5>1
          <5>2. CASE x \in Elements(Files[f].related)
            <6>1. Files[f].related # << >>
              BY <4>2, <5>2, ElementsOfSeq
            <6> QED
              BY <4>1, <5>2, <6>1
          <5> QED
            BY <4>2, <4>5, <5>1, <5>2
        <4>6. ASSUME NEW y \in Elements(cited[f])
              PROVE  \E x \in Elements(said'[d]) : Means(d, x, y)'
          BY <4>2, <4>3, <4>4, SameIsEquivalence
        <4>7. PICK s : s = cited[f]
          OBVIOUS
        <4>8. Carries(d, s)'
          BY <4>5, <4>6, <4>7 DEF Carries, Explained
        <4> QED
          BY <4>1, <4>7, <4>8
      <3> QED
        BY <2>3, <3>1, <3>2
    <2> QED
      BY <2>2, <2>3, <2>5, <2>6, <2>7, <2>8, <2>9 DEF RowsGood, RowsCarry
  <1> QED
    BY <1>1, <1>2, <1>3

-----------------------------------------------------------------------------
(* What a request knows from its own step on.                              *)

LEMMA IdleIsGood ==
    ASSUME NEW r \in Reqs, req'[r] = Idle
    PROVE  RequestType(r)' /\ RequestKnows(r)'
  <1>1. req'[r].pc = "idle"
    BY DEF Idle
  <1> QED
    BY <1>1 DEF RequestType, RequestKnows, ReadsAreTexts, AmendKnows, RemapKnows,
                ResolverHolds, ImportKnows, Kind

LEMMA BeginAmendIsGood ==
    ASSUME Inv, NEW r \in Reqs, NEW d \in Ids, BeginAmend(r, d)
    PROVE  /\ RequestType(r)' /\ RequestKnows(r)' /\ Quiet
           /\ req'[r].pc = "amend" /\ \A p \in Reqs : p # r => req'[p] = req[p]
           /\ DOMAIN req' = Reqs
  <1>1. PICK row, s : row = docs[d] /\ s = row.refs
    OBVIOUS
  <1>2. /\ d \in DOMAIN docs /\ Quiet
        /\ Goto(r, [pc |-> "amend", doc |-> d, row |-> row])
    BY <1>1 DEF BeginAmend, Quiet
  <1>3. /\ docs' = docs /\ said' = said /\ resolved' = resolved /\ raced' = raced
    BY <1>2 DEF Quiet, history
  <1>4. /\ req'[r] = [pc |-> "amend", doc |-> d, row |-> row]
        /\ \A p \in Reqs : p # r => req'[p] = req[p]
        /\ DOMAIN req' = Reqs
    BY <1>2, GotoDoes DEF Inv
  <1>5. req'[r].pc = "amend" /\ req'[r].doc = d /\ req'[r].row = row
    BY <1>4
  <1>6. row \in Row /\ row.rev <= row.rev /\ d \in DOMAIN said
    BY <1>1, <1>2, RowsAreTyped DEF Inv, TypeInv, RowsType
  <1>7. RequestType(r)'
    BY <1>1, <1>3, <1>5, <1>6 DEF RequestType, AmendType, Kind
  <1>8. ASSUME d \notin raced
        PROVE  Carries(d, s)'
    <2>1. Carries(d, s)
      BY <1>1, <1>2, <1>8 DEF Inv, RowsCarry
    <2> QED
      BY <1>3, <2>1, CarriesStays
  <1>9. AmendKnows(r)'
    BY <1>1, <1>3, <1>5, <1>8 DEF AmendKnows
  <1>10. RequestKnows(r)'
    BY <1>5, <1>9 DEF RequestKnows, ReadsAreTexts, RemapKnows, ResolverHolds, ImportKnows, Kind
  <1> QED
    BY <1>2, <1>4, <1>5, <1>7, <1>10

LEMMA RemapIsGood ==
    ASSUME Inv, NEW r \in Reqs, Remap(r)
    PROVE  /\ RequestType(r)' /\ RequestKnows(r)' /\ Quiet
           /\ req'[r].pc = "remap" /\ \A p \in Reqs : p # r => req'[p] = req[p]
           /\ DOMAIN req' = Reqs
  <1>1. PICK moved, changes, revs :
            /\ moved \subseteq DOMAIN docs
            /\ changes = [d \in moved |-> Remapped(DOMAIN docs, docs[d].refs)]
            /\ revs = [d \in moved |-> docs[d].rev]
            /\ Goto(r, [pc |-> "remap", changes |-> changes, revs |-> revs])
    <2>1. PICK moved : moved = {d \in DOMAIN docs :
                                   Remapped(DOMAIN docs, docs[d].refs) # docs[d].refs}
      OBVIOUS
    <2>2. moved \subseteq DOMAIN docs
      BY <2>1
    <2>3. Goto(r, [pc |-> "remap",
                   changes |-> [d \in moved |-> Remapped(DOMAIN docs, docs[d].refs)],
                   revs |-> [d \in moved |-> docs[d].rev]])
      BY <2>1 DEF Remap
    <2> QED
      BY <2>2, <2>3
  <1>2. /\ Quiet /\ docs' = docs /\ said' = said /\ resolved' = resolved /\ raced' = raced
    BY DEF Remap, Quiet, history
  <1>3. /\ req'[r] = [pc |-> "remap", changes |-> changes, revs |-> revs]
        /\ \A p \in Reqs : p # r => req'[p] = req[p]
        /\ DOMAIN req' = Reqs
    BY <1>1, GotoDoes DEF Inv
  <1>4. req'[r].pc = "remap" /\ req'[r].changes = changes /\ req'[r].revs = revs
    BY <1>3
  <1>5. DOMAIN changes = moved
    BY <1>1
  <1>6. ASSUME NEW d \in moved
        PROVE  /\ d \in DOMAIN docs /\ d \in DOMAIN said
               /\ changes[d] = Remapped(DOMAIN docs, docs[d].refs) /\ changes[d] \in Seq(Refs)
               /\ revs[d] = docs[d].rev /\ revs[d] \in 1..MaxRev /\ revs[d] <= docs[d].rev
    <2>1. /\ d \in DOMAIN docs /\ revs[d] = docs[d].rev
          /\ changes[d] = Remapped(DOMAIN docs, docs[d].refs)
      BY <1>1
    <2>2. /\ docs[d].refs \in Seq(Refs) /\ docs[d].rev \in 1..MaxRev
          /\ docs[d].rev <= docs[d].rev /\ DOMAIN docs \subseteq Ids /\ d \in DOMAIN said
      BY <2>1, RowsAreTyped DEF Inv, TypeInv, RowsType
    <2>3. Remapped(DOMAIN docs, docs[d].refs) \in Seq(Refs)
      BY <2>2, RemappedIs
    <2> QED
      BY <2>1, <2>2, <2>3
  <1>7. RequestType(r)'
    <2>1. RemapType(r)'
      BY <1>2, <1>4, <1>5, <1>6 DEF RemapType
    <2> QED
      BY <1>4, <2>1 DEF RequestType, Kind
  <1>8. ASSUME NEW d \in moved, d \notin raced
        PROVE  Carries(d, changes[d])'
    <2>1. PICK s, c : s = docs[d].refs /\ c = changes[d]
      OBVIOUS
    <2>2. s \in Seq(Refs) /\ DOMAIN docs \subseteq Ids /\ c = Remapped(DOMAIN docs, s)
      BY <1>6, <2>1, RowsAreTyped DEF Inv
    <2>3. Carries(d, s)
      BY <1>6, <1>8, <2>1 DEF Inv, RowsCarry
    <2>4. Carries(d, c)
      <3>1. ASSUME NEW x \in Elements(said[d])
            PROVE  \/ \E y \in Elements(c) : Means(d, x, y)
                   \/ \E list \in docs[d].kept : x \in Elements(list)
        <4>1. CASE \E list \in docs[d].kept : x \in Elements(list)
          BY <4>1
        <4>2. ASSUME NEW y \in Elements(s), Means(d, x, y)
              PROVE  \E z \in Elements(c) : Means(d, x, z)
          BY <2>2, <4>2, RemappedIs, MeansGoesOn
        <4> QED
          BY <2>3, <4>1, <4>2 DEF Carries
      <3>2. ASSUME NEW z \in Elements(c)
            PROVE  Explained(d, z)
        <4>1. PICK y \in Elements(s) : Same(y, z)
          BY <2>2, RemappedIs
        <4>2. PICK x \in Elements(said[d]) : Means(d, x, y)
          BY <2>3 DEF Carries, Explained
        <4> QED
          BY <4>1, <4>2, MeansGoesOn DEF Explained
      <3> QED
        BY <3>1, <3>2 DEF Carries
    <2>5. Carries(d, c)'
      BY <1>2, <2>4, CarriesStays
    <2> QED
      BY <2>1, <2>5
  <1>9. RemapKnows(r)'
    BY <1>2, <1>4, <1>5, <1>8 DEF RemapKnows
  <1>10. RequestKnows(r)'
    BY <1>4, <1>9 DEF RequestKnows, ReadsAreTexts, AmendKnows, ResolverHolds, ImportKnows, Kind
  <1> QED
    BY <1>2, <1>3, <1>4, <1>7, <1>10

LEMMA ResolveIsGood ==
    ASSUME Inv, NEW r \in Reqs, Resolve(r)
    PROVE  /\ RequestType(r)' /\ RequestKnows(r)' /\ Quiet /\ ~Locked
           /\ req'[r].pc = "resolve" /\ \A p \in Reqs : p # r => req'[p] = req[p]
           /\ DOMAIN req' = Reqs
  <1>1. PICK index, changes :
            /\ index = Index
            /\ changes = [d \in Rewrites |-> [before |-> docs[d].refs,
                                              after |-> Resolution(Index, docs[d].refs)]]
            /\ Goto(r, [pc |-> "resolve", changes |-> changes])
    BY DEF Resolve
  <1>2. /\ ~Locked /\ Quiet /\ docs' = docs
    BY DEF Resolve, Quiet
  <1>3. /\ req'[r] = [pc |-> "resolve", changes |-> changes]
        /\ \A p \in Reqs : p # r => req'[p] = req[p]
        /\ DOMAIN req' = Reqs
    BY <1>1, GotoDoes DEF Inv
  <1>4. req'[r].pc = "resolve" /\ req'[r].changes = changes
    BY <1>3
  <1>5. Index' = index
    BY <1>1, <1>2 DEF Index
  <1>6. ASSUME NEW d \in DOMAIN changes
        PROVE  /\ d \in DOMAIN docs
               /\ changes[d].before \in Seq(Refs)
               /\ changes[d].after = Resolution(index, changes[d].before)
               /\ Dropped(index, changes[d].before) # {} =>
                     docs[d].kept \subseteq {changes[d].before}
    <2>1. d \in Rewrites
      BY <1>1
    <2>2. /\ d \in DOMAIN docs
          /\ Dropped(Index, docs[d].refs) # {} => docs[d].kept \subseteq {docs[d].refs}
      BY <2>1 DEF Rewrites, Conflict
    <2>3. /\ changes[d].before = docs[d].refs
          /\ changes[d].after = Resolution(Index, docs[d].refs)
      BY <1>1, <2>1
    <2>4. docs[d].refs \in Seq(Refs)
      BY <2>2, RowsAreTyped DEF Inv
    <2> QED
      BY <1>1, <2>2, <2>3, <2>4
  <1>7. ResolverHolds(r)'
    BY <1>2, <1>4, <1>5, <1>6 DEF ResolverHolds
  <1>8. RequestKnows(r)'
    BY <1>4, <1>7 DEF RequestKnows, ReadsAreTexts, AmendKnows, RemapKnows, ImportKnows, Kind
  <1>9. RequestType(r)'
    BY <1>4 DEF RequestType, Kind
  <1> QED
    BY <1>2, <1>3, <1>4, <1>8, <1>9

LEMMA EmitIsGood ==
    ASSUME Inv, NEW r \in Reqs, NEW S \in SUBSET Undescribed, Emit(r, S)
    PROVE  /\ RequestType(r)' /\ RequestKnows(r)' /\ Quiet
           /\ req'[r].pc = "author" /\ \A p \in Reqs : p # r => req'[p] = req[p]
           /\ DOMAIN req' = Reqs
  <1>1. PICK file : /\ file = [d \in S |-> [rev |-> docs[d].rev, about |-> docs[d].text]]
                    /\ Goto(r, [pc |-> "author", file |-> file])
    BY DEF Emit
  <1>2. Quiet /\ docs' = docs /\ said' = said
    BY DEF Emit, Quiet, history
  <1>3. /\ req'[r] = [pc |-> "author", file |-> file]
        /\ \A p \in Reqs : p # r => req'[p] = req[p]
        /\ DOMAIN req' = Reqs
    BY <1>1, GotoDoes DEF Inv
  <1>4. req'[r].pc = "author" /\ req'[r].file = file
    BY <1>3
  <1>5. DOMAIN file = S
    BY <1>1
  <1>6. ASSUME NEW d \in S
        PROVE  /\ d \in DOMAIN said
               /\ file[d].rev = docs[d].rev /\ file[d].about = docs[d].text
               /\ file[d].rev \in 1..MaxRev /\ file[d].about \in 1..MaxRev
               /\ file[d].rev <= docs[d].rev
    <2>1. file[d] = [rev |-> docs[d].rev, about |-> docs[d].text]
      BY <1>1
    <2>2. d \in DOMAIN docs /\ d \in DOMAIN said
      BY DEF Undescribed, Inv, TypeInv, RowsType
    <2>3. /\ docs[d].rev \in 1..MaxRev /\ docs[d].text \in 1..MaxRev
          /\ docs[d].rev <= docs[d].rev
      BY <2>2, RowsAreTyped DEF Inv
    <2> QED
      BY <2>1, <2>2, <2>3
  <1>7. AuthorType(r)'
    BY <1>2, <1>4, <1>5, <1>6 DEF AuthorType
  <1>8. ReadsAreTexts(r)'
    BY <1>2, <1>4, <1>5, <1>6 DEF ReadsAreTexts, Kind
  <1>9. RequestType(r)'
    BY <1>4, <1>7 DEF RequestType, Kind
  <1>10. RequestKnows(r)'
    BY <1>4, <1>8 DEF RequestKnows, AmendKnows, RemapKnows, ResolverHolds, ImportKnows, Kind
  <1> QED
    BY <1>2, <1>3, <1>4, <1>9, <1>10

LEMMA LoadIsGood ==
    ASSUME Inv, NEW r \in Reqs, Load(r)
    PROVE  /\ RequestType(r)' /\ RequestKnows(r)' /\ Quiet
           /\ req'[r].pc \in {"idle", "apply"}
           /\ \A p \in Reqs : p # r => req'[p] = req[p]
           /\ DOMAIN req' = Reqs
  <1>1. Quiet /\ docs' = docs /\ said' = said
    BY DEF Load, Quiet, history
  <1>2. CASE Finish(r)
    <2>1. /\ req'[r] = Idle /\ \A p \in Reqs : p # r => req'[p] = req[p]
          /\ DOMAIN req' = Reqs
      BY <1>2, GotoDoes DEF Inv, Finish
    <2> QED
      BY <1>1, <2>1, IdleIsGood DEF Idle
  <1>3. CASE ~Finish(r)
    <2>1. PICK file, on, work :
             /\ file = req[r].file /\ on = DOMAIN file \cap Undescribed
             /\ work = [d \in on |-> [rev |-> docs[d].rev, text |-> docs[d].text,
                                      about |-> file[d].about]]
      OBVIOUS
    <2>2. \A d \in on : docs[d].rev = file[d].rev
      BY <1>3, <2>1 DEF Load, AboutIt
    <2>3. Goto(r, [pc |-> "apply",
                   work |-> [d \in on |-> [rev |-> docs[d].rev, text |-> docs[d].text,
                                           about |-> file[d].about]]])
      BY <1>3, <2>1 DEF Load
    <2>4. /\ req'[r] = [pc |-> "apply", work |-> work]
          /\ \A p \in Reqs : p # r => req'[p] = req[p]
          /\ DOMAIN req' = Reqs
      BY <2>1, <2>3, GotoDoes DEF Inv
    <2>5. req'[r].pc = "apply" /\ req'[r].work = work /\ DOMAIN work = on
      BY <2>1, <2>4
    <2>6. ASSUME NEW d \in on
          PROVE  /\ d \in DOMAIN said
                 /\ work[d].rev = docs[d].rev /\ work[d].text = docs[d].text
                 /\ work[d].about = docs[d].text
                 /\ work[d].rev \in 1..MaxRev /\ work[d].text \in 1..MaxRev
                 /\ work[d].rev <= docs[d].rev
      <3>1. d \in DOMAIN docs /\ d \in DOMAIN said /\ d \in DOMAIN file
        BY <2>1 DEF Undescribed, Inv, TypeInv, RowsType
      <3>2. /\ docs[d].rev \in 1..MaxRev /\ docs[d].text \in 1..MaxRev
            /\ docs[d].rev <= docs[d].rev
        BY <3>1, RowsAreTyped DEF Inv
      <3>3. Kind(r, "author")
        BY DEF Load, Kind
      <3>4. file[d].about = docs[d].text
        BY <2>1, <2>2, <3>1, <3>3 DEF Inv, RequestsKnow, RequestKnows, ReadsAreTexts
      <3>5. work[d] = [rev |-> docs[d].rev, text |-> docs[d].text, about |-> file[d].about]
        BY <2>1
      <3> QED
        BY <3>1, <3>2, <3>4, <3>5
    <2>7. ApplyType(r)'
      BY <1>1, <2>5, <2>6 DEF ApplyType
    <2>8. ReadsAreTexts(r)'
      BY <1>1, <2>5, <2>6 DEF ReadsAreTexts, Kind
    <2>9. RequestType(r)'
      BY <2>5, <2>7 DEF RequestType, Kind
    <2>10. RequestKnows(r)'
      BY <2>5, <2>8 DEF RequestKnows, AmendKnows, RemapKnows, ResolverHolds, ImportKnows, Kind
    <2> QED
      BY <1>1, <2>4, <2>5, <2>9, <2>10
  <1> QED
    BY <1>2, <1>3

LEMMA ImportIsGood ==
    ASSUME Inv, NEW r \in Reqs, NEW minted \in Mints, Import(r, minted)
    PROVE  /\ RequestType(r)' /\ RequestKnows(r)' /\ Quiet
           /\ req'[r].pc = "import" /\ req'[r].minted = minted
           /\ \A p \in Reqs : p # r => req'[p] = req[p]
           /\ DOMAIN req' = Reqs
  <1>1. PICK cited, links :
            /\ cited = [f \in DOMAIN Files |-> Cited(minted, f)]
            /\ links = UNION {Links(minted, f) : f \in DOMAIN Files}
            /\ Goto(r, [pc |-> "import", minted |-> minted, cited |-> cited, links |-> links])
    BY DEF Import
  <1>2. /\ Quiet /\ said' = said
        /\ Range(minted) \cap DOMAIN said = {} /\ Plannable(minted)
    BY DEF Import, Quiet, history
  <1>3. /\ req'[r] = [pc |-> "import", minted |-> minted, cited |-> cited, links |-> links]
        /\ \A p \in Reqs : p # r => req'[p] = req[p]
        /\ DOMAIN req' = Reqs
    BY <1>1, GotoDoes DEF Inv
  <1>4. /\ req'[r].pc = "import" /\ req'[r].minted = minted /\ req'[r].cited = cited
        /\ req'[r].links = links
    BY <1>3
  <1>5. cited \in [DOMAIN Files -> Seq(Refs)]
    BY <1>1, CitedIs
  <1>6. ImportType(r)'
    BY <1>2, <1>4, <1>5 DEF ImportType
  <1>7. ASSUME NEW f \in DOMAIN Files
        PROVE  /\ \A y \in Elements(cited[f]) :
                     \/ \E x \in Elements(Files[f].sources) : Same(x, y)
                     \/ \E x \in Elements(Files[f].related) :
                           x = y \/ (y \in Ids /\ <<minted[f], x, y>> \in links)
               /\ \A x \in Elements(Files[f].sources) :
                     \E y \in Elements(cited[f]) : Same(x, y)
    <2>1. PICK j, s : j = Joined(minted) /\ s = Files[f].related
      OBVIOUS
    <2>2. /\ Elements(cited[f]) = Elements(Resolution(j, s))
                                    \cup Elements(Remapped(Notes, Files[f].sources))
          /\ \A x \in Resolvable(j, s) :
                /\ x \in Elements(s) /\ Target(j, x) \in Ids
                /\ <<minted[f], x, Target(j, x)>> \in links
          /\ \A y \in Elements(Resolution(j, s)) :
                \/ y \in Elements(s)
                \/ \E x \in Resolvable(j, s) : y = Target(j, x)
      <3>1. cited[f] = Cited(minted, f) /\ Links(minted, f) \subseteq links
        BY <1>1
      <3> QED
        BY <2>1, <3>1, CitedIs
    <2>3. /\ \A y \in Elements(Remapped(Notes, Files[f].sources)) :
                \E x \in Elements(Files[f].sources) : Same(x, y)
          /\ \A x \in Elements(Files[f].sources) :
                \E y \in Elements(Remapped(Notes, Files[f].sources)) : Same(x, y)
      <3>1. Notes \subseteq Ids /\ Files[f].sources \in Seq(Refs)
        BY FilesAre, RowsAreTyped DEF Inv, Notes
      <3> QED
        BY <3>1, RemappedIs
    <2>4. ASSUME NEW y \in Elements(Resolution(j, s))
          PROVE  \E x \in Elements(s) :
                    x = y \/ (y \in Ids /\ <<minted[f], x, y>> \in links)
      BY <2>2
    <2> QED
      BY <2>1, <2>2, <2>3, <2>4
  <1>8. ImportKnows(r)'
    BY <1>4, <1>7 DEF ImportKnows
  <1>9. RequestType(r)'
    BY <1>4, <1>6 DEF RequestType, Kind
  <1>10. RequestKnows(r)'
    BY <1>4, <1>8 DEF RequestKnows, ReadsAreTexts, AmendKnows, RemapKnows, ResolverHolds, Kind
  <1> QED
    BY <1>2, <1>3, <1>4, <1>9, <1>10

-----------------------------------------------------------------------------
(* The invariant.                                                          *)

LEMMA StepKeeps ==
    ASSUME Inv, Steady, RowsGood', NEW r \in Reqs, DOMAIN req' = Reqs,
           \A p \in Reqs : p # r => req'[p] = req[p],
           RequestType(r)', RequestKnows(r)',
           req'[r].pc = "resolve" => ~Locked,
           req'[r].pc = "import" =>
              \A p \in Reqs : p # r /\ Kind(p, "import") =>
                 Range(req[p].minted) \cap Range(req'[r].minted) = {}
    PROVE  Inv'
  <1>1. TypeInv /\ RowsType' /\ SaidType' /\ DOMAIN vectors' = DOMAIN docs'
        /\ EmbeddingFollows' /\ RowsCarry'
    BY DEF Inv, RowsGood
  <1>2. ASSUME NEW p \in Reqs, p # r
        PROVE  RequestType(p)' /\ RequestKnows(p)'
    <2>1. req'[p] = req[p]
      BY <1>2
    <2>2. ReadsAreTexts(p) /\ AmendKnows(p) /\ RemapKnows(p) /\ ResolverHolds(p) /\ ImportKnows(p)
      BY DEF Inv, RequestsKnow, RequestKnows
    <2>3. RequestType(p)'
      BY <1>1, <2>1, StaysTyped DEF RequestType
    <2>4. RequestKnows(p)'
      BY <1>1, <2>1, <2>2, StaysKnown DEF RequestKnows
    <2> QED
      BY <2>3, <2>4
  <1>3. ReqType' /\ RequestsKnow'
    BY <1>2 DEF ReqType, RequestsKnow
  <1>4. Apart'
    <2>1. ASSUME NEW p \in Reqs, NEW q \in Reqs, p # q,
                 req'[p].pc = "import", req'[q].pc = "import"
          PROVE  Range(req'[p].minted) \cap Range(req'[q].minted) = {}
      <3>1. CASE p = r
        BY <2>1, <3>1 DEF Kind
      <3>2. CASE q = r
        BY <2>1, <3>2 DEF Kind
      <3>3. CASE p # r /\ q # r
        BY <1>1, <2>1, <3>3 DEF TypeInv, Apart, Kind
      <3> QED
        BY <3>1, <3>2, <3>3
    <2>2. ASSUME NEW p \in Reqs, NEW q \in Reqs, p # q,
                 req'[p].pc = "resolve", req'[q].pc = "resolve"
          PROVE  FALSE
      <3>1. CASE p = r
        BY <2>2, <3>1 DEF Locked
      <3>2. CASE q = r
        BY <2>2, <3>2 DEF Locked
      <3>3. CASE p # r /\ q # r
        BY <1>1, <2>2, <3>3 DEF TypeInv, Apart, Kind
      <3> QED
        BY <3>1, <3>2, <3>3
    <2> QED
      BY <2>1, <2>2 DEF Apart, Kind
  <1>5. TypeInv'
    BY <1>1, <1>3, <1>4 DEF TypeInv
  <1> QED
    BY <1>1, <1>3, <1>5 DEF Inv

LEMMA WriterKeeps ==
    ASSUME Inv, Steady, RowsGood', req' = req
    PROVE  Inv'
  <1>1. TypeInv /\ RowsType' /\ SaidType' /\ DOMAIN vectors' = DOMAIN docs'
        /\ EmbeddingFollows' /\ RowsCarry'
    BY DEF Inv, RowsGood
  <1>2. ASSUME NEW p \in Reqs
        PROVE  RequestType(p)' /\ RequestKnows(p)'
    <2>1. req'[p] = req[p]
      OBVIOUS
    <2>2. ReadsAreTexts(p) /\ AmendKnows(p) /\ RemapKnows(p) /\ ResolverHolds(p) /\ ImportKnows(p)
      BY DEF Inv, RequestsKnow, RequestKnows
    <2>3. RequestType(p)'
      BY <1>1, <2>1, StaysTyped DEF RequestType
    <2>4. RequestKnows(p)'
      BY <1>1, <2>1, <2>2, StaysKnown DEF RequestKnows
    <2> QED
      BY <2>3, <2>4
  <1>3. ReqType' /\ RequestsKnow'
    BY <1>2 DEF ReqType, RequestsKnow
  <1>4. Apart' /\ DOMAIN req' = Reqs
    BY <1>1 DEF TypeInv, Apart, Kind
  <1>5. TypeInv'
    BY <1>1, <1>3, <1>4 DEF TypeInv
  <1> QED
    BY <1>1, <1>3, <1>5 DEF Inv

LEMMA InvInit == Init => Inv
  <1> SUFFICES ASSUME Init PROVE Inv
    OBVIOUS
  <1>1. /\ DOMAIN docs \subseteq Ids /\ IsFiniteSet(DOMAIN docs)
        /\ docs \in [DOMAIN docs -> Row]
        /\ \A d \in DOMAIN docs : docs[d].text <= docs[d].rev
    BY RepairsAssumption DEF Init
  <1>2. /\ said = [d \in DOMAIN docs |-> docs[d].refs] /\ DOMAIN said = DOMAIN docs
        /\ vectors = [d \in DOMAIN docs |-> Embedded(docs[d])]
        /\ DOMAIN vectors = DOMAIN docs
        /\ req = [r \in Reqs |-> Idle] /\ DOMAIN req = Reqs
    BY DEF Init
  <1>3. \A r \in Reqs : req[r].pc = "idle"
    BY <1>2 DEF Idle
  <1>4. \A d \in DOMAIN docs : said[d] = docs[d].refs /\ docs[d].refs \in Seq(Refs)
    BY <1>1, <1>2 DEF Row
  <1>5. SaidType
    BY <1>1, <1>2, <1>4 DEF SaidType
  <1>6. RowsType
    BY <1>1, <1>2 DEF RowsType
  <1>7. ReqType /\ Apart /\ RequestsKnow
    BY <1>3 DEF ReqType, RequestType, Apart, RequestsKnow, RequestKnows, ReadsAreTexts,
                AmendKnows, RemapKnows, ResolverHolds, ImportKnows, Kind
  <1>8. EmbeddingFollows
    BY <1>2 DEF EmbeddingFollows
  <1>9. RowsCarry
    <2>1. ASSUME NEW d \in DOMAIN docs
          PROVE  Carries(d, docs[d].refs)
      BY <1>4, SameIsEquivalence DEF Carries, Explained, Means
    <2> QED
      BY <2>1 DEF RowsCarry
  <1> QED
    BY <1>2, <1>5, <1>6, <1>7, <1>8, <1>9 DEF Inv, TypeInv

(* A request that is done, or lost, after a step that kept the rows.       *)
LEMMA FinishKeeps ==
    ASSUME Inv, Steady, RowsGood', NEW r \in Reqs, Finish(r)
    PROVE  Inv'
  <1>1. /\ req'[r] = Idle /\ \A p \in Reqs : p # r => req'[p] = req[p]
        /\ DOMAIN req' = Reqs
    BY GotoDoes DEF Inv, Finish
  <1>2. RequestType(r)' /\ RequestKnows(r)'
    BY <1>1, IdleIsGood
  <1>3. req'[r].pc = "idle"
    BY <1>1 DEF Idle
  <1> QED
    BY <1>1, <1>2, <1>3, StepKeeps

LEMMA InvNext == Inv /\ [Next]_vars => Inv'
  <1> SUFFICES ASSUME Inv, [Next]_vars PROVE Inv'
    OBVIOUS
  <1> DEFINE Goal == Inv'
  <1>1. ASSUME UNCHANGED vars PROVE Goal
    BY <1>1, QuietDoes, WriterKeeps DEF vars, history, Quiet
  <1>2. ASSUME NEW d \in Ids, NEW title \in Names, Contribute(d, title) PROVE Goal
    BY <1>2, ContributeKeeps, WriterKeeps DEF Contribute
  <1>3. ASSUME NEW d \in Ids, NEW title \in Names, NEW refs \in Lists,
               NEW s \in BOOLEAN, Update(d, title, refs, s)
        PROVE  Goal
    BY <1>3, UpdateKeeps, WriterKeeps DEF Update
  <1>4. ASSUME NEW d \in Ids, Retire(d) PROVE Goal
    BY <1>4, RetireKeeps, WriterKeeps DEF Retire
  <1>5. ASSUME NEW r \in Reqs, NEW d \in Ids, BeginAmend(r, d) PROVE Goal
    BY <1>5, BeginAmendIsGood, QuietDoes, StepKeeps
  <1>6. ASSUME NEW r \in Reqs, Amend(r) PROVE Goal
    BY <1>6, AmendKeeps, FinishKeeps DEF Amend
  <1>7. ASSUME NEW r \in Reqs, Remap(r) PROVE Goal
    BY <1>7, RemapIsGood, QuietDoes, StepKeeps
  <1>8. ASSUME NEW r \in Reqs, RemapWrite(r) PROVE Goal
    BY <1>8, RemapWriteKeeps, FinishKeeps DEF RemapWrite
  <1>9. ASSUME NEW r \in Reqs, Resolve(r) PROVE Goal
    BY <1>9, ResolveIsGood, QuietDoes, StepKeeps
  <1>10. ASSUME NEW r \in Reqs, ResolveWrite(r) PROVE Goal
    BY <1>10, ResolveWriteKeeps, FinishKeeps DEF ResolveWrite
  <1>11. ASSUME NEW r \in Reqs, NEW S \in SUBSET Undescribed, Emit(r, S) PROVE Goal
    BY <1>11, EmitIsGood, QuietDoes, StepKeeps
  <1>12. ASSUME NEW r \in Reqs, Load(r) PROVE Goal
    BY <1>12, LoadIsGood, QuietDoes, StepKeeps
  <1>13. ASSUME NEW r \in Reqs, WriteSummaries(r) PROVE Goal
    BY <1>13, WriteSummariesKeeps, FinishKeeps DEF WriteSummaries
  <1>14. ASSUME NEW r \in Reqs, NEW minted \in Mints, Import(r, minted) PROVE Goal
    <2>1. \A p \in Reqs : Kind(p, "import") => Range(req[p].minted) \cap Range(minted) = {}
      BY <1>14 DEF Import, Kind
    <2>2. /\ RequestType(r)' /\ RequestKnows(r)' /\ Quiet
          /\ req'[r].pc = "import" /\ req'[r].minted = minted
          /\ \A p \in Reqs : p # r => req'[p] = req[p]
          /\ DOMAIN req' = Reqs
      BY <1>14, ImportIsGood
    <2>3. Steady /\ RowsGood'
      BY <2>2, QuietDoes
    <2> QED
      BY <2>1, <2>2, <2>3, StepKeeps
  <1>15. ASSUME NEW r \in Reqs, ImportWrite(r) PROVE Goal
    BY <1>15, ImportWriteKeeps, FinishKeeps DEF ImportWrite
  <1>16. ASSUME NEW r \in Reqs, Lose(r) PROVE Goal
    BY <1>16, QuietDoes, FinishKeeps DEF Lose, Quiet
  <1> HIDE DEF Goal
  <1>17. ASSUME Next PROVE Goal
    BY <1>2, <1>3, <1>4, <1>5, <1>6, <1>7, <1>8, <1>9, <1>10, <1>11, <1>12, <1>13, <1>14,
       <1>15, <1>16, <1>17 DEF Next
  <1> QED
    BY <1>1, <1>17 DEF Goal

LEMMA InvAlways == Spec => []Inv
  BY InvInit, InvNext, PTL DEF Spec

LEMMA InvIsEnough == Inv => EdgesMeanWhatWasSaid /\ EmbeddingFollows
  <1>1. Inv => EmbeddingFollows
    BY DEF Inv
  <1>2. Inv => EdgesMeanWhatWasSaid
    BY DEF Inv, RowsCarry, Carries, EdgesMeanWhatWasSaid, Stands
  <1> QED
    BY <1>1, <1>2

(* Whatever the remap, the resolver, the imports and the governed writers  *)
(* do to one another, a document's references say what its last writer     *)
(* said and nothing else, unless a remap wrote it from an older read.      *)
THEOREM EdgesKeepTheirMeaning == Spec => []EdgesMeanWhatWasSaid
  BY InvAlways, InvIsEnough, PTL

(* Every stored vector describes its row's text and summary, although the  *)
(* backfill computes it from a copy it took before the provider answered.  *)
THEOREM EmbeddingsFollow == Spec => []EmbeddingFollows
  BY InvAlways, InvIsEnough, PTL

-----------------------------------------------------------------------------
(* What a step may do to a summary.                                        *)

LEMMA SummaryStep ==
    ASSUME Inv, [Next]_vars, NEW d \in DOMAIN docs, d \in DOMAIN docs',
           docs'[d].summary # docs[d].summary
    PROVE  \/ docs[d].summary = NoSummary /\ docs'[d].summary = docs'[d].text
           \/ docs'[d].text # docs[d].text
  <1> DEFINE Goal == \/ docs[d].summary = NoSummary /\ docs'[d].summary = docs'[d].text
                     \/ docs'[d].text # docs[d].text
  <1>1. /\ docs[d] \in Row /\ docs[d].rev \in Int /\ docs[d].text \in Int
        /\ docs[d].text <= docs[d].rev /\ d \in DOMAIN said
    BY RowsAreTyped DEF Inv, TypeInv, RowsType
  <1>2. docs'[d] # docs[d] /\ docs' # docs
    OBVIOUS
  <1>3. ASSUME NEW e \in Ids, NEW title \in Names, Contribute(e, title) PROVE FALSE
    <2>1. e # d
      BY <1>1, <1>3 DEF Contribute
    <2> QED
      BY <1>2, <1>3, <2>1 DEF Contribute, Store, With
  <1>4. ASSUME NEW e \in Ids, NEW title \in Names, NEW refs \in Lists,
               NEW s \in BOOLEAN, Update(e, title, refs, s)
        PROVE  Goal
    <2>1. PICK row : /\ row = [docs[e] EXCEPT !.rev = @ + 1, !.text = docs[e].rev + 1,
                                              !.title = title, !.refs = refs,
                                              !.summary = IF s THEN docs[e].rev + 1
                                                               ELSE NoSummary]
                     /\ docs' = With(docs, e, row) /\ e \in DOMAIN docs
      BY <1>4 DEF Update, Store
    <2>2. e = d
      BY <1>2, <2>1 DEF With
    <2>3. docs'[d] = row
      BY <2>1, <2>2 DEF With
    <2>4. row.text = docs[d].rev + 1
      BY <1>1, <2>1, <2>2 DEF Row
    <2> QED
      BY <1>1, <2>3, <2>4
  <1>5. ASSUME NEW e \in Ids, Retire(e) PROVE FALSE
    BY <1>2, <1>5 DEF Retire, Without
  <1>6. ASSUME NEW r \in Reqs, Amend(r) PROVE Goal
    <2>1. PICK e, row : e = req[r].doc /\ row = req[r].row
      OBVIOUS
    <2>2. row \in Row /\ row.rev \in Int
      BY <1>6, <2>1, RepairsAssumption
         DEF Amend, Kind, Inv, TypeInv, ReqType, RequestType, AmendType, Row
    <2>3. PICK new :
             /\ new = [[row EXCEPT !.rev = @ + 1, !.text = row.rev + 1]
                          EXCEPT !.kept = docs[e].kept]
             /\ docs' = With(docs, e, new) /\ docs[e].rev = row.rev
      BY <1>2, <1>6, <2>1 DEF Amend, Store
    <2>4. e = d
      BY <1>2, <2>3 DEF With
    <2>5. docs'[d] = new
      BY <2>3, <2>4 DEF With
    <2>6. new.text = docs[d].rev + 1
      BY <2>2, <2>3, <2>4 DEF Row
    <2> QED
      BY <1>1, <2>5, <2>6
  <1>7. ASSUME NEW r \in Reqs, RemapWrite(r) PROVE FALSE
    <2>1. \/ docs'[d] = docs[d]
          \/ docs'[d] = [docs[d] EXCEPT !.refs = req[r].changes[d]]
      BY <1>7 DEF RemapWrite
    <2> QED
      BY <1>1, <2>1 DEF Row
  <1>8. ASSUME NEW r \in Reqs, ResolveWrite(r) PROVE FALSE
    <2>1. PICK new, m : \/ docs'[d] = docs[d]
                        \/ docs'[d] = [docs[d] EXCEPT !.refs = new, !.kept = m]
      BY <1>8 DEF ResolveWrite
    <2> QED
      BY <1>1, <2>1 DEF Row
  <1>9. ASSUME NEW r \in Reqs, WriteSummaries(r) PROVE Goal
    BY <1>2, <1>9, WriteSummariesDoes
  <1>10. ASSUME NEW r \in Reqs, ImportWrite(r) PROVE FALSE
    BY <1>2, <1>10, ImportWriteDoes DEF Taken
  <1> HIDE DEF Goal
  <1>11. ASSUME Next PROVE Goal
    <2>1. CASE docs' = docs
      BY <1>2, <2>1
    <2>2. \A r \in Reqs : Remap(r) \/ Resolve(r) \/ Load(r) \/ Lose(r) => docs' = docs
      BY DEF Remap, Resolve, Load, Lose
    <2>3. \A r \in Reqs, e \in Ids : BeginAmend(r, e) => docs' = docs
      BY DEF BeginAmend
    <2>4. \A r \in Reqs, S \in SUBSET Undescribed : Emit(r, S) => docs' = docs
      BY DEF Emit
    <2>5. \A r \in Reqs, minted \in Mints : Import(r, minted) => docs' = docs
      BY DEF Import
    <2> QED
      BY <1>3, <1>4, <1>5, <1>6, <1>7, <1>8, <1>9, <1>10, <1>11,
         <2>1, <2>2, <2>3, <2>4, <2>5 DEF Next
  <1>12. Goal
    BY <1>2, <1>11 DEF vars
  <1> QED
    BY <1>12 DEF Goal

(* A summary that is added is about the text its note has, and takes the   *)
(* place of none, although it was written about an export of some earlier  *)
(* day and embedded outside the lock.                                      *)
THEOREM SummariesAreApt == Spec => SummariesFit
  <1>1. Inv /\ [Next]_vars =>
          [\A d \in DOMAIN docs \cap DOMAIN docs' :
              docs'[d].summary # docs[d].summary =>
                 \/ docs[d].summary = NoSummary /\ docs'[d].summary = docs'[d].text
                 \/ docs'[d].text # docs[d].text]_vars
    BY SummaryStep
  <1> QED
    BY <1>1, InvAlways, PTL DEF Spec, SummariesFit

-----------------------------------------------------------------------------
(* What an import is true of.                                              *)

LEMMA OnlyImportsJoin ==
    ASSUME Inv, [Next]_vars, NEW d \in DOMAIN docs', Joins(d)
    PROVE  \E r \in Reqs : ImportWrite(r) /\ Taken(r)
  <1> DEFINE Goal == \E r \in Reqs : ImportWrite(r) /\ Taken(r)
  <1>1. d \in DOMAIN docs' /\ d \notin DOMAIN docs /\ docs'[d].file # NoFile /\ docs' # docs
    BY DEF Joins
  <1>2. ASSUME NEW e \in Ids, NEW title \in Names, Contribute(e, title) PROVE FALSE
    BY <1>1, <1>2 DEF Contribute, Store, With
  <1>3. ASSUME NEW e \in Ids, NEW title \in Names, NEW refs \in Lists,
               NEW s \in BOOLEAN, Update(e, title, refs, s)
        PROVE  FALSE
    <2>1. DOMAIN docs' = DOMAIN docs \cup {e} /\ e \in DOMAIN docs
      BY <1>3 DEF Update, Store, With
    <2> QED
      BY <1>1, <2>1
  <1>4. ASSUME NEW e \in Ids, Retire(e) PROVE FALSE
    BY <1>1, <1>4 DEF Retire, Without
  <1>5. ASSUME NEW r \in Reqs, Amend(r) PROVE FALSE
    <2>1. DOMAIN docs' = DOMAIN docs \cup {req[r].doc} /\ req[r].doc \in DOMAIN docs
      BY <1>1, <1>5 DEF Amend, Store, With
    <2> QED
      BY <1>1, <2>1
  <1>6. ASSUME NEW r \in Reqs, RemapWrite(r) \/ ResolveWrite(r) \/ WriteSummaries(r)
        PROVE  FALSE
    <2>1. DOMAIN docs' = DOMAIN docs
      BY <1>6 DEF RemapWrite, ResolveWrite, WriteSummaries
    <2> QED
      BY <1>1, <2>1
  <1>7. ASSUME NEW r \in Reqs, ImportWrite(r) PROVE Goal
    BY <1>1, <1>7, ImportWriteDoes
  <1> HIDE DEF Goal
  <1>8. ASSUME Next PROVE Goal
    <2>1. \A r \in Reqs : Remap(r) \/ Resolve(r) \/ Load(r) \/ Lose(r) => docs' = docs
      BY DEF Remap, Resolve, Load, Lose
    <2>2. \A r \in Reqs, e \in Ids : BeginAmend(r, e) => docs' = docs
      BY DEF BeginAmend
    <2>3. \A r \in Reqs, S \in SUBSET Undescribed : Emit(r, S) => docs' = docs
      BY DEF Emit
    <2>4. \A r \in Reqs, minted \in Mints : Import(r, minted) => docs' = docs
      BY DEF Import
    <2> QED
      BY <1>1, <1>2, <1>3, <1>4, <1>5, <1>6, <1>7, <1>8, <2>1, <2>2, <2>3, <2>4 DEF Next
  <1>9. Goal
    BY <1>1, <1>8 DEF vars
  <1> QED
    BY <1>9 DEF Goal

(* A name of a page and the documents it may mean, once the pages are in.  *)
LEMMA NamesAreTrue ==
    ASSUME Inv, NEW minted \in Mints, Plannable(minted), NEW f \in DOMAIN Files,
           NEW x \in Elements(Files[f].related) \cap Names,
           NEW e \in Candidates(Joined(minted), x)
    PROVE  /\ e \in Elements(Cited(minted, f))
           /\ \A o \in Candidates(Joined(minted), x) : o = e
  <1>1. PICK j, s : j = Joined(minted) /\ s = Files[f].related
    OBVIOUS
  <1>2. x \in Resolvable(j, s) \cup Dropped(j, s)
    BY <1>1 DEF Plannable
  <1>3. x \in Resolvable(j, s)
    BY <1>1, <1>2 DEF Dropped
  <1>4. DOMAIN j \subseteq Ids /\ IsFiniteSet(DOMAIN j)
    BY <1>1, JoinedIs
  <1>5. Candidates(j, x) = {Target(j, x)}
    BY <1>3, <1>4, TargetIsTheOne
  <1>6. Target(j, x) \in Elements(Cited(minted, f))
    BY <1>1, <1>3, CitedIs
  <1> QED
    BY <1>1, <1>5, <1>6

LEMMA ImportStep ==
    ASSUME Inv, [Next]_vars, NEW d \in DOMAIN docs', Joins(d)
    PROVE  /\ DOMAIN Files \subseteq {docs'[e].file : e \in {e \in DOMAIN docs' : Joins(e)}}
           /\ \A e \in DOMAIN docs' : docs'[e].file = docs'[d].file => e = d
           /\ TrueTo(docs'[d], Files[docs'[d].file])
  <1>1. PICK r \in Reqs : ImportWrite(r) /\ Taken(r)
    BY OnlyImportsJoin
  <1>2. PICK minted, cited : minted = req[r].minted /\ cited = req[r].cited
    OBVIOUS
  <1>3. /\ minted \in Mints /\ StillPlanned(minted, cited)
        /\ DOMAIN docs' = DOMAIN docs \cup Range(minted)
        /\ \A e \in DOMAIN docs : e \notin Range(minted) /\ docs'[e] = docs[e]
    BY <1>1, <1>2, ImportWriteDoes
       DEF Taken, Inv, TypeInv, ReqType, RequestType, ImportType
  <1>4. ASSUME NEW f \in DOMAIN Files
        PROVE  /\ minted[f] \in DOMAIN docs' /\ minted[f] \notin DOMAIN docs
               /\ docs'[minted[f]].file = f /\ docs'[minted[f]].title = Files[f].title
               /\ docs'[minted[f]].slug = Files[f].title
               /\ docs'[minted[f]].refs = Cited(minted, f)
    <2>1. /\ docs'[minted[f]].file = f /\ docs'[minted[f]].title = Files[f].title
          /\ docs'[minted[f]].slug = Files[f].title
          /\ docs'[minted[f]].refs = cited[f]
      <3>1. docs'[minted[f]] =
               [rev |-> 1, text |-> 1, title |-> Files[f].title,
                slug |-> Files[f].title, summary |-> 1,
                refs |-> cited[f], file |-> f,
                kept |-> IF Files[f].related = << >> THEN {} ELSE {Files[f].related}]
        BY <1>1, <1>2 DEF Taken
      <3>2. PICK m : docs'[minted[f]] =
               [rev |-> 1, text |-> 1, title |-> Files[f].title,
                slug |-> Files[f].title, summary |-> 1,
                refs |-> cited[f], file |-> f, kept |-> m]
        BY <3>1
      <3> QED
        BY <3>2
    <2>2. cited[f] = Cited(minted, f)
      BY <1>3 DEF StillPlanned
    <2>3. minted[f] \in Range(minted)
      BY <1>3, MintsAre
    <2> QED
      BY <1>3, <2>1, <2>2, <2>3
  <1>5. PICK f \in DOMAIN Files : d = minted[f]
    <2>1. d \in Range(minted)
      BY <1>3 DEF Joins
    <2> QED
      BY <1>3, <2>1, MintsAre
  <1>6. DOMAIN Files \subseteq {docs'[e].file : e \in {e \in DOMAIN docs' : Joins(e)}}
    <2>1. ASSUME NEW g \in DOMAIN Files
          PROVE  /\ minted[g] \in DOMAIN docs' /\ Joins(minted[g])
                 /\ docs'[minted[g]].file = g
      BY <1>4, FilesAre DEF Joins
    <2> QED
      BY <2>1
  <1>7. ASSUME NEW e \in DOMAIN docs', docs'[e].file = docs'[d].file
        PROVE  e = d
    <2>1. docs'[e].file = f
      BY <1>4, <1>5, <1>7
    <2>2. e \notin DOMAIN docs
      BY <1>3, <2>1 DEF StillPlanned, Claimed
    <2>3. PICK g \in DOMAIN Files : e = minted[g]
      BY <1>3, <2>2, MintsAre
    <2> QED
      BY <1>4, <1>5, <2>1, <2>3
  <1>8. PICK row, page : row = docs'[d] /\ page = Files[f]
    OBVIOUS
  <1>9. /\ docs'[d].file = f /\ row.refs = Cited(minted, f)
        /\ Plannable(minted) /\ Notes \subseteq DOMAIN docs
    BY <1>3, <1>4, <1>5, <1>8 DEF StillPlanned, Notes
  <1>10. Elements(row.refs) \subseteq DOMAIN docs' \cup (Elements(page.related) \ Names)
    <2>1. ASSUME NEW y \in Elements(Cited(minted, f))
          PROVE  y \in DOMAIN docs \cup Range(minted) \cup (Elements(page.related) \ Names)
      <3>1. CASE y \in Elements(Remapped(Notes, Files[f].sources))
        BY <1>9, <3>1 DEF Plannable
      <3>2. CASE y \in Elements(Resolution(Joined(minted), Files[f].related))
        <4>1. \/ /\ y \in Elements(Files[f].related)
                 /\ y \notin Resolvable(Joined(minted), Files[f].related)
                 /\ y \notin Dropped(Joined(minted), Files[f].related)
              \/ \E x \in Resolvable(Joined(minted), Files[f].related) :
                    y = Target(Joined(minted), x)
          BY <1>3, <3>2, CitedIs
        <4>2. CASE \E x \in Resolvable(Joined(minted), Files[f].related) :
                      y = Target(Joined(minted), x)
          <5>1. PICK x \in Resolvable(Joined(minted), Files[f].related) :
                        y = Target(Joined(minted), x)
            BY <4>2
          <5>2. Target(Joined(minted), x) \in DOMAIN docs \cup Range(minted)
            BY <1>3, CitedIs
          <5> QED
            BY <5>1, <5>2
        <4>3. CASE /\ y \in Elements(Files[f].related)
                   /\ y \notin Resolvable(Joined(minted), Files[f].related)
                   /\ y \notin Dropped(Joined(minted), Files[f].related)
          BY <1>8, <1>9, <4>3 DEF Plannable
        <4> QED
          BY <4>1, <4>2, <4>3
      <3> QED
        BY <1>3, <3>1, <3>2, CitedIs
    <2> QED
      BY <1>3, <1>9, <2>1
  <1>11. ASSUME NEW x \in Elements(page.sources)
         PROVE  \E y \in Elements(row.refs) \cap DOMAIN docs' :
                   Same(x, y) /\ docs'[y].file = NoFile
    <2>1. PICK y \in Elements(Remapped(Notes, page.sources)) : Same(x, y)
      <3>1. page.sources \in Seq(Refs) /\ Notes \subseteq Ids
        BY <1>8, <1>9, FilesAre, RowsAreTyped DEF Inv
      <3> QED
        BY <1>11, <3>1, RemappedIs
    <2>2. y \in Notes /\ y \in DOMAIN docs /\ docs'[y] = docs[y]
      BY <1>3, <1>8, <1>9, <2>1 DEF Plannable
    <2>3. y \in Elements(row.refs)
      BY <1>3, <1>8, <1>9, <2>1, CitedIs
    <2> QED
      BY <1>3, <2>1, <2>2, <2>3 DEF Notes
  <1>12. ASSUME NEW e \in DOMAIN docs'
         PROVE  e \in DOMAIN Joined(minted) /\ Joined(minted)[e] = Link(docs'[e])
    <2>1. CASE e \in DOMAIN docs
      BY <1>3, <2>1 DEF Joined
    <2>2. CASE e \notin DOMAIN docs
      <3>1. PICK g \in DOMAIN Files : e = minted[g]
        BY <1>3, <2>2, MintsAre
      <3>2. (CHOOSE h \in DOMAIN Files : minted[h] = e) = g
        BY <1>3, <3>1, MintsAre
      <3>3. e \in Range(minted)
        BY <1>3, <2>2
      <3>4. Joined(minted)[e] = [title |-> Files[g].title, slug |-> Files[g].title]
        BY <2>2, <3>2, <3>3 DEF Joined
      <3>5. Link(docs'[e]) = [title |-> Files[g].title, slug |-> Files[g].title]
        BY <1>4, <3>1 DEF Link
      <3> QED
        BY <1>3, <3>3, <3>4, <3>5, JoinedIs
    <2> QED
      BY <2>1, <2>2
  <1>13. DOMAIN Joined(minted) = DOMAIN docs'
    BY <1>3, JoinedIs
  <1>14. ASSUME NEW x, NEW e \in DOMAIN docs'
         PROVE  Bears(e, x) <=> e \in Candidates(Joined(minted), x)
    <2>1. PICK j : j = Joined(minted)
      OBVIOUS
    <2>2. /\ DOMAIN j = DOMAIN docs'
          /\ \A o \in DOMAIN docs' : j[o].title = docs'[o].title /\ j[o].slug = docs'[o].slug
      BY <1>12, <1>13, <2>1 DEF Link
    <2>3. Bears(e, x) <=> e \in Candidates(j, x)
      BY <2>2 DEF Bears, Candidates, Titled
    <2> QED
      BY <2>1, <2>3
  <1>15. ASSUME NEW x \in Elements(page.related) \cap Names, NEW e \in DOMAIN docs', Bears(e, x)
         PROVE  /\ e \in Elements(row.refs)
                /\ \A o \in DOMAIN docs' : Bears(o, x) => o = e
    <2>1. e \in Candidates(Joined(minted), x)
      BY <1>14, <1>15
    <2>2. /\ e \in Elements(Cited(minted, f))
          /\ \A o \in Candidates(Joined(minted), x) : o = e
      BY <1>3, <1>8, <1>9, <1>15, <2>1, NamesAreTrue
    <2> QED
      BY <1>9, <1>14, <2>2
  <1>16. TrueTo(row, page)
    BY <1>10, <1>11, <1>15 DEF TrueTo
  <1> QED
    BY <1>6, <1>7, <1>8, <1>9, <1>16

(* An import takes place whole and once, and is true when it does: every   *)
(* source of a page is a live note, every name that anything bears is the  *)
(* id of its only bearer, and whatever else the page cites is in its       *)
(* Related, in the shape of an id, which the import does not check.        *)
THEOREM ImportsTakePlaceOnce == Spec => ImportsAreTrue
  <1>1. Inv /\ [Next]_vars =>
          [\A d \in DOMAIN docs' : Joins(d) =>
              /\ DOMAIN Files \subseteq {docs'[e].file : e \in {e \in DOMAIN docs' : Joins(e)}}
              /\ \A e \in DOMAIN docs' : docs'[e].file = docs'[d].file => e = d
              /\ TrueTo(docs'[d], Files[docs'[d].file])]_vars
    BY ImportStep
  <1> QED
    BY <1>1, InvAlways, PTL DEF Spec, ImportsAreTrue

=============================================================================
