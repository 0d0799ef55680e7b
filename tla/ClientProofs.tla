---------------------------- MODULE ClientProofs ----------------------------
(***************************************************************************)
(* Theorems about what the clients of the two services are shown: the      *)
(* cached pages of a leaderboard (BoardCache), the session of a vault      *)
(* console (VaultConsole), and the listing and the export of a vault       *)
(* (VaultWalks), for any number of modes, workers, requests, tabs, notes   *)
(* and readers.  The three components share no state, and their modules    *)
(* no name.                                                                *)
(*                                                                         *)
(* Section 1 has the cache, section 2 the session, section 3 the listing   *)
(* and the export.                                                         *)
(***************************************************************************)
EXTENDS BoardCache, VaultConsole, VaultWalks, FiniteSetTheorems, WellFoundedInduction, TLAPS

-----------------------------------------------------------------------------
(* 1. The leaderboard page cache.                                          *)

CacheEntry == [page : BoardPages, version : Nat, left : 1..TTL, overlapped : BOOLEAN]

(* The number of changes of the pages a handler has made.                  *)
Made == UNION {[P -> Nat] : P \in SUBSET BoardPages}
Reader == [pc : {"read"}, store : Stores, page : BoardPages]
Filler == [pc : {"fill"}, store : Stores, page : BoardPages, version : Nat]
Writer == [pc : {"invalidate"}, store : Stores, deletes : Seq(SUBSET CacheKeys), made : Made]

CacheTyped ==
    /\ version \in [BoardPages -> Nat]
    /\ cache \in [Stores -> [CacheKeys -> CacheEntry \cup {NoEntry}]]
    /\ settled \in [Stores -> [BoardPages -> Nat]]
    /\ \A s \in Stores, p \in BoardPages : settled[s][p] <= version[p]

(* An entry lies at the key of its page and is no newer than the page; it  *)
(* has what was settled in its store, or it was filled too late.           *)
EntrySound(s, k) ==
    Cached(s, k) =>
        /\ KeyOf(cache[s][k].page) = k
        /\ cache[s][k].version <= version[cache[s][k].page]
        /\ \/ cache[s][k].version >= settled[s][cache[s][k].page]
           \/ cache[s][k].overlapped

(* The copy of a page in a store, if there is one, has these changes.      *)
Recent(s, p, n) ==
    Cached(s, KeyOf(p)) /\ cache[s][KeyOf(p)].page = p =>
        cache[s][KeyOf(p)].version >= n \/ cache[s][KeyOf(p)].overlapped

(* A page that a writer changed is still to be deleted, or has been.       *)
WillDelete(r, k) == \E i \in DOMAIN req[r].deletes : k \in req[r].deletes[i]
WriterSound(r) ==
    /\ req[r] \in Writer /\ req[r].deletes # << >>
    /\ \A p \in DOMAIN req[r].made :
          /\ req[r].made[p] <= version[p]
          /\ WillDelete(r, KeyOf(p)) \/ Recent(req[r].store, p, req[r].made[p])

HandlerSound(r) ==
    \/ req[r] = NoRequest
    \/ req[r] \in Reader
    \/ req[r] \in Filler /\ req[r].version <= version[req[r].page]
    \/ WriterSound(r)

CacheInv ==
    /\ CacheTyped
    /\ \A s \in Stores, k \in CacheKeys : EntrySound(s, k)
    /\ req \in [Reqs -> {NoRequest} \cup Reader \cup Filler \cup Writer]
    /\ \A r \in Reqs : HandlerSound(r)

LEMMA KeysOfPages ==
    /\ \A p \in BoardPages : KeyOf(p) \in CacheKeys
    /\ \A m \in Modes : /\ ScorePages(m) \cup LatestPages(m) \subseteq BoardPages
                        /\ \A p \in ScorePages(m) : KeyOf(p) \in WithPrefix(m)
                        /\ \A p \in LatestPages(m) : KeyOf(p) \in WithPrefix("latest")
<1>1. \A p \in BoardPages : KeyOf(p) \in CacheKeys
  BY DEF CacheKeys
<1>2. ASSUME NEW m \in Modes
      PROVE  /\ ScorePages(m) \cup LatestPages(m) \subseteq BoardPages
             /\ \A p \in ScorePages(m) : p = <<"scores", m>>
             /\ \A p \in LatestPages(m) : \E f \in Filters : p = <<"latest", f>>
  <2>1. ScorePages(m) = {<<"scores", m>>} /\ ScorePages(m) \subseteq BoardPages
    BY DEF ScorePages, BoardPages
  <2>2. \A p \in LatestPages(m) : \E f \in Filters : p = <<"latest", f>>
    BY DEF LatestPages
  <2>3. \A f \in Filters : <<"latest", f>> \in BoardPages
    BY DEF BoardPages
  <2> QED BY <2>1, <2>2, <2>3
<1>3. \A m : KeyOf(<<"scores", m>>)[1] = m
  BY DEF KeyOf
<1>4. \A f : KeyOf(<<"latest", f>>)[1] = "latest"
  BY DEF KeyOf
<1> QED BY <1>1, <1>2, <1>3, <1>4 DEF WithPrefix

LEMMA GreaterOfTwo ==
    ASSUME NEW i \in Int, NEW j \in Int
    PROVE  Max({i, j}) = IF i >= j THEN i ELSE j
BY DEF Max

LEMMA EntryIsNotNone == \A e \in CacheEntry : e # NoEntry
BY BoardCacheAssumption DEF CacheEntry, NoEntry

-----------------------------------------------------------------------------
(* What a step may do to the entries: drop them, age them, or add one that *)
(* says whether it is up to date.                                          *)

Copies(e, f) ==
    /\ e # NoEntry /\ f \in CacheEntry
    /\ f.page = e.page /\ f.version = e.version /\ f.overlapped = e.overlapped
Arrives(f, k) ==
    /\ f \in CacheEntry /\ KeyOf(f.page) = k /\ f.version <= version[f.page]
    /\ f.version = version[f.page] \/ f.overlapped
EntryMoves(s, k) ==
    \/ cache'[s][k] = NoEntry
    \/ Copies(cache[s][k], cache'[s][k])
    \/ Arrives(cache'[s][k], k) /\ version' = version

EntriesMove ==
    /\ version' \in [BoardPages -> Nat]
    /\ \A p \in BoardPages : version[p] <= version'[p]
    /\ cache' \in [Stores -> [CacheKeys -> CacheEntry \cup {NoEntry}]]
    /\ \A s \in Stores, k \in CacheKeys : EntryMoves(s, k)

LEMMA StaysRecent ==
    ASSUME CacheTyped, EntriesMove, NEW s \in Stores, NEW p \in BoardPages,
           NEW n \in Nat, n <= version[p], Recent(s, p, n)
    PROVE  Recent(s, p, n)'
<1>1. PICK k \in CacheKeys : k = KeyOf(p)
  BY KeysOfPages
<1>2. PICK e, f : e = cache[s][k] /\ f = cache'[s][k]
  OBVIOUS
<1>3. f = NoEntry \/ Copies(e, f) \/ Arrives(f, k)
  BY <1>2 DEF EntriesMove, EntryMoves
<1>4. e # NoEntry /\ e.page = p => e.version >= n \/ e.overlapped
  BY <1>1, <1>2 DEF Recent, Cached
<1>5. f # NoEntry /\ f.page = p => f.version >= n \/ f.overlapped
  <2>1. CASE Copies(e, f)
    BY <1>4, <2>1 DEF Copies
  <2>2. CASE Arrives(f, k) /\ f.page = p
    BY <2>2 DEF Arrives
  <2> QED BY <1>3, <2>1, <2>2
<1>6. Recent(s, p, n)' <=> (f # NoEntry /\ f.page = p => f.version >= n \/ f.overlapped)
  BY <1>1, <1>2 DEF Recent, Cached, KeyOf
<1> QED BY <1>5, <1>6

(* Where nothing is settled, the entries stay sound.                       *)
LEMMA EntriesStaySound ==
    ASSUME CacheInv, EntriesMove, settled' = settled
    PROVE  CacheTyped' /\ \A s \in Stores, k \in CacheKeys : EntrySound(s, k)'
<1>0. /\ version \in [BoardPages -> Nat] /\ settled \in [Stores -> [BoardPages -> Nat]]
      /\ cache \in [Stores -> [CacheKeys -> CacheEntry \cup {NoEntry}]]
      /\ \A s \in Stores, p \in BoardPages : settled[s][p] <= version[p]
  BY DEF CacheInv, CacheTyped
<1>1. CacheTyped'
  <2>1. ASSUME NEW s \in Stores, NEW p \in BoardPages PROVE settled'[s][p] <= version'[p]
    <3>1. /\ settled[s][p] \in Nat /\ version[p] \in Nat /\ version'[p] \in Nat
          /\ settled[s][p] <= version[p] /\ version[p] <= version'[p]
      BY <1>0 DEF EntriesMove
    <3> QED BY <3>1
  <2> QED BY <1>0, <2>1 DEF CacheTyped, EntriesMove, BoardPages, CacheKeys
<1>2. ASSUME NEW s \in Stores, NEW k \in CacheKeys PROVE EntrySound(s, k)'
  <2>1. PICK e, f : e = cache[s][k] /\ f = cache'[s][k]
    OBVIOUS
  <2>2. /\ e \in CacheEntry \cup {NoEntry} /\ f \in CacheEntry \cup {NoEntry}
        /\ f = NoEntry \/ Copies(e, f) \/ (Arrives(f, k) /\ version' = version)
    BY <1>0, <2>1 DEF EntriesMove, EntryMoves
  <2>3. e # NoEntry => /\ KeyOf(e.page) = k /\ e.version <= version[e.page]
                       /\ e.version >= settled[s][e.page] \/ e.overlapped
    BY <2>1 DEF CacheInv, EntrySound, Cached
  <2>4. ASSUME f # NoEntry
        PROVE  /\ KeyOf(f.page) = k /\ f.version <= version'[f.page]
               /\ f.version >= settled[s][f.page] \/ f.overlapped
    <3>1. PICK p \in BoardPages : p = f.page
      BY <2>2, <2>4 DEF CacheEntry
    <3>2. /\ f.version \in Nat /\ version[p] \in Nat /\ version'[p] \in Nat
          /\ settled[s][p] \in Nat /\ settled[s][p] <= version[p] /\ version[p] <= version'[p]
      BY <1>0, <2>2, <2>4 DEF CacheEntry, EntriesMove
    <3>3. CASE Copies(e, f)
      BY <2>3, <3>1, <3>2, <3>3 DEF Copies
    <3>4. CASE Arrives(f, k) /\ version' = version
      BY <3>1, <3>2, <3>4 DEF Arrives
    <3> QED BY <2>2, <2>4, <3>3, <3>4
  <2> QED BY <2>1, <2>4 DEF EntrySound, Cached, KeyOf
<1> QED BY <1>1, <1>2

(* A handler that is left alone stays sound.                               *)
LEMMA HandlerStaysSound ==
    ASSUME CacheInv, EntriesMove, NEW r \in Reqs, req'[r] = req[r]
    PROVE  HandlerSound(r)'
<1>0. /\ CacheTyped /\ version \in [BoardPages -> Nat] /\ version' \in [BoardPages -> Nat]
      /\ \A p \in BoardPages : version[p] <= version'[p]
  BY DEF CacheInv, CacheTyped, EntriesMove
<1>1. PICK q : q = req[r] /\ q = req'[r]
  OBVIOUS
<1>2. CASE q = NoRequest
  BY <1>1, <1>2 DEF HandlerSound
<1>3. CASE q \in Reader
  BY <1>1, <1>3 DEF HandlerSound, Reader, BoardPages
<1>4. CASE q \in Filler /\ q.version <= version[q.page]
  <2>1. q.page \in BoardPages /\ q.version \in Nat
    BY <1>4 DEF Filler
  <2>2. q.version <= version'[q.page]
    BY <1>0, <1>4, <2>1
  <2> QED BY <1>1, <1>4, <2>2 DEF HandlerSound, Filler, BoardPages
<1>5. CASE WriterSound(r)
  <2>1. q \in Writer /\ q.deletes # << >>
    BY <1>1, <1>5 DEF WriterSound
  <2>2. ASSUME NEW p \in DOMAIN q.made
        PROVE  /\ q.made[p] <= version'[p]
               /\ WillDelete(r, KeyOf(p))' \/ Recent(q.store, p, q.made[p])'
    <3>1. PICK P \in SUBSET BoardPages : q.made \in [P -> Nat]
      BY <2>1 DEF Writer, Made
    <3>2. p \in BoardPages /\ q.made[p] \in Nat /\ q.store \in Stores
      BY <2>1, <2>2, <3>1 DEF Writer
    <3>3. q.made[p] <= version[p] /\ (WillDelete(r, KeyOf(p)) \/ Recent(q.store, p, q.made[p]))
      BY <1>1, <1>5, <2>2 DEF WriterSound
    <3>4. q.made[p] <= version'[p]
      BY <1>0, <3>2, <3>3
    <3>5. WillDelete(r, KeyOf(p)) => WillDelete(r, KeyOf(p))'
      BY <1>1 DEF WillDelete, KeyOf
    <3>6. PICK n, s : n = q.made[p] /\ s = q.store
      OBVIOUS
    <3>7. Recent(s, p, n) => Recent(s, p, n)'
      BY <1>0, <3>2, <3>3, <3>6, StaysRecent
    <3> QED BY <3>3, <3>4, <3>5, <3>6, <3>7 DEF Recent
  <2> QED BY <1>1, <2>1, <2>2 DEF HandlerSound, WriterSound, Writer, Made, BoardPages, CacheKeys
<1> QED BY <1>1, <1>2, <1>3, <1>4, <1>5 DEF CacheInv, HandlerSound

-----------------------------------------------------------------------------
(* The steps of the cache.                                                 *)

(* A step that touches neither the pages nor what is settled, or changes   *)
(* the pages and leaves the stores alone.                                  *)
LEMMA QuietEntries ==
    ASSUME CacheInv, version' \in [BoardPages -> Nat],
           \A p \in BoardPages : version[p] <= version'[p], cache' = cache
    PROVE  EntriesMove
<1>0. /\ cache \in [Stores -> [CacheKeys -> CacheEntry \cup {NoEntry}]]
  BY DEF CacheInv, CacheTyped
<1>1. ASSUME NEW s \in Stores, NEW k \in CacheKeys PROVE EntryMoves(s, k)
  <2>1. cache'[s][k] = cache[s][k] /\ cache[s][k] \in CacheEntry \cup {NoEntry}
    BY <1>0
  <2> QED BY <2>1, EntryIsNotNone DEF EntryMoves, Copies
<1> QED BY <1>0, <1>1 DEF EntriesMove

(* An entry that is dropped.                                               *)
LEMMA DroppedEntries ==
    ASSUME CacheInv, version' = version,
           cache' \in [Stores -> [CacheKeys -> CacheEntry \cup {NoEntry}]],
           \A s \in Stores, k \in CacheKeys :
              cache'[s][k] = NoEntry \/ cache'[s][k] = cache[s][k]
    PROVE  EntriesMove
<1>0. version \in [BoardPages -> Nat]
  BY DEF CacheInv, CacheTyped
<1>1. ASSUME NEW s \in Stores, NEW k \in CacheKeys PROVE EntryMoves(s, k)
  <2>1. cache'[s][k] \in CacheEntry \cup {NoEntry}
    OBVIOUS
  <2> QED BY <2>1, EntryIsNotNone DEF EntryMoves, Copies
<1> QED BY <1>0, <1>1 DEF EntriesMove

LEMMA FillMoves ==
    ASSUME CacheInv, NEW r \in Reqs, Fill(r)
    PROVE  EntriesMove
<1>0. /\ version \in [BoardPages -> Nat] /\ version' = version
      /\ cache \in [Stores -> [CacheKeys -> CacheEntry \cup {NoEntry}]]
  BY DEF CacheInv, CacheTyped, Fill
<1>1. req[r] \in Filler /\ req[r].version <= version[req[r].page]
  BY DEF CacheInv, HandlerSound, WriterSound, Fill, NoRequest, Reader, Writer
<1>2. PICK s \in Stores, p \in BoardPages, n \in Nat :
         s = req[r].store /\ p = req[r].page /\ n = req[r].version
  BY <1>1 DEF Filler
<1>3. PICK f : f = [page |-> p, version |-> n, left |-> TTL, overlapped |-> n < version[p]]
  OBVIOUS
<1>4. f \in CacheEntry
  BY <1>3, BoardCacheAssumption DEF CacheEntry
<1>5. PICK k \in CacheKeys : k = KeyOf(p)
  BY KeysOfPages
<1>6. Arrives(f, k)
  <2>1. n <= version[p] /\ version[p] \in Nat
    BY <1>0, <1>1, <1>2
  <2>2. f.page = p /\ f.version = n
    BY <1>3
  <2>3. f.version = version[f.page] \/ f.overlapped
    <3>1. CASE n < version[p]
      BY <1>3, <3>1
    <3> QED BY <2>1, <2>2, <3>1
  <2> QED BY <1>4, <1>5, <2>1, <2>2, <2>3 DEF Arrives
<1>7. cache' = [cache EXCEPT ![s][k] = f]
  BY <1>2, <1>3, <1>5 DEF Fill
<1>8. cache' \in [Stores -> [CacheKeys -> CacheEntry \cup {NoEntry}]]
  BY <1>0, <1>4, <1>7
<1>9. ASSUME NEW t \in Stores, NEW x \in CacheKeys PROVE EntryMoves(t, x)
  <2>1. CASE t = s /\ x = k
    <3>1. cache'[t][x] = f
      BY <1>0, <1>7, <2>1
    <3> QED BY <1>0, <1>6, <2>1, <3>1 DEF EntryMoves
  <2>2. CASE ~(t = s /\ x = k)
    <3>1. cache'[t][x] = cache[t][x] /\ cache[t][x] \in CacheEntry \cup {NoEntry}
      BY <1>0, <1>7, <2>2
    <3> QED BY <3>1, EntryIsNotNone DEF EntryMoves, Copies
  <2> QED BY <2>1, <2>2
<1> QED BY <1>0, <1>8, <1>9 DEF EntriesMove

LEMMA AgeMoves ==
    ASSUME CacheInv, Age
    PROVE  EntriesMove
<1>0. /\ version \in [BoardPages -> Nat] /\ version' = version
      /\ cache \in [Stores -> [CacheKeys -> CacheEntry \cup {NoEntry}]]
      /\ cache' = [s \in Stores |-> [k \in CacheKeys |-> Aged(cache[s][k])]]
  BY DEF CacheInv, CacheTyped, Age
<1>1. ASSUME NEW e \in CacheEntry \cup {NoEntry}
      PROVE  Aged(e) = NoEntry \/ Copies(e, Aged(e))
  <2>1. CASE e = NoEntry
    BY <2>1 DEF Aged, NoEntry
  <2>2. CASE e \in CacheEntry /\ ~(e.left <= 1)
    <3>1. Aged(e) = [e EXCEPT !.left = e.left - 1]
      BY <2>2 DEF Aged
    <3>2. PICK n : n = e.left - 1
      OBVIOUS
    <3>3. n \in 1..TTL
      BY <2>2, <3>2, BoardCacheAssumption DEF CacheEntry
    <3>4. Aged(e) = [e EXCEPT !.left = n]
      BY <3>1, <3>2
    <3>5. Aged(e) \in CacheEntry
      BY <2>2, <3>3, <3>4 DEF CacheEntry
    <3>6. /\ Aged(e).page = e.page /\ Aged(e).version = e.version
          /\ Aged(e).overlapped = e.overlapped
      BY <2>2, <3>4 DEF CacheEntry
    <3> QED BY <2>2, <3>5, <3>6, EntryIsNotNone DEF Copies
  <2>3. CASE e.left <= 1
    BY <2>3 DEF Aged
  <2> QED BY <2>1, <2>2, <2>3
<1>2. ASSUME NEW s \in Stores, NEW k \in CacheKeys
      PROVE  /\ cache'[s][k] \in CacheEntry \cup {NoEntry}
             /\ EntryMoves(s, k)
  <2>1. cache'[s][k] = Aged(cache[s][k]) /\ cache[s][k] \in CacheEntry \cup {NoEntry}
    BY <1>0
  <2> QED BY <1>1, <2>1 DEF EntryMoves, Copies
<1>3. cache' \in [Stores -> [CacheKeys -> CacheEntry \cup {NoEntry}]]
  BY <1>0, <1>2
<1> QED BY <1>0, <1>2, <1>3 DEF EntriesMove

(* Where nothing is settled it is enough to look at the one handler that   *)
(* has moved.                                                              *)
LEMMA KeepsCacheInv ==
    ASSUME CacheInv, EntriesMove, settled' = settled,
           NEW r \in Reqs, NEW q \in {NoRequest} \cup Reader \cup Filler \cup Writer,
           req' = [req EXCEPT ![r] = q], HandlerSound(r)'
    PROVE  CacheInv'
<1>1. req \in [Reqs -> {NoRequest} \cup Reader \cup Filler \cup Writer]
  BY DEF CacheInv
<1>2. req' \in [Reqs -> {NoRequest} \cup Reader \cup Filler \cup Writer]
  BY <1>1
<1>3. ASSUME NEW x \in Reqs PROVE HandlerSound(x)'
  <2>1. x # r => req'[x] = req[x]
    BY <1>1
  <2> QED BY <2>1, HandlerStaysSound
<1>4. CacheTyped' /\ \A s \in Stores, k \in CacheKeys : EntrySound(s, k)'
  BY EntriesStaySound
<1> QED BY <1>2, <1>3, <1>4
     DEF CacheInv, EntrySound, CacheKeys, BoardPages, Reader, Filler, Writer, Made

(* A handler that ends or is lost asks for nothing more.                   *)
LEMMA KeepsCacheInvAtEnd ==
    ASSUME CacheInv, EntriesMove, settled' = settled,
           NEW r \in Reqs, req' = [req EXCEPT ![r] = NoRequest]
    PROVE  CacheInv'
<1>1. req'[r] = NoRequest
  BY DEF CacheInv
<1>2. HandlerSound(r)'
  BY <1>1 DEF HandlerSound
<1> QED BY <1>2, KeepsCacheInv

LEMMA NoHandlerMoves ==
    ASSUME CacheInv, EntriesMove, UNCHANGED <<req, settled>>
    PROVE  CacheInv'
<1>1. CacheTyped' /\ \A s \in Stores, k \in CacheKeys : EntrySound(s, k)'
  BY EntriesStaySound
<1>2. \A r \in Reqs : HandlerSound(r)'
  BY HandlerStaysSound
<1> QED BY <1>1, <1>2
     DEF CacheInv, EntrySound, CacheKeys, BoardPages, Reader, Filler, Writer, Made

LEMMA SameVersions ==
    ASSUME CacheInv, version' = version
    PROVE  version' \in [BoardPages -> Nat] /\ \A p \in BoardPages : version[p] <= version'[p]
BY DEF CacheInv, CacheTyped

LEMMA LookupKeeps ==
    ASSUME CacheInv, NEW r \in Reqs, NEW s \in Stores, NEW p \in BoardPages, Lookup(r, s, p)
    PROVE  CacheInv'
<1>1. version' = version /\ cache' = cache /\ settled' = settled
  BY DEF Lookup
<1>2. PICK q : q = [pc |-> "read", store |-> s, page |-> p]
  OBVIOUS
<1>3. q \in Reader /\ req' = [req EXCEPT ![r] = q]
  BY <1>2 DEF Lookup, Reader
<1>4. req'[r] = q
  BY <1>3 DEF CacheInv
<1>5. HandlerSound(r)'
  BY <1>3, <1>4 DEF HandlerSound, Reader, BoardPages
<1>6. EntriesMove
  BY <1>1, SameVersions, QuietEntries
<1> QED BY <1>1, <1>3, <1>5, <1>6, KeepsCacheInv

LEMMA ReadBoardKeeps ==
    ASSUME CacheInv, NEW r \in Reqs, ReadBoard(r)
    PROVE  CacheInv'
<1>1. version' = version /\ cache' = cache /\ settled' = settled
  BY DEF ReadBoard
<1>2. req[r] \in Reader
  BY DEF CacheInv, HandlerSound, WriterSound, ReadBoard, NoRequest, Filler, Writer
<1>3. PICK s \in Stores, p \in BoardPages : s = req[r].store /\ p = req[r].page
  BY <1>2 DEF Reader
<1>4. PICK n : n = version[p]
  OBVIOUS
<1>5. PICK q : q = [pc |-> "fill", store |-> s, page |-> p, version |-> n]
  OBVIOUS
<1>6. n \in Nat
  BY <1>4 DEF CacheInv, CacheTyped
<1>7. q \in Filler /\ q.version = n /\ q.page = p
  BY <1>5, <1>6 DEF Filler
<1>8. req' = [req EXCEPT ![r] = q]
  BY <1>3, <1>4, <1>5 DEF ReadBoard
<1>9. req'[r] = q
  BY <1>8 DEF CacheInv
<1>10. q.version <= version'[q.page]
  BY <1>1, <1>4, <1>6, <1>7
<1>11. HandlerSound(r)'
  BY <1>7, <1>9, <1>10 DEF HandlerSound, Filler, BoardPages
<1>12. EntriesMove
  BY <1>1, SameVersions, QuietEntries
<1> QED BY <1>1, <1>7, <1>8, <1>11, <1>12, KeepsCacheInv

LEMMA BumpGrows ==
    ASSUME CacheInv, NEW P \in SUBSET BoardPages, Bump(P)
    PROVE  /\ version' \in [BoardPages -> Nat]
           /\ \A p \in BoardPages : version[p] <= version'[p]
           /\ \A p \in P : version'[p] = version[p] + 1
<1>1. version \in [BoardPages -> Nat]
      /\ version' = [p \in BoardPages |-> IF p \in P THEN version[p] + 1 ELSE version[p]]
  BY DEF CacheInv, CacheTyped, Bump
<1> QED BY <1>1

(* A commit, whose handler will delete the key of every page it changed.   *)
LEMMA CommitKeeps ==
    ASSUME CacheInv, NEW r \in Reqs, NEW s \in Stores, NEW P \in SUBSET BoardPages,
           NEW deletes \in Seq(SUBSET CacheKeys), deletes # << >>, Commit(r, s, P, deletes),
           \A p \in P : \E i \in DOMAIN deletes : KeyOf(p) \in deletes[i]
    PROVE  CacheInv'
<1>1. Bump(P) /\ cache' = cache /\ settled' = settled
  BY DEF Commit
<1>2. EntriesMove
  BY <1>1, BumpGrows, QuietEntries
<1>3. PICK made : made = [p \in P |-> version[p] + 1]
  OBVIOUS
<1>4. made \in [P -> Nat] /\ \A p \in P : made[p] = version'[p] /\ made[p] <= version'[p]
  <2>1. \A p \in P : version[p] + 1 \in Nat /\ version'[p] = version[p] + 1
    BY <1>1, BumpGrows DEF CacheInv, CacheTyped
  <2> QED BY <1>3, <2>1
<1>5. PICK q : q = [pc |-> "invalidate", store |-> s, deletes |-> deletes, made |-> made]
  OBVIOUS
<1>6. made \in Made
  BY <1>4 DEF Made
<1>7. /\ q \in Writer /\ q.deletes = deletes /\ q.made = made /\ q.store = s
  BY <1>5, <1>6 DEF Writer
<1>8. req' = [req EXCEPT ![r] = q]
  BY <1>3, <1>5 DEF Commit
<1>9. req'[r] = q
  BY <1>8 DEF CacheInv
<1>10. \A p \in P : WillDelete(r, KeyOf(p))'
  BY <1>7, <1>9 DEF WillDelete, KeyOf
<1>11. HandlerSound(r)'
  <2>1. DOMAIN made = P
    BY <1>4
  <2>2. \A p \in P : made[p] <= version'[p]
    BY <1>4
  <2> QED BY <1>7, <1>9, <1>10, <2>1, <2>2
       DEF HandlerSound, WriterSound, Writer, Made, BoardPages, CacheKeys
<1> QED BY <1>1, <1>2, <1>7, <1>8, <1>11, KeepsCacheInv

LEMMA CommitScoresKeeps ==
    ASSUME CacheInv, NEW r \in Reqs, NEW s \in Stores, NEW m \in Modes, CommitScores(r, s, m)
    PROVE  CacheInv'
<1>1. PICK P : P = ScorePages(m) \cup LatestPages(m)
  OBVIOUS
<1>2. PICK deletes : deletes = <<WithPrefix(m), WithPrefix("latest")>>
  OBVIOUS
<1>3. WithPrefix(m) \in SUBSET CacheKeys /\ WithPrefix("latest") \in SUBSET CacheKeys
  BY DEF WithPrefix
<1>4. deletes \in Seq(SUBSET CacheKeys) /\ deletes # << >> /\ DOMAIN deletes = 1..2
  BY <1>2, <1>3
<1>5. \A p \in P : \E i \in DOMAIN deletes : KeyOf(p) \in deletes[i]
  <2>1. deletes[1] = WithPrefix(m) /\ deletes[2] = WithPrefix("latest")
    BY <1>2
  <2> QED BY <1>1, <1>4, <2>1, KeysOfPages
<1>6. P \in SUBSET BoardPages
  BY <1>1, KeysOfPages
<1>7. Commit(r, s, P, deletes)
  BY <1>1, <1>2 DEF CommitScores, Deleted
<1> QED BY <1>4, <1>5, <1>6, <1>7, CommitKeeps

LEMMA CommitRenameKeeps ==
    ASSUME CacheInv, NEW r \in Reqs, NEW s \in Stores, CommitRename(r, s)
    PROVE  CacheInv'
<1>1. PICK deletes : deletes = <<CacheKeys>>
  OBVIOUS
<1>2. deletes \in Seq(SUBSET CacheKeys) /\ deletes # << >> /\ 1 \in DOMAIN deletes
  BY <1>1
<1>3. \A p \in BoardPages : KeyOf(p) \in deletes[1]
  BY <1>1, KeysOfPages
<1>4. Commit(r, s, BoardPages, deletes)
  BY <1>1 DEF CommitRename
<1> QED BY <1>2, <1>3, <1>4, CommitKeeps

(* What the deletion of one prefix leaves in the stores.                   *)
LEMMA DeletePrefixDoes ==
    ASSUME CacheInv, NEW r \in Reqs, DeletePrefix(r)
    PROVE  /\ WriterSound(r) /\ req[r].store \in Stores
           /\ Head(req[r].deletes) \in SUBSET CacheKeys
           /\ Tail(req[r].deletes) \in Seq(SUBSET CacheKeys)
           /\ \A s \in Stores, k \in CacheKeys :
                 cache'[s][k] = NoEntry \/ cache'[s][k] = cache[s][k]
           /\ \A k \in Head(req[r].deletes) : cache'[req[r].store][k] = NoEntry
           /\ EntriesMove /\ version' = version
<1>0. cache \in [Stores -> [CacheKeys -> CacheEntry \cup {NoEntry}]]
  BY DEF CacheInv, CacheTyped
<1>1. WriterSound(r) /\ version' = version
  BY DEF CacheInv, HandlerSound, DeletePrefix, NoRequest, Reader, Filler
<1>2. PICK s \in Stores, deletes \in Seq(SUBSET CacheKeys) :
         s = req[r].store /\ deletes = req[r].deletes /\ deletes # << >>
  BY <1>1 DEF WriterSound, Writer
<1>3. PICK K \in SUBSET CacheKeys : K = Head(deletes)
  BY <1>2
<1>4. Tail(deletes) \in Seq(SUBSET CacheKeys)
  BY <1>2
<1>5. PICK new : new = [k \in CacheKeys |-> IF k \in K THEN NoEntry ELSE cache[s][k]]
  OBVIOUS
<1>6. new \in [CacheKeys -> CacheEntry \cup {NoEntry}]
  BY <1>0, <1>5
<1>7. cache' = [cache EXCEPT ![s] = new]
  BY <1>2, <1>3, <1>5 DEF DeletePrefix
<1>8. cache' \in [Stores -> [CacheKeys -> CacheEntry \cup {NoEntry}]]
  BY <1>0, <1>6, <1>7
<1>9. /\ \A t \in Stores, k \in CacheKeys : cache'[t][k] = NoEntry \/ cache'[t][k] = cache[t][k]
      /\ \A k \in K : cache'[s][k] = NoEntry
  BY <1>0, <1>5, <1>7
<1>10. EntriesMove
  BY <1>1, <1>8, <1>9, DroppedEntries
<1> QED BY <1>1, <1>2, <1>3, <1>4, <1>9, <1>10

(* A prefix that is not the last.                                          *)
LEMMA DeleteSomeKeeps ==
    ASSUME CacheInv, NEW r \in Reqs, DeletePrefix(r), Tail(req[r].deletes) # << >>
    PROVE  CacheInv'
<1>1. /\ WriterSound(r) /\ EntriesMove /\ CacheTyped /\ version' = version
      /\ \A k \in Head(req[r].deletes) : cache'[req[r].store][k] = NoEntry
  BY DeletePrefixDoes DEF CacheInv
<1>2. PICK w, s, deletes, made, rest :
         /\ w = req[r] /\ s = w.store /\ deletes = w.deletes /\ made = w.made
         /\ rest = Tail(deletes)
  OBVIOUS
<1>3. /\ w \in Writer /\ s \in Stores /\ deletes \in Seq(SUBSET CacheKeys) /\ deletes # << >>
      /\ made \in Made /\ rest # << >> /\ rest \in Seq(SUBSET CacheKeys)
  BY <1>1, <1>2, DeletePrefixDoes DEF WriterSound, Writer
<1>4. req' = [req EXCEPT ![r].deletes = rest] /\ settled' = settled
  BY <1>2, <1>3 DEF DeletePrefix
<1>5. PICK q : q = [w EXCEPT !.deletes = rest]
  OBVIOUS
<1>6. /\ q \in Writer /\ q.store = s /\ q.deletes = rest /\ q.made = made
  BY <1>2, <1>3, <1>5 DEF Writer
<1>7. req' = [req EXCEPT ![r] = q]
  BY <1>2, <1>4, <1>5
<1>8. req'[r] = q
  BY <1>7 DEF CacheInv
<1>9. ASSUME NEW p \in DOMAIN made
      PROVE  made[p] <= version'[p] /\ (WillDelete(r, KeyOf(p))' \/ Recent(s, p, made[p])')
  <2>1. PICK P \in SUBSET BoardPages : made \in [P -> Nat]
    BY <1>3 DEF Made
  <2>2. PICK n \in Nat, k \in CacheKeys : n = made[p] /\ k = KeyOf(p) /\ p \in BoardPages
    BY <1>9, <2>1, KeysOfPages
  <2>3. n <= version[p] /\ (WillDelete(r, k) \/ Recent(s, p, n))
    BY <1>1, <1>2, <2>2 DEF WriterSound
  <2>4. CASE Recent(s, p, n)
    <3>1. Recent(s, p, n)'
      BY <1>1, <1>3, <2>2, <2>3, <2>4, StaysRecent
    <3> QED BY <1>1, <2>2, <2>3, <3>1 DEF Recent
  <2>5. CASE WillDelete(r, k)
    <3>1. PICK i \in DOMAIN deletes : k \in deletes[i]
      BY <1>2, <2>5 DEF WillDelete
    <3>2. CASE i = 1
      <4>1. cache'[s][k] = NoEntry
        BY <1>1, <1>2, <1>3, <3>1, <3>2
      <4>2. Recent(s, p, n)'
        BY <2>2, <4>1 DEF Recent, Cached, KeyOf
      <4> QED BY <1>1, <2>2, <2>3, <4>2 DEF Recent
    <3>3. CASE i # 1
      <4>1. i - 1 \in DOMAIN rest /\ rest[i - 1] = deletes[i]
        BY <1>2, <1>3, <3>1, <3>3
      <4>2. WillDelete(r, k)'
        BY <1>6, <1>8, <3>1, <4>1 DEF WillDelete
      <4> QED BY <1>1, <2>2, <2>3, <4>2 DEF WillDelete, KeyOf
    <3> QED BY <3>2, <3>3
  <2> QED BY <2>3, <2>4, <2>5
<1>10. HandlerSound(r)'
  BY <1>3, <1>6, <1>8, <1>9
     DEF HandlerSound, WriterSound, Writer, Made, BoardPages, CacheKeys
<1> QED BY <1>1, <1>4, <1>6, <1>7, <1>10, KeepsCacheInv

(* The last prefix: what the writer made is settled in its store, where    *)
(* every copy of a page it changed is gone or was filled since.            *)
LEMMA DeleteLastKeeps ==
    ASSUME CacheInv, NEW r \in Reqs, DeletePrefix(r), Tail(req[r].deletes) = << >>
    PROVE  CacheInv'
<1>0. /\ CacheTyped /\ version \in [BoardPages -> Nat]
      /\ settled \in [Stores -> [BoardPages -> Nat]]
      /\ \A s \in Stores, p \in BoardPages : settled[s][p] <= version[p]
  BY DEF CacheInv, CacheTyped
<1>1. /\ WriterSound(r) /\ EntriesMove /\ version' = version
      /\ \A s \in Stores, k \in CacheKeys : cache'[s][k] = NoEntry \/ cache'[s][k] = cache[s][k]
      /\ \A k \in Head(req[r].deletes) : cache'[req[r].store][k] = NoEntry
  BY DeletePrefixDoes
<1>2. PICK s, deletes, made :
         s = req[r].store /\ deletes = req[r].deletes /\ made = req[r].made
  OBVIOUS
<1>3. /\ s \in Stores /\ deletes \in Seq(SUBSET CacheKeys) /\ deletes # << >> /\ made \in Made
      /\ Tail(deletes) = << >>
  BY <1>1, <1>2 DEF WriterSound, Writer
<1>4. PICK P \in SUBSET BoardPages : made \in [P -> Nat]
  BY <1>3 DEF Made
<1>5. PICK new : new = [p \in BoardPages |->
                          IF p \in DOMAIN made THEN Max({settled[s][p], made[p]})
                          ELSE settled[s][p]]
  OBVIOUS
<1>6. settled' = [settled EXCEPT ![s] = new] /\ req' = [req EXCEPT ![r] = NoRequest]
  BY <1>2, <1>3, <1>5 DEF DeletePrefix
<1>7. ASSUME NEW p \in BoardPages
      PROVE  /\ new[p] \in Nat /\ new[p] <= version[p]
             /\ new[p] = settled[s][p] \/ (p \in P /\ new[p] = made[p])
  <2>1. PICK i, j : i = settled[s][p] /\ j = version[p]
    OBVIOUS
  <2>2. i \in Nat /\ j \in Nat /\ i <= j
    BY <1>0, <1>3, <2>1
  <2>3. CASE p \in P
    <3>1. PICK n : n = made[p]
      OBVIOUS
    <3>2. n \in Nat /\ n <= j
      BY <1>1, <1>2, <1>4, <2>1, <2>3, <3>1 DEF WriterSound
    <3>3. new[p] = Max({i, n})
      BY <1>4, <1>5, <2>1, <2>3, <3>1
    <3>4. Max({i, n}) = i \/ Max({i, n}) = n
      BY <2>2, <3>2, GreaterOfTwo
    <3> QED BY <2>1, <2>2, <2>3, <3>1, <3>2, <3>3, <3>4
  <2>4. CASE p \notin P
    BY <1>4, <1>5, <2>1, <2>2, <2>4
  <2> QED BY <2>3, <2>4
<1>8. settled' \in [Stores -> [BoardPages -> Nat]]
  <2>1. new \in [BoardPages -> Nat]
    BY <1>5, <1>7
  <2> QED BY <1>0, <1>3, <1>6, <2>1
<1>9. /\ settled'[s] = new
      /\ \A t \in Stores : t # s => settled'[t] = settled[t]
  BY <1>0, <1>3, <1>6
<1>10. CacheTyped'
  <2>1. ASSUME NEW t \in Stores, NEW p \in BoardPages PROVE settled'[t][p] <= version'[p]
    BY <1>0, <1>1, <1>7, <1>9
  <2> QED BY <1>0, <1>1, <1>8, <2>1
       DEF CacheTyped, EntriesMove, BoardPages, CacheKeys, CacheEntry
<1>11. ASSUME NEW t \in Stores, NEW k \in CacheKeys PROVE EntrySound(t, k)'
  <2>1. PICK e, f : e = cache[t][k] /\ f = cache'[t][k]
    OBVIOUS
  <2>2. e \in CacheEntry \cup {NoEntry} /\ (f = NoEntry \/ f = e)
    BY <1>0, <1>1, <2>1 DEF CacheTyped
  <2>3. ASSUME f # NoEntry
        PROVE  /\ KeyOf(f.page) = k /\ f.version <= version'[f.page]
               /\ f.version >= settled'[t][f.page] \/ f.overlapped
    <3>1. f = e /\ e \in CacheEntry /\ e.page \in BoardPages
      BY <2>2, <2>3 DEF CacheEntry
    <3>2. PICK p \in BoardPages : p = e.page
      BY <3>1
    <3>3. /\ KeyOf(p) = k /\ e.version <= version[p]
          /\ e.version >= settled[t][p] \/ e.overlapped
      BY <2>1, <2>3, <3>1, <3>2 DEF CacheInv, EntrySound, Cached
    <3>4. CASE t # s \/ new[p] = settled[s][p]
      BY <1>1, <1>9, <3>1, <3>2, <3>3, <3>4
    <3>5. CASE t = s /\ p \in P /\ new[p] = made[p]
      <4>1. k \notin Head(deletes)
        BY <1>1, <1>2, <2>1, <2>3, <3>5
      <4>2. DOMAIN deletes = {1} /\ deletes[1] = Head(deletes)
        <5>1. Len(Tail(deletes)) = Len(deletes) - 1 /\ Len(deletes) \in Nat
          BY <1>3
        <5>2. Len(Tail(deletes)) = 0
          <6>1. Len(Tail(deletes)) = Len(<< >>)
            BY <1>3, Zenon
          <6> QED BY <6>1
        <5>3. Len(deletes) = 1
          BY <5>1, <5>2
        <5> QED BY <1>3, <5>3
      <4>3. ~WillDelete(r, k)
        BY <1>2, <4>1, <4>2 DEF WillDelete
      <4>4. p \in DOMAIN made
        BY <1>4, <3>5
      <4>5. Recent(s, p, made[p])
        BY <1>1, <1>2, <3>3, <4>3, <4>4 DEF WriterSound
      <4>6. e.version >= made[p] \/ e.overlapped
        BY <2>1, <2>3, <3>1, <3>2, <3>3, <3>5, <4>5 DEF Recent, Cached
      <4> QED BY <1>1, <1>9, <3>1, <3>2, <3>3, <3>5, <4>6
    <3> QED BY <1>7, <3>4, <3>5
  <2> QED BY <2>1, <2>3 DEF EntrySound, Cached, KeyOf
<1>12. ASSUME NEW x \in Reqs PROVE HandlerSound(x)'
  <2>1. CASE x = r
    <3>1. req'[r] = NoRequest
      BY <1>6 DEF CacheInv
    <3> QED BY <2>1, <3>1 DEF HandlerSound
  <2>2. CASE x # r
    <3>1. req'[x] = req[x]
      BY <1>6, <2>2 DEF CacheInv
    <3> QED BY <1>1, <3>1, HandlerStaysSound
  <2> QED BY <2>1, <2>2
<1>13. req' \in [Reqs -> {NoRequest} \cup Reader \cup Filler \cup Writer]
  BY <1>6 DEF CacheInv
<1> QED BY <1>10, <1>11, <1>12, <1>13
     DEF CacheInv, EntrySound, CacheKeys, BoardPages, Reader, Filler, Writer, Made

LEMMA QuietKeeps ==
    ASSUME CacheInv
    PROVE  /\ \A r \in Reqs : Fill(r) => CacheInv'
           /\ \A r \in Reqs : Lose(r) => CacheInv'
           /\ \A m \in Modes : SilentChange(m) => CacheInv'
           /\ Age => CacheInv'
           /\ \A s \in Stores, k \in CacheKeys : Evict(s, k) => CacheInv'
           /\ UNCHANGED cacheVars => CacheInv'
<1>1. ASSUME NEW r \in Reqs, Fill(r) PROVE CacheInv'
  <2>1. settled' = settled /\ req' = [req EXCEPT ![r] = NoRequest]
    BY <1>1 DEF Fill
  <2> QED BY <1>1, <2>1, FillMoves, KeepsCacheInvAtEnd
<1>2. ASSUME NEW r \in Reqs, Lose(r) PROVE CacheInv'
  <2>1. /\ settled' = settled /\ req' = [req EXCEPT ![r] = NoRequest]
        /\ version' = version /\ cache' = cache
    BY <1>2 DEF Lose
  <2>2. EntriesMove
    BY <2>1, SameVersions, QuietEntries
  <2> QED BY <2>1, <2>2, KeepsCacheInvAtEnd
<1>3. ASSUME NEW m \in Modes, SilentChange(m) PROVE CacheInv'
  <2>1. Bump(ScorePages(m)) /\ UNCHANGED <<cache, req, settled>>
    BY <1>3 DEF SilentChange
  <2>2. PICK P \in SUBSET BoardPages : P = ScorePages(m)
    BY KeysOfPages
  <2>3. EntriesMove
    BY <2>1, <2>2, BumpGrows, QuietEntries
  <2> QED BY <2>1, <2>3, NoHandlerMoves
<1>4. ASSUME Age PROVE CacheInv'
  <2>1. UNCHANGED <<req, settled>>
    BY <1>4 DEF Age
  <2> QED BY <1>4, <2>1, AgeMoves, NoHandlerMoves
<1>5. ASSUME NEW s \in Stores, NEW k \in CacheKeys, Evict(s, k) PROVE CacheInv'
  <2>1. /\ cache \in [Stores -> [CacheKeys -> CacheEntry \cup {NoEntry}]]
        /\ cache' = [cache EXCEPT ![s][k] = NoEntry] /\ UNCHANGED <<version, req, settled>>
    BY <1>5 DEF CacheInv, CacheTyped, Evict
  <2>2. /\ cache' \in [Stores -> [CacheKeys -> CacheEntry \cup {NoEntry}]]
        /\ \A t \in Stores, x \in CacheKeys :
              cache'[t][x] = NoEntry \/ cache'[t][x] = cache[t][x]
    BY <2>1
  <2>3. EntriesMove
    BY <2>1, <2>2, DroppedEntries
  <2> QED BY <2>1, <2>3, NoHandlerMoves
<1>6. ASSUME UNCHANGED cacheVars PROVE CacheInv'
  <2>1. UNCHANGED <<version, cache, req, settled>>
    BY <1>6 DEF cacheVars
  <2>2. EntriesMove
    BY <2>1, SameVersions, QuietEntries
  <2> QED BY <2>1, <2>2, NoHandlerMoves
<1> QED BY <1>1, <1>2, <1>3, <1>4, <1>5, <1>6

LEMMA CacheInitInv == CacheInit => CacheInv
<1> SUFFICES ASSUME CacheInit PROVE CacheInv
  OBVIOUS
<1>1. /\ version = [p \in BoardPages |-> 0]
      /\ cache = [s \in Stores |-> [k \in CacheKeys |-> NoEntry]]
      /\ req = [r \in Reqs |-> NoRequest]
      /\ settled = [s \in Stores |-> [p \in BoardPages |-> 0]]
  BY DEF CacheInit
<1>2. CacheTyped
  BY <1>1 DEF CacheTyped
<1>3. ASSUME NEW s \in Stores, NEW k \in CacheKeys PROVE EntrySound(s, k)
  BY <1>1 DEF EntrySound, Cached
<1>4. \A r \in Reqs : req[r] = NoRequest
  BY <1>1
<1>5. req \in [Reqs -> {NoRequest} \cup Reader \cup Filler \cup Writer]
  BY <1>1
<1> QED BY <1>2, <1>3, <1>4, <1>5 DEF CacheInv, HandlerSound

LEMMA CacheNextInv == CacheInv /\ [CacheNext]_cacheVars => CacheInv'
<1> SUFFICES ASSUME CacheInv, [CacheNext]_cacheVars PROVE CacheInv'
  OBVIOUS
<1> DEFINE Goal == CacheInv'
<1>1. ASSUME NEW r \in Reqs, DeletePrefix(r) PROVE Goal
  BY <1>1, DeleteSomeKeeps, DeleteLastKeeps
<1>2. \A r \in Reqs, s \in Stores, p \in BoardPages : Lookup(r, s, p) => Goal
  BY LookupKeeps
<1>3. \A r \in Reqs, s \in Stores, m \in Modes : CommitScores(r, s, m) => Goal
  BY CommitScoresKeeps
<1>4. \A r \in Reqs, s \in Stores : CommitRename(r, s) => Goal
  BY CommitRenameKeeps
<1>5. \A r \in Reqs : ReadBoard(r) => Goal
  BY ReadBoardKeeps
<1>6. /\ \A r \in Reqs : Fill(r) => Goal
      /\ \A r \in Reqs : Lose(r) => Goal
      /\ \A m \in Modes : SilentChange(m) => Goal
      /\ Age => Goal
      /\ \A s \in Stores, k \in CacheKeys : Evict(s, k) => Goal
      /\ UNCHANGED cacheVars => Goal
  BY QuietKeeps
<1> HIDE DEF Goal
<1>7. Goal
  BY <1>1, <1>2, <1>3, <1>4, <1>5, <1>6 DEF CacheNext, Step
<1> QED BY <1>7 DEF Goal

LEMMA CacheInvIsEnough == CacheInv => StaleOnlyByOverlap
<1> SUFFICES ASSUME CacheInv, NEW s \in Stores, NEW e \in Shown(s),
                    e.version < settled[s][e.page]
             PROVE  e.overlapped
  BY DEF StaleOnlyByOverlap
<1>1. PICK k \in CacheKeys : Cached(s, k) /\ e = cache[s][k]
  BY DEF Shown
<1>2. e \in CacheEntry
  BY <1>1 DEF CacheInv, CacheTyped, Cached
<1>3. e.version \in Nat /\ settled[s][e.page] \in Nat
  BY <1>2 DEF CacheEntry, CacheInv, CacheTyped
<1> QED BY <1>1, <1>3 DEF CacheInv, EntrySound

(* A page dropped after a write comes back stale only from a read that     *)
(* overlapped a commit, in any number of stores, for any modes and filters *)
(* (whatever the modes are called) and any time to live.                   *)
THEOREM StaleCopiesOverlapped == CacheSpec => []StaleOnlyByOverlap
BY CacheInitInv, CacheNextInv, CacheInvIsEnough, PTL DEF CacheSpec

-----------------------------------------------------------------------------
(* 2. The session of a vault console.                                      *)

Tokens == (Nat \ {0}) \X (1..MaxRotations)
TokenOrNull == Tokens \cup {Null}
ClientOrNull == Clients \cup {Null}
Stamps == 0..(Cardinality(Tabs) + 2)
Session == [client : ClientOrNull, refresh : TokenOrNull, stamp : Stamps, recent : BOOLEAN]
Globals ==
    [session : Session, token : TokenOrNull, refresh : TokenOrNull, asked : ClientOrNull]
Family == [client : Clients, n : 1..MaxRotations, dead : BOOLEAN, access : BOOLEAN]

(* The calls that hold no token of their own, and those that do.           *)
Bare == [pc : {"register", "end", "forced"}, tab : Tabs]
Coded == [pc : {"code"}, tab : Tabs, client : Clients]
Waiting == [pc : {"wait", "send"}, tab : Tabs, tries : Nat, renews : BOOLEAN]
Revoking == [pc : {"revoke"}, tab : Tabs, client : ClientOrNull, refresh : TokenOrNull,
             access : TokenOrNull]
QuietCall == {NoCall} \cup Bare \cup Coded \cup Waiting \cup Revoking

Tokened == [pc : {"tokens"}, tab : Tabs, pair : Tokens]
Locked == [pc : {"meta"}, tab : Tabs, found : BOOLEAN, tries : Nat, renews : BOOLEAN]
Asking == [pc : {"ask"}, tab : Tabs, presented : TokenOrNull, client : ClientOrNull,
           found : BOOLEAN, tries : Nat, renews : BOOLEAN]
Answered == [pc : {"answer"}, tab : Tabs, pair : Tokens, tries : Nat, renews : BOOLEAN]

ConsoleTyped ==
    /\ stored \in Session
    /\ tab \in [Tabs -> Globals]
    /\ call \in [Calls -> QuietCall \cup Tokened \cup Locked \cup Asking \cup Answered]
    /\ family \in [DOMAIN family -> Family]
    /\ \E k \in Nat : DOMAIN family = 1..k
    /\ clients \in [DOMAIN clients -> BOOLEAN] /\ DOMAIN clients \subseteq Clients

(* A token that the server has issued.                                     *)
Issued(u) == u = Null \/ (u \in Pairs /\ u[2] <= family[u[1]].n)

Critical(c) == call[c].pc \in {"meta", "ask", "answer"}
Carries(c) == call[c].pc \in {"tokens", "answer"}

(* One call at a time is between the lock and its release.                 *)
OneRefreshes == \A c \in Calls : Critical(c) => lock = c

(* Every token in the browser was issued; the one in the record has not    *)
(* been consumed.                                                          *)
TokensIssued ==
    /\ Issued(stored.refresh) /\ ~Consumed(stored.refresh)
    /\ \A t \in Tabs : Issued(tab[t].session.refresh) /\ Issued(tab[t].refresh)
    /\ \A c \in Calls : At(c, "ask") => Issued(call[c].presented)

(* A pair that is on its way into the record is nowhere else yet, and has  *)
(* not been consumed.                                                      *)
Lone(u, c) ==
    /\ Issued(u) /\ ~Consumed(u)
    /\ u # stored.refresh
    /\ \A t \in Tabs : u # tab[t].session.refresh /\ u # tab[t].refresh
    /\ \A d \in Calls : /\ At(d, "ask") => u # call[d].presented
                        /\ Carries(d) /\ d # c => u # call[d].pair
PairsNew == \A c \in Calls : Carries(c) => Lone(call[c].pair, c)

(* A token that is presented has been taken out of the record; read from   *)
(* the record, it has not been consumed.                                   *)
TakenOut ==
    \A c \in Calls :
        /\ At(c, "meta") /\ call[c].found => ~Consumed(Of(c).refresh)
        /\ At(c, "ask") =>
              /\ stored.refresh = Null \/ stored.refresh # call[c].presented
              /\ call[c].found => ~Consumed(call[c].presented)

ConsoleInv == ConsoleTyped /\ OneRefreshes /\ TokensIssued /\ PairsNew /\ TakenOut

LEMMA CallsByPc ==
    ASSUME ConsoleTyped, NEW c \in Calls
    PROVE  /\ At(c, "tokens") => call[c] \in Tokened
           /\ At(c, "meta") => call[c] \in Locked
           /\ At(c, "ask") => call[c] \in Asking
           /\ At(c, "answer") => call[c] \in Answered
           /\ At(c, "code") => call[c] \in Coded
           /\ At(c, "wait") \/ At(c, "send") => call[c] \in Waiting
           /\ At(c, "revoke") => call[c] \in Revoking
           /\ At(c, "register") \/ At(c, "end") \/ At(c, "forced") => call[c] \in Bare
           /\ call[c] # NoCall => call[c].tab \in Tabs
<1>1. call[c] \in QuietCall \cup Tokened \cup Locked \cup Asking \cup Answered
  BY DEF ConsoleTyped
<1> QED
  BY <1>1 DEF QuietCall, Bare, Coded, Waiting, Revoking, Tokened, Locked, Asking, Answered,
              NoCall, At

LEMMA QuietOnes ==
    ASSUME NEW q \in QuietCall
    PROVE  q.pc \notin {"meta", "ask", "answer", "tokens"}
BY DEF QuietCall, NoCall, Bare, Coded, Waiting, Revoking

LEMMA TokensArePairs ==
    ASSUME NEW u \in Tokens
    PROVE  u[1] \in Nat \ {0} /\ u[2] \in 1..MaxRotations /\ u = <<u[1], u[2]>> /\ u # Null
<1>1. PICK f \in Nat \ {0}, n \in 1..MaxRotations : u = <<f, n>>
  BY DEF Tokens
<1>2. u[1] = f /\ u[2] = n
  BY <1>1
<1>3. u # Null
  <2>1. Len(u) = 2
    BY <1>1
  <2>2. Len(Null) = 0
    BY DEF Null
  <2> QED BY <2>1, <2>2
<1> QED BY <1>1, <1>2, <1>3

LEMMA NullNotConsumed == ~Consumed(Null) /\ Null \notin Pairs
<1>1. ASSUME Null \in Pairs PROVE FALSE
  <2>1. PICK f \in DOMAIN family, n \in 1..MaxRotations : Null = <<f, n>>
    BY <1>1 DEF Pairs
  <2>2. Len(<<f, n>>) = 2
    OBVIOUS
  <2>3. Len(Null) = 0
    BY DEF Null
  <2> QED BY <2>1, <2>2, <2>3
<1> QED BY <1>1 DEF Consumed

(* What a token says of itself in a typed state.                           *)
LEMMA IssuedTokens ==
    ASSUME ConsoleTyped, NEW u \in Tokens
    PROVE  /\ u \in Pairs <=> u[1] \in DOMAIN family
           /\ Issued(u) <=> u[1] \in DOMAIN family /\ u[2] <= family[u[1]].n
           /\ Consumed(u) <=> u[1] \in DOMAIN family /\ family[u[1]].n > u[2]
<1>1. u[2] \in 1..MaxRotations /\ u = <<u[1], u[2]>> /\ u # Null
  BY TokensArePairs
<1>2. u \in Pairs <=> u[1] \in DOMAIN family
  BY <1>1 DEF Pairs
<1> QED BY <1>1, <1>2 DEF Issued, Consumed

-----------------------------------------------------------------------------
(* What most steps do: a token is forgotten, is copied from the record, or *)
(* is the pair x that a call has just delivered; no family rotates.        *)

Delivered(x) ==
    \/ x = Null
    \/ \E c \in Calls : Carries(c) /\ call[c].pair = x /\ call'[c] \in QuietCall
StoreMoves(x) == stored' \in Session /\ stored'.refresh \in {Null, stored.refresh, x}
TabMoves(x) ==
    /\ tab' \in [Tabs -> Globals]
    /\ \A t \in Tabs :
          /\ tab'[t].session.refresh \in {Null, stored.refresh, tab[t].session.refresh, x}
          /\ tab'[t].refresh \in {Null, stored.refresh, tab[t].refresh, x}
CallMoves ==
    /\ DOMAIN call' = Calls /\ call' = [c \in Calls |-> call'[c]]
    /\ \A c \in Calls : call'[c] = call[c] \/ call'[c] \in QuietCall
    /\ \A c \in Calls : Critical(c) => lock' = lock \/ call'[c] \in QuietCall
FamilyMoves ==
    /\ family' \in [DOMAIN family -> Family]
    /\ \A f \in DOMAIN family : family'[f].n = family[f].n
ClientsMove == clients' \in [DOMAIN clients' -> BOOLEAN] /\ DOMAIN clients' \subseteq Clients
Steady(x) ==
    Delivered(x) /\ StoreMoves(x) /\ TabMoves(x) /\ CallMoves /\ FamilyMoves /\ ClientsMove

LEMMA SteadyTokens ==
    ASSUME ConsoleTyped, FamilyMoves
    PROVE  /\ DOMAIN family' = DOMAIN family
           /\ \A u : (Issued(u)' <=> Issued(u)) /\ (Consumed(u)' <=> Consumed(u))
<1>1. DOMAIN family' = DOMAIN family
  BY DEF FamilyMoves
<1>2. Pairs' = Pairs
  BY <1>1 DEF Pairs
<1>3. ASSUME NEW u, u \in Pairs PROVE family'[u[1]].n = family[u[1]].n
  <2>1. PICK f \in DOMAIN family, n \in 1..MaxRotations : u = <<f, n>>
    BY <1>3 DEF Pairs
  <2>2. u[1] = f
    BY <2>1
  <2> QED BY <2>2 DEF FamilyMoves
<1> QED BY <1>1, <1>2, <1>3 DEF Issued, Consumed

LEMMA SteadyTyped ==
    ASSUME ConsoleTyped, NEW x, Steady(x)
    PROVE  ConsoleTyped'
<1>1. DOMAIN family' = DOMAIN family
  BY SteadyTokens DEF Steady
<1>2. call' \in [Calls -> QuietCall \cup Tokened \cup Locked \cup Asking \cup Answered]
  <2>1. \A c \in Calls : call'[c] \in QuietCall \cup Tokened \cup Locked \cup Asking \cup Answered
    BY DEF Steady, CallMoves, ConsoleTyped
  <2> QED BY <2>1 DEF Steady, CallMoves
<1>3. \E k \in Nat : DOMAIN family' = 1..k
  BY <1>1 DEF ConsoleTyped
<1>4. family' \in [DOMAIN family' -> Family]
  BY <1>1 DEF Steady, FamilyMoves
<1> HIDE DEF Family, Session, Globals
<1> QED BY <1>2, <1>3, <1>4 DEF Steady, StoreMoves, TabMoves, ClientsMove, ConsoleTyped

(* A call that still has a token of its own has not been touched.          *)
LEMMA SteadyCalls ==
    ASSUME ConsoleTyped, CallMoves, NEW c \in Calls,
           call'[c].pc \in {"meta", "ask", "answer", "tokens"}
    PROVE  call'[c] = call[c] /\ (Critical(c) => lock' = lock)
BY QuietOnes DEF CallMoves

LEMMA SteadyKeeps ==
    ASSUME ConsoleInv, NEW x, Steady(x)
    PROVE  ConsoleInv'
<1> USE DEF ConsoleInv
<1>1. ConsoleTyped'
  BY SteadyTyped
<1>2. \A u : (Issued(u)' <=> Issued(u)) /\ (Consumed(u)' <=> Consumed(u))
  BY SteadyTokens DEF Steady
<1>3. /\ Issued(x) /\ ~Consumed(x)
      /\ \A c \in Calls : Carries(c) /\ call'[c] = call[c] => x # call[c].pair \/ x = Null
      /\ \A c \in Calls : At(c, "ask") => x # call[c].presented \/ x = Null
  <2>1. CASE x = Null
    BY <2>1, NullNotConsumed DEF Issued
  <2>2. CASE \E c \in Calls : Carries(c) /\ call[c].pair = x /\ call'[c] \in QuietCall
    <3>1. PICK c \in Calls : Carries(c) /\ call[c].pair = x /\ call'[c] \in QuietCall
      BY <2>2
    <3>2. call'[c] # call[c]
      BY <3>1, QuietOnes DEF Carries
    <3> QED BY <3>1, <3>2 DEF PairsNew, Lone
  <2> QED BY <2>1, <2>2 DEF Steady, Delivered
<1>4. \A c \in Calls : call'[c].pc \in {"meta", "ask", "answer", "tokens"} =>
         call'[c] = call[c] /\ (Critical(c) => lock' = lock)
  BY SteadyCalls DEF Steady
<1>5. OneRefreshes'
  BY <1>4 DEF OneRefreshes, Critical
<1>6. TokensIssued'
  <2>1. Issued(stored'.refresh) /\ ~Consumed(stored'.refresh)
    BY <1>3, NullNotConsumed DEF Steady, StoreMoves, TokensIssued, Issued
  <2>2. \A t \in Tabs : Issued(tab'[t].session.refresh) /\ Issued(tab'[t].refresh)
    BY <1>3 DEF Steady, TabMoves, TokensIssued, Issued
  <2>3. \A c \in Calls : call'[c].pc = "ask" => Issued(call'[c].presented)
    BY <1>4 DEF TokensIssued, At
  <2> QED BY <1>2, <2>1, <2>2, <2>3 DEF TokensIssued, At
<1>7. PairsNew'
  <2> SUFFICES ASSUME NEW c \in Calls, call'[c].pc \in {"tokens", "answer"}
               PROVE  Lone(call[c].pair, c)'
    BY DEF PairsNew, Carries, At
  <2>1. call'[c] = call[c] /\ Carries(c)
    BY <1>4 DEF Carries
  <2> DEFINE u == call[c].pair
  <2>2. u \in Tokens /\ u # Null
    BY <2>1, CallsByPc, TokensArePairs DEF Carries, Tokened, Answered, At
  <2>3. u # x
    BY <2>1, <2>2, <1>3
  <2>4. Issued(u) /\ ~Consumed(u) /\ u # stored.refresh
    BY <2>1 DEF PairsNew, Lone
  <2>5. u # stored'.refresh
    BY <2>2, <2>3, <2>4 DEF Steady, StoreMoves
  <2>6. \A t \in Tabs : u # tab'[t].session.refresh /\ u # tab'[t].refresh
    BY <2>1, <2>2, <2>3, <2>4 DEF Steady, TabMoves, PairsNew, Lone
  <2>7. \A d \in Calls : /\ call'[d].pc = "ask" => u # call'[d].presented
                         /\ call'[d].pc \in {"tokens", "answer"} /\ d # c => u # call'[d].pair
    BY <2>1, <1>4 DEF PairsNew, Lone, Carries, At
  <2>8. PICK v : v = call'[c].pair
    OBVIOUS
  <2>9. v = u /\ Issued(v)' /\ ~Consumed(v)'
    BY <1>2, <2>1, <2>4, <2>8
  <2> HIDE DEF u
  <2> QED BY <2>5, <2>6, <2>7, <2>8, <2>9 DEF Lone, At, Carries, Issued, Consumed, Pairs
<1>8. TakenOut'
  <2>1. ASSUME NEW c \in Calls, call'[c].pc = "meta", call'[c].found
        PROVE  ~Consumed(tab'[call'[c].tab].refresh)
    <3>1. call'[c] = call[c] /\ call[c].tab \in Tabs
      BY <2>1, <1>4, CallsByPc DEF Locked, At
    <3>2. ~Consumed(tab[call[c].tab].refresh)
      BY <2>1, <3>1 DEF TakenOut, At, Of
    <3>3. tab'[call[c].tab].refresh \in {Null, stored.refresh, tab[call[c].tab].refresh, x}
      BY <3>1 DEF Steady, TabMoves
    <3> QED BY <3>1, <3>2, <3>3, <1>3, NullNotConsumed DEF TokensIssued
  <2>2. ASSUME NEW c \in Calls, call'[c].pc = "ask"
        PROVE  /\ stored'.refresh = Null \/ stored'.refresh # call'[c].presented
               /\ call'[c].found => ~Consumed(call'[c].presented)
    <3>1. call'[c] = call[c]
      BY <2>2, <1>4
    <3> QED BY <3>1, <2>2, <1>3 DEF Steady, StoreMoves, TakenOut, At
  <2> QED BY <1>2, <2>1, <2>2 DEF TakenOut, At, Of
<1> QED BY <1>1, <1>5, <1>6, <1>7, <1>8

-----------------------------------------------------------------------------
(* The parts that the steps are made of.                                   *)

LEMMA EmptyIsSession ==
    /\ Empty \in Session /\ Empty.refresh = Null
    /\ Null \in TokenOrNull /\ Null \in ClientOrNull
<1>1. 0 \in Stamps
  BY FS_CardinalityType, ConsoleAssumption DEF Stamps
<1> QED BY <1>1 DEF Empty, Session, ClientOrNull, TokenOrNull

(* There are more stamps than records.                                     *)
LEMMA StampsLeft ==
    ASSUME ConsoleTyped
    PROVE  \E s \in 1..(Cardinality(Tabs) + 2) :
               stored.stamp # s /\ \A t \in Tabs : tab[t].session.stamp # s
<1> DEFINE n == Cardinality(Tabs)  of == {tab[t].session.stamp : t \in Tabs}
           used == of \cup {stored.stamp}
<1>0. IsFiniteSet(Tabs)
  BY ConsoleAssumption
<1>1. n \in Nat
  BY <1>0, FS_CardinalityType
<1>2. IsFiniteSet(of) /\ Cardinality(of) <= n
  <2> DEFINE f == [t \in Tabs |-> tab[t].session.stamp]
  <2>1. f \in Surjection(Tabs, of)
    BY DEF Surjection
  <2> QED BY <1>0, <2>1, FS_Surjection
<1>3. IsFiniteSet(used) /\ Cardinality(used) <= n + 1
  <2>1. IsFiniteSet(used)
    BY <1>2, FS_AddElement
  <2>2. \/ Cardinality(used) = Cardinality(of)
        \/ Cardinality(used) = Cardinality(of) + 1
    BY <1>2, FS_AddElement
  <2>3. Cardinality(of) \in Nat
    BY <1>2, FS_CardinalityType
  <2> HIDE DEF n, of, used
  <2> QED BY <1>1, <1>2, <2>1, <2>2, <2>3
<1>4. SUFFICES ASSUME 1..(n + 2) \subseteq used PROVE FALSE
  <2>1. CASE 1..(n + 2) \subseteq used
    BY <1>4, <2>1
  <2>2. CASE ~(1..(n + 2) \subseteq used)
    <3>1. PICK s \in 1..(n + 2) : s \notin used
      BY <2>2
    <3>2. stored.stamp # s /\ \A t \in Tabs : tab[t].session.stamp # s
      BY <3>1
    <3> QED BY <3>1, <3>2
  <2> QED BY <2>1, <2>2
<1>5. Cardinality(1..(n + 2)) = n + 2
  <2>1. 1 \in Int /\ n + 2 \in Int /\ n + 2 >= 1
    BY <1>1
  <2>2. Cardinality(1..(n + 2)) = (n + 2) - 1 + 1
    BY <2>1, FS_Interval
  <2> QED BY <1>1, <2>2
<1>6. Cardinality(1..(n + 2)) <= Cardinality(used)
  BY <1>3, <1>4, FS_Subset
<1>7. Cardinality(used) \in Nat
  BY <1>3, FS_CardinalityType
<1> HIDE DEF n, used
<1> QED BY <1>1, <1>3, <1>5, <1>6, <1>7

LEMMA SavedSession ==
    ASSUME ConsoleTyped, NEW s \in Session
    PROVE  Saved(s) \in Session /\ Saved(s).refresh = s.refresh /\ Saved(s).client = s.client
<1> DEFINE P(i) == stored.stamp # i /\ \A t \in Tabs : tab[t].session.stamp # i
           i == CHOOSE i \in 1..(Cardinality(Tabs) + 2) : P(i)
<1>1. i \in 1..(Cardinality(Tabs) + 2)
  <2>1. \E j \in 1..(Cardinality(Tabs) + 2) : P(j)
    BY StampsLeft
  <2> QED BY <2>1
<1>2. Saved(s) = [s EXCEPT !.stamp = i]
  BY DEF Saved
<1>3. i \in Stamps
  BY <1>1, ConsoleAssumption, FS_CardinalityType DEF Stamps
<1> HIDE DEF i
<1> QED BY <1>2, <1>3 DEF Session

LEMMA LoadedSession ==
    ASSUME ConsoleTyped
    PROVE  Loaded \in Session /\ Loaded.refresh \in {Null, stored.refresh}
BY EmptyIsSession DEF Loaded, ConsoleTyped

LEMMA TabSteady ==
    ASSUME ConsoleTyped, NEW x, NEW t \in Tabs, NEW g \in Globals,
           tab' = [tab EXCEPT ![t] = g],
           g.session.refresh \in {Null, stored.refresh, tab[t].session.refresh, x},
           g.refresh \in {Null, stored.refresh, tab[t].refresh, x}
    PROVE  TabMoves(x)
<1>1. tab' \in [Tabs -> Globals]
  BY DEF ConsoleTyped
<1>2. \A u \in Tabs : tab'[u] = IF u = t THEN g ELSE tab[u]
  BY DEF ConsoleTyped
<1> QED BY <1>1, <1>2 DEF TabMoves

LEMMA SameTabSteady ==
    ASSUME ConsoleTyped, NEW x, tab' = tab
    PROVE  TabMoves(x)
BY DEF TabMoves, ConsoleTyped

LEMMA CallSteady ==
    ASSUME ConsoleTyped, OneRefreshes, NEW c \in Calls, NEW q \in QuietCall,
           call' = [call EXCEPT ![c] = q], Critical(c) \/ lock' = lock
    PROVE  CallMoves /\ call'[c] = q
<1>1. call' = [d \in Calls |-> IF d = c THEN q ELSE call[d]]
  BY DEF ConsoleTyped
<1>2. \A d \in Calls : Critical(d) => lock' = lock \/ call'[d] \in QuietCall
  BY <1>1 DEF OneRefreshes
<1> QED BY <1>1, <1>2 DEF CallMoves

LEMMA SameCallSteady ==
    ASSUME ConsoleTyped, call' = call, lock' = lock
    PROVE  CallMoves
BY DEF CallMoves, ConsoleTyped

LEMMA NoCallQuiet == NoCall \in QuietCall /\ NoCall.pc = "idle"
BY DEF QuietCall, NoCall

(* A page that is left takes its calls along, and the lock if it is theirs.*)
LEMMA LeftSteady ==
    ASSUME ConsoleTyped, OneRefreshes, NEW t \in Tabs, NEW c \in Calls, NEW q \in QuietCall,
           call[c] = NoCall \/ c \in In(t),
           call' = Left(t) \/ call' = [Left(t) EXCEPT ![c] = q], lock' = Released(t)
    PROVE  CallMoves
<1>1. \A d \in Calls : Left(t)[d] = IF d \in In(t) THEN NoCall ELSE call[d]
  BY DEF Left
<1>2. DOMAIN call' = Calls /\ call' = [d \in Calls |-> call'[d]]
  BY DEF Left
<1>3. \A d \in Calls : call'[d] = Left(t)[d] \/ call'[d] = q
  BY DEF Left
<1>4. \A d \in Calls : call'[d] = call[d] \/ call'[d] \in QuietCall
  BY <1>1, <1>3, NoCallQuiet
<1>5. ASSUME NEW d \in Calls, Critical(d) PROVE lock' = lock \/ call'[d] \in QuietCall
  <2>1. lock = d
    BY <1>5 DEF OneRefreshes
  <2>2. d \in In(t) \/ lock' = lock
    BY <2>1 DEF Released
  <2> QED BY <1>1, <1>3, <2>2, NoCallQuiet
<1> QED BY <1>2, <1>4, <1>5 DEF CallMoves

LEMMA SameStoreSteady == ASSUME ConsoleTyped, NEW x, stored' = stored PROVE StoreMoves(x)
BY DEF StoreMoves, ConsoleTyped

LEMMA SameServerSteady ==
    /\ ConsoleTyped /\ family' = family => FamilyMoves
    /\ ConsoleTyped /\ clients' = clients => ClientsMove
BY DEF FamilyMoves, ClientsMove, ConsoleTyped

LEMMA BurnedSteady ==
    ASSUME ConsoleTyped, NEW f \in DOMAIN family, family' = Burned(f)
    PROVE  FamilyMoves
<1>1. \A g \in DOMAIN family : family[g] \in Family
  BY DEF ConsoleTyped
<1>2. family' = [g \in DOMAIN family |->
                    IF g = f THEN [family[f] EXCEPT !.dead = TRUE] ELSE family[g]]
  BY DEF Burned, ConsoleTyped
<1>3. /\ [family[f] EXCEPT !.dead = TRUE] \in Family
      /\ [family[f] EXCEPT !.dead = TRUE].n = family[f].n
  BY <1>1 DEF Family
<1> HIDE DEF Family
<1> QED BY <1>1, <1>2, <1>3 DEF FamilyMoves

LEMMA GlobalsOfTabs ==
    ASSUME ConsoleTyped, NEW t \in Tabs
    PROVE  tab[t] \in Globals /\ tab[t].session \in Session
BY DEF ConsoleTyped, Globals

LEMMA FreshGlobals ==
    ASSUME ConsoleTyped, NEW t \in Tabs
    PROVE  /\ Fresh(t) \in Globals
           /\ Fresh(t).session = Loaded /\ Fresh(t).refresh = Loaded.refresh
<1>1. tab[t] \in Globals /\ Loaded \in Session
  BY GlobalsOfTabs, LoadedSession
<1>2. Loaded.refresh \in TokenOrNull /\ Null \in ClientOrNull
  BY <1>1 DEF Session, ClientOrNull
<1> QED BY <1>1, <1>2 DEF Fresh, Globals

(* resumeSession copies nothing but the record.                            *)
LEMMA ResumeSteady ==
    ASSUME ConsoleTyped, NEW t \in Tabs, NEW c \in Calls, NEW g \in Globals, NEW calls,
           g.session.refresh \in {Null, stored.refresh, tab[t].session.refresh},
           g.refresh \in {Null, stored.refresh, tab[t].refresh},
           Resume(t, c, g, calls)
    PROVE  /\ StoreMoves(Null) /\ TabMoves(Null)
           /\ \E q \in QuietCall : call' = [calls EXCEPT ![c] = q]
<1> DEFINE go == g.token = Null /\ Loaded.refresh # Null
<1>1. Loaded \in Session /\ Loaded.refresh \in {Null, stored.refresh}
  BY LoadedSession
<1>2. StoreMoves(Null)
  BY <1>1 DEF Resume, StoreMoves
<1>3. TabMoves(Null)
  <2>1. PICK h : h = IF go THEN [g EXCEPT !.session = Loaded, !.refresh = Loaded.refresh] ELSE g
    OBVIOUS
  <2>2. h \in Globals
    BY <1>1, <2>1 DEF Globals, Session
  <2>3. h.session.refresh \in {Null, stored.refresh, tab[t].session.refresh}
    BY <1>1, <2>1 DEF Globals
  <2>4. h.refresh \in {Null, stored.refresh, tab[t].refresh}
    BY <1>1, <2>1 DEF Globals
  <2>5. tab' = [tab EXCEPT ![t] = h]
    BY <2>1 DEF Resume, Set
  <2> QED BY <2>2, <2>3, <2>4, <2>5, TabSteady
<1>4. \E q \in QuietCall : call' = [calls EXCEPT ![c] = q]
  <2>1. PICK q : q = IF go THEN [pc |-> "wait", tab |-> t, tries |-> 0, renews |-> TRUE]
                           ELSE NoCall
    OBVIOUS
  <2>2. q \in QuietCall
    BY <2>1, NoCallQuiet DEF QuietCall, Waiting
  <2>3. call' = [calls EXCEPT ![c] = q]
    BY <2>1 DEF Resume
  <2> QED BY <2>2, <2>3
<1> QED BY <1>2, <1>3, <1>4

LEMMA NoneDelivered == Delivered(Null)
BY DEF Delivered

LEMMA ServerSteady ==
    ASSUME ConsoleInv, UNCHANGED <<stored, lock, tab, call>>, FamilyMoves, ClientsMove
    PROVE  Steady(Null)
BY NoneDelivered, SameStoreSteady, SameTabSteady, SameCallSteady DEF Steady, ConsoleInv

LEMMA ExpireSteady ==
    ASSUME ConsoleInv, NEW f \in DOMAIN family, Expire(f) \/ Lapse(f)
    PROVE  Steady(Null)
<1> USE DEF ConsoleInv
<1>1. FamilyMoves
  <2>1. CASE Lapse(f)
    BY <2>1, BurnedSteady DEF Lapse
  <2>2. CASE Expire(f)
    <3>1. \A g \in DOMAIN family : family[g] \in Family
      BY DEF ConsoleTyped
    <3>2. PICK q : q = [family[f] EXCEPT !.access = FALSE]
      OBVIOUS
    <3>3. q \in Family /\ q.n = family[f].n
      BY <3>1, <3>2 DEF Family
    <3>4. family' = [g \in DOMAIN family |-> IF g = f THEN q ELSE family[g]]
      BY <2>2, <3>2 DEF Expire, ConsoleTyped
    <3> HIDE DEF Family
    <3> QED BY <3>1, <3>3, <3>4 DEF FamilyMoves
  <2> QED BY <2>1, <2>2
<1>2. UNCHANGED <<stored, lock, tab, call, clients>>
  BY DEF Expire, Lapse
<1> QED BY <1>1, <1>2, ServerSteady, SameServerSteady

LEMMA PruneSteady ==
    ASSUME ConsoleInv, NEW c \in DOMAIN clients, Prune(c)
    PROVE  Steady(Null)
<1>1. ClientsMove
  BY DEF Prune, ClientsMove, ConsoleInv, ConsoleTyped
<1> QED BY <1>1, ServerSteady, SameServerSteady DEF Prune, ConsoleInv

LEMMA MonthSteady ==
    ASSUME ConsoleInv, Month
    PROVE  Steady(Null)
<1> USE DEF ConsoleInv
<1>1. StoreMoves(Null)
  BY DEF Month, StoreMoves, ConsoleTyped, Session
<1>2. TabMoves(Null)
  <2>1. \A t \in Tabs : tab[t] \in Globals /\ tab[t].session \in Session
    BY GlobalsOfTabs
  <2>2. \A t \in Tabs : tab'[t] = [tab[t] EXCEPT !.session.recent = FALSE]
    BY DEF Month
  <2>3. ASSUME NEW t \in Tabs
        PROVE  /\ tab'[t] \in Globals
               /\ tab'[t].session.refresh = tab[t].session.refresh
               /\ tab'[t].refresh = tab[t].refresh
    <3>1. PICK s : s = [tab[t].session EXCEPT !.recent = FALSE]
      OBVIOUS
    <3>2. s \in Session /\ s.refresh = tab[t].session.refresh
      BY <2>1, <3>1 DEF Session
    <3>3. tab'[t] = [tab[t] EXCEPT !.session = s]
      BY <2>1, <2>2, <3>1 DEF Globals
    <3> HIDE DEF Session
    <3> QED BY <2>1, <3>2, <3>3 DEF Globals
  <2>4. tab' \in [Tabs -> Globals]
    BY <2>3 DEF Month
  <2> QED BY <2>3, <2>4 DEF TabMoves
<1> QED BY <1>1, <1>2, NoneDelivered, SameCallSteady, SameServerSteady DEF Steady, Month

-----------------------------------------------------------------------------
(* The steps of a page that opens, and of a sign-in.                       *)

LEMMA OpenSteady ==
    ASSUME ConsoleInv, NEW t \in Tabs, NEW c \in Calls, Open(t, c)
    PROVE  Steady(Null)
<1> USE DEF ConsoleInv
<1>1. Loaded.refresh \in {Null, stored.refresh}
  BY LoadedSession
<1>2. /\ Fresh(t) \in Globals
      /\ Fresh(t).session.refresh \in {Null, stored.refresh}
      /\ Fresh(t).refresh \in {Null, stored.refresh}
  BY <1>1, FreshGlobals
<1>3. /\ StoreMoves(Null) /\ TabMoves(Null)
      /\ \E q \in QuietCall : call' = [Left(t) EXCEPT ![c] = q]
  BY <1>2, ResumeSteady DEF Open
<1>4. CallMoves
  BY <1>3, LeftSteady DEF Open
<1> QED BY <1>3, <1>4, NoneDelivered, SameServerSteady DEF Steady, Open

LEMMA SignInSteady ==
    ASSUME ConsoleInv, NEW t \in Tabs, NEW c \in Calls, SignIn(t, c)
    PROVE  Steady(Null)
<1> USE DEF ConsoleInv
<1>1. TabMoves(Null)
  <2>1. CASE tab' = tab
    BY <2>1, SameTabSteady
  <2>2. CASE /\ Present(tab[t].session)
             /\ tab' = [tab EXCEPT ![t] = [tab[t] EXCEPT !.asked = tab[t].session.client]]
    <3>1. PICK g : g = [tab[t] EXCEPT !.asked = tab[t].session.client]
      OBVIOUS
    <3>2. g \in Globals /\ g.session = tab[t].session /\ g.refresh = tab[t].refresh
      BY <3>1, GlobalsOfTabs DEF Globals, Session
    <3> QED BY <2>2, <3>1, <3>2, TabSteady
  <2> QED BY <2>1, <2>2 DEF SignIn, Set
<1>2. CallMoves
  <2>1. CASE call' = Left(t) /\ lock' = Released(t)
    BY <2>1, LeftSteady, NoCallQuiet DEF SignIn
  <2>2. CASE Goto(c, [pc |-> "register", tab |-> t]) /\ lock' = lock
    <3>1. [pc |-> "register", tab |-> t] \in QuietCall
      BY DEF QuietCall, Bare
    <3> QED BY <2>2, <3>1, CallSteady DEF Goto
  <2> QED BY <2>1, <2>2 DEF SignIn
<1> QED BY <1>1, <1>2, NoneDelivered, SameStoreSteady, SameServerSteady DEF Steady, SignIn

LEMMA RegisteredSteady ==
    ASSUME ConsoleInv, NEW t \in Tabs, NEW asked \in BOOLEAN, Registered(t, asked)
    PROVE  StoreMoves(Null) /\ TabMoves(Null) /\ ClientsMove
<1> USE DEF ConsoleInv
<1> DEFINE new(id) == [Empty EXCEPT !.client = id, !.recent = TRUE]
<1>1. PICK id \in Clients \ DOMAIN clients :
        /\ clients' = [d \in DOMAIN clients \cup {id} |-> d = id \/ clients[d]]
        /\ Set(t, [tab[t] EXCEPT !.session = Saved(new(id)), !.asked = IF asked THEN id ELSE Null])
        /\ stored' = Saved(new(id))
  BY DEF Registered
<1>2. new(id) \in Session /\ new(id).refresh = Null
  BY <1>1, EmptyIsSession DEF Empty, Session, ClientOrNull
<1>3. PICK s : s = Saved(new(id))
  OBVIOUS
<1>4. s \in Session /\ s.refresh = Null
  BY <1>2, <1>3, SavedSession
<1>5. StoreMoves(Null)
  BY <1>1, <1>3, <1>4 DEF StoreMoves
<1>6. TabMoves(Null)
  <2>1. PICK g : g = [tab[t] EXCEPT !.session = s, !.asked = IF asked THEN id ELSE Null]
    OBVIOUS
  <2>2. g \in Globals /\ g.session = s /\ g.refresh = tab[t].refresh
    BY <1>4, <2>1, GlobalsOfTabs DEF Globals, ClientOrNull
  <2>3. tab' = [tab EXCEPT ![t] = g]
    BY <1>1, <1>3, <2>1 DEF Set
  <2> QED BY <1>4, <2>2, <2>3, TabSteady
<1>7. ClientsMove
  BY <1>1 DEF ClientsMove, ConsoleTyped
<1> QED BY <1>5, <1>6, <1>7

LEMMA RegisterSteady ==
    ASSUME ConsoleInv, NEW c \in Calls, Register(c) \/ RegisterAgain(c)
    PROVE  Steady(Null)
<1> USE DEF ConsoleInv
<1>1. call[c].tab \in Tabs
  BY CallsByPc, NoCallQuiet DEF Register, RegisterAgain, At, NoCall
<1>2. StoreMoves(Null) /\ TabMoves(Null) /\ ClientsMove
  BY <1>1, RegisteredSteady DEF Register, RegisterAgain
<1>3. CallMoves
  <2>1. CASE RegisterAgain(c)
    BY <2>1, SameCallSteady DEF RegisterAgain
  <2>2. CASE Register(c)
    <3>1. c \in In(call[c].tab)
      BY <2>2 DEF Register, In, At, NoCall
    <3> QED BY <1>1, <2>2, <3>1, LeftSteady, NoCallQuiet DEF Register
  <2> QED BY <2>1, <2>2
<1> QED BY <1>2, <1>3, NoneDelivered, SameServerSteady DEF Steady, Register, RegisterAgain

LEMMA DeniedSteady ==
    ASSUME ConsoleInv, NEW t \in Tabs, Denied(t)
    PROVE  Steady(Null)
<1> USE DEF ConsoleInv
<1>1. TabMoves(Null)
  <2>1. PICK g : g = [Fresh(t) EXCEPT !.session = Empty]
    OBVIOUS
  <2>2. g \in Globals /\ g.session = Empty /\ g.refresh = Fresh(t).refresh
    BY <2>1, FreshGlobals, EmptyIsSession DEF Globals
  <2>3. g.refresh \in {Null, stored.refresh} /\ g.session.refresh = Null
    BY <2>2, FreshGlobals, LoadedSession, EmptyIsSession
  <2>4. tab' = [tab EXCEPT ![t] = g]
    BY <2>1 DEF Denied, Set
  <2> QED BY <2>2, <2>3, <2>4, TabSteady
<1>2. StoreMoves(Null)
  BY EmptyIsSession DEF Denied, StoreMoves
<1> QED BY <1>1, <1>2, NoneDelivered, SameCallSteady, SameServerSteady DEF Steady, Denied

LEMMA ApprovedSteady ==
    ASSUME ConsoleInv, NEW t \in Tabs, NEW c \in Calls, Approved(t, c)
    PROVE  Steady(Null)
<1> USE DEF ConsoleInv
<1>1. TabMoves(Null)
  <2>1. Fresh(t) \in Globals
    BY FreshGlobals
  <2>2. /\ Fresh(t).refresh \in {Null, stored.refresh}
        /\ Fresh(t).session.refresh \in {Null, stored.refresh}
    BY FreshGlobals, LoadedSession
  <2> QED BY <2>1, <2>2, TabSteady DEF Approved, Set
<1>2. StoreMoves(Null)
  BY LoadedSession DEF Approved, StoreMoves
<1>3. CallMoves
  <2>1. [pc |-> "code", tab |-> t, client |-> tab[t].asked] \in QuietCall
    BY DEF Approved, Known, ConsoleTyped, QuietCall, Coded
  <2> QED BY <2>1, CallSteady DEF Approved, Goto
<1> QED BY <1>1, <1>2, <1>3, NoneDelivered, SameServerSteady DEF Steady, Approved

(* storeTokens delivers the pair of its call.                              *)
LEMMA KeepSteady ==
    ASSUME ConsoleInv, NEW c \in Calls, NEW x \in Tokens, call[c].tab \in Tabs, Keep(c, x)
    PROVE  StoreMoves(x) /\ TabMoves(x)
<1> USE DEF ConsoleInv
<1>1. PICK o : o = [Of(c).session EXCEPT !.refresh = x]
  OBVIOUS
<1>2. Of(c) \in Globals /\ Of(c).session \in Session /\ x \in TokenOrNull
  BY GlobalsOfTabs DEF Of, TokenOrNull
<1>3. o \in Session /\ o.refresh = x
  BY <1>1, <1>2 DEF Session
<1>4. PICK s : s = Saved(o)
  OBVIOUS
<1>5. s \in Session /\ s.refresh = x
  BY <1>3, <1>4, SavedSession
<1>6. PICK g : g = [Of(c) EXCEPT !.session = s, !.token = x, !.refresh = x]
  OBVIOUS
<1>7. g \in Globals /\ g.session = s /\ g.refresh = x
  BY <1>2, <1>5, <1>6 DEF Globals
<1>8. tab' = [tab EXCEPT ![call[c].tab] = g] /\ stored' = s
  BY <1>1, <1>4, <1>6 DEF Keep, Set
<1>9. TabMoves(x)
  BY <1>5, <1>7, <1>8, TabSteady
<1> QED BY <1>5, <1>8, <1>9 DEF StoreMoves

LEMMA SignedInSteady ==
    ASSUME ConsoleInv, NEW c \in Calls, SignedIn(c)
    PROVE  \E x \in Tokens : Steady(x)
<1> USE DEF ConsoleInv
<1>1. PICK x : x = call[c].pair
  OBVIOUS
<1>2. x \in Tokens /\ call[c].tab \in Tabs /\ Carries(c)
  BY <1>1, CallsByPc DEF SignedIn, Tokened, At, Carries
<1>3. StoreMoves(x) /\ TabMoves(x)
  BY <1>1, <1>2, KeepSteady DEF SignedIn
<1>4. CallMoves /\ call'[c] \in QuietCall
  BY CallSteady, NoCallQuiet DEF SignedIn, Goto
<1>5. Delivered(x)
  BY <1>1, <1>2, <1>4 DEF Delivered
<1> QED BY <1>2, <1>3, <1>4, <1>5, SameServerSteady DEF Steady, SignedIn

LEMMA ResumedSteady ==
    ASSUME ConsoleInv, NEW c \in Calls, call[c].tab \in Tabs,
           Resume(call[c].tab, c, Of(c), call), lock' = lock
    PROVE  StoreMoves(Null) /\ TabMoves(Null) /\ CallMoves
<1> USE DEF ConsoleInv
<1>1. Of(c) \in Globals
  BY GlobalsOfTabs DEF Of
<1>2. /\ StoreMoves(Null) /\ TabMoves(Null)
      /\ \E q \in QuietCall : call' = [call EXCEPT ![c] = q]
  BY <1>1, ResumeSteady DEF Of
<1> QED BY <1>2, CallSteady

LEMMA UnredeemedSteady ==
    ASSUME ConsoleInv, NEW c \in Calls, Unredeemed(c) \/ LoseTokens(c)
    PROVE  Steady(Null)
<1> USE DEF ConsoleInv
<1>1. call[c].tab \in Tabs
  BY CallsByPc DEF Unredeemed, LoseTokens, Coded, Tokened
<1>2. StoreMoves(Null) /\ TabMoves(Null) /\ CallMoves
  <2>1. CASE Resume(call[c].tab, c, Of(c), call)
    BY <1>1, <2>1, ResumedSteady DEF Unredeemed, LoseTokens
  <2>2. CASE /\ stored' = Empty /\ lock' = lock
             /\ Set(call[c].tab, [Of(c) EXCEPT !.session = Empty])
             /\ Goto(c, NoCall)
    <3>1. PICK g : g = [Of(c) EXCEPT !.session = Empty]
      OBVIOUS
    <3>2. g \in Globals /\ g.session = Empty /\ g.refresh = tab[call[c].tab].refresh
      BY <1>1, <3>1, GlobalsOfTabs, EmptyIsSession DEF Globals, Of
    <3>3. TabMoves(Null)
      BY <1>1, <2>2, <3>1, <3>2, EmptyIsSession, TabSteady DEF Set
    <3> QED BY <2>2, <3>3, EmptyIsSession, CallSteady, NoCallQuiet DEF StoreMoves, Goto
  <2> QED BY <2>1, <2>2 DEF Unredeemed, LoseTokens
<1> QED BY <1>2, NoneDelivered, SameServerSteady DEF Steady, Unredeemed, LoseTokens

-----------------------------------------------------------------------------
(* The steps of a refresh.                                                 *)

LEMMA AfterQuiet ==
    ASSUME NEW c \in Calls, NEW ok \in BOOLEAN,
           call[c].tab \in Tabs, call[c].tries \in Nat, call[c].renews \in BOOLEAN
    PROVE  After(c, ok) \in QuietCall
<1>1. CASE call[c].renews
  BY <1>1, NoCallQuiet DEF After
<1>2. CASE ~call[c].renews /\ ok
  <2>1. After(c, ok) = [pc |-> "send", tab |-> call[c].tab, tries |-> call[c].tries + 1,
                        renews |-> FALSE]
    BY <1>2 DEF After
  <2> QED BY <2>1 DEF QuietCall, Waiting
<1>3. CASE ~call[c].renews /\ ~ok
  <2>1. After(c, ok) = [pc |-> "end", tab |-> call[c].tab]
    BY <1>3 DEF After
  <2> QED BY <2>1 DEF QuietCall, Bare
<1> QED BY <1>1, <1>2, <1>3

(* A call has taken the lock: nobody else refreshes, and what it found in  *)
(* the record has not been consumed.                                       *)
LEMMA AcquireKeeps ==
    ASSUME ConsoleInv, NEW c \in Calls, Acquire(c)
    PROVE  ConsoleInv'
<1> USE DEF ConsoleInv
<1> DEFINE t == call[c].tab
<1>1. call[c] \in Waiting /\ t \in Tabs
  BY CallsByPc DEF Acquire, Waiting
<1>2. Loaded \in Session /\ Loaded.refresh \in {Null, stored.refresh}
  BY LoadedSession
<1>3. PICK s : s = ReRead(c)
  OBVIOUS
<1>4. /\ s \in Session /\ s.refresh \in TokenOrNull
      /\ s.refresh \in {Null, stored.refresh, tab[t].session.refresh}
      /\ Present(Loaded) => s.refresh \in {Null, stored.refresh}
  BY <1>1, <1>2, <1>3, GlobalsOfTabs DEF ReRead, Of, Session
<1>5. PICK g : g = [Of(c) EXCEPT !.session = s, !.refresh = s.refresh]
  OBVIOUS
<1>6. g \in Globals /\ g.session = s /\ g.refresh = s.refresh
  BY <1>1, <1>4, <1>5, GlobalsOfTabs DEF Globals, Of
<1>7. tab' = [tab EXCEPT ![t] = g] /\ stored' = Loaded
  BY <1>3, <1>5 DEF Acquire, Set
<1>8. StoreMoves(Null)
  BY <1>2, <1>7 DEF StoreMoves
<1>9. CASE s.refresh = Null
  <2>1. TabMoves(Null)
    BY <1>1, <1>6, <1>7, <1>9, TabSteady
  <2>2. call' = [call EXCEPT ![c] = After(c, FALSE)] /\ lock' = lock
    BY <1>3, <1>9 DEF Acquire, Goto
  <2>3. After(c, FALSE) \in QuietCall
    BY <1>1, AfterQuiet DEF Waiting
  <2>4. CallMoves
    BY <2>2, <2>3, CallSteady
  <2>5. Steady(Null)
    BY <1>8, <2>1, <2>4, NoneDelivered, SameServerSteady DEF Steady, Acquire
  <2> QED BY <2>5, SteadyKeeps
<1>10. CASE s.refresh # Null
  <2>1. PICK q : q = [pc |-> "meta", found |-> Present(Loaded), tab |-> t,
                      tries |-> call[c].tries, renews |-> call[c].renews]
    OBVIOUS
  <2>2. call' = [d \in Calls |-> IF d = c THEN q ELSE call[d]] /\ lock' = c
    BY <1>3, <1>10, <2>1 DEF Acquire, Goto, ConsoleTyped
  <2>3. q \in Locked /\ q.pc = "meta" /\ q.tab = t /\ (q.found => Present(Loaded))
    BY <1>1, <2>1 DEF Locked, Waiting, Present
  <2>4. UNCHANGED <<family, clients>>
    BY DEF Acquire
  <2>5. tab' = [u \in Tabs |-> IF u = t THEN g ELSE tab[u]]
    BY <1>7 DEF ConsoleTyped
  <2>6. ConsoleTyped'
    <3>1. call' \in [Calls -> QuietCall \cup Tokened \cup Locked \cup Asking \cup Answered]
      BY <2>2, <2>3 DEF ConsoleTyped
    <3>2. tab' \in [Tabs -> Globals]
      BY <1>6, <2>5 DEF ConsoleTyped
    <3> HIDE DEF Globals
    <3> QED BY <1>2, <1>7, <2>4, <3>1, <3>2 DEF ConsoleTyped
  <2>7. \A d \in Calls : ~Critical(d)
    <3>1. lock = Null
      BY DEF Acquire, Free
    <3> QED BY <3>1, ConsoleAssumption DEF OneRefreshes
  <2>8. OneRefreshes'
    BY <2>2, <2>7 DEF OneRefreshes, Critical
  <2>9. \A u : (Issued(u)' <=> Issued(u)) /\ (Consumed(u)' <=> Consumed(u))
    BY <2>4 DEF Issued, Consumed, Pairs
  <2>10. Issued(s.refresh) /\ Issued(Loaded.refresh) /\ ~Consumed(Loaded.refresh)
    BY <1>1, <1>2, <1>4, NullNotConsumed DEF TokensIssued, Issued
  <2>11. TokensIssued'
    <3>1. \A u \in Tabs : Issued(tab'[u].session.refresh) /\ Issued(tab'[u].refresh)
      BY <1>6, <2>5, <2>10 DEF TokensIssued
    <3>2. \A d \in Calls : call'[d].pc = "ask" => Issued(call'[d].presented)
      BY <2>2, <2>3 DEF TokensIssued, At
    <3> QED BY <1>7, <2>9, <2>10, <3>1, <3>2 DEF TokensIssued, At
  <2>12. PairsNew'
    <3> SUFFICES ASSUME NEW d \in Calls, call'[d].pc \in {"tokens", "answer"}
                 PROVE  Lone(call[d].pair, d)'
      BY DEF PairsNew, Carries
    <3>1. call'[d] = call[d] /\ Carries(d)
      BY <2>2, <2>3 DEF Carries
    <3>2. PICK v : v = call[d].pair
      OBVIOUS
    <3>3. v # Null
      BY <3>1, <3>2, CallsByPc, TokensArePairs DEF Carries, Tokened, Answered, At
    <3>4. Lone(v, d)
      BY <3>1, <3>2 DEF PairsNew
    <3>5. Issued(v)' /\ ~Consumed(v)'
      BY <2>9, <3>4 DEF Lone
    <3>6. v # stored'.refresh
      BY <1>2, <1>7, <3>3, <3>4 DEF Lone
    <3>7. \A u \in Tabs : v # tab'[u].session.refresh /\ v # tab'[u].refresh
      BY <1>1, <1>4, <1>6, <2>5, <3>3, <3>4 DEF Lone
    <3>8. \A e \in Calls : /\ call'[e].pc = "ask" => v # call'[e].presented
                           /\ call'[e].pc \in {"tokens", "answer"} /\ e # d => v # call'[e].pair
      BY <2>2, <2>3, <3>4 DEF Lone, At, Carries
    <3>9. v = call'[d].pair
      BY <3>1, <3>2
    <3> QED BY <3>5, <3>6, <3>7, <3>8, <3>9 DEF Lone, At, Carries, Issued, Consumed, Pairs
  <2>13. TakenOut'
    <3>1. ASSUME NEW d \in Calls, call'[d].pc = "meta", call'[d].found
          PROVE  ~Consumed(tab'[call'[d].tab].refresh)
      <4>1. d = c /\ call'[d] = q
        BY <2>2, <2>7, <3>1 DEF Critical
      <4>2. tab'[call'[d].tab].refresh = s.refresh
        BY <1>1, <1>6, <2>3, <2>5, <4>1
      <4>3. s.refresh \in {Null, stored.refresh}
        BY <1>4, <2>3, <3>1, <4>1
      <4> QED BY <4>2, <4>3, NullNotConsumed DEF TokensIssued
    <3>2. \A d \in Calls : call'[d].pc # "ask"
      BY <2>2, <2>3, <2>7 DEF Critical
    <3> QED BY <2>9, <3>1, <3>2 DEF TakenOut, At, Of
  <2> QED BY <2>6, <2>8, <2>11, <2>12, <2>13
<1> QED BY <1>9, <1>10

(* The token is out of the record before it is presented.                  *)
LEMMA SpendKeeps ==
    ASSUME ConsoleInv, NEW c \in Calls, Spend(c)
    PROVE  ConsoleInv'
<1> USE DEF ConsoleInv
<1> DEFINE t == call[c].tab
<1>1. call[c] \in Locked /\ t \in Tabs /\ lock = c
  BY CallsByPc DEF Spend, Locked, OneRefreshes, Critical, At
<1>2. Of(c) \in Globals /\ Of(c).session \in Session /\ Of(c).refresh \in TokenOrNull
  BY <1>1, GlobalsOfTabs DEF Of, Globals
<1>3. PICK o : o = Spent(Of(c).session)
  OBVIOUS
<1>4. o \in Session /\ o.refresh = Null
  BY <1>2, <1>3, EmptyIsSession DEF Spent, Session
<1>5. PICK s : s = Saved(o)
  OBVIOUS
<1>6. s \in Session /\ s.refresh = Null /\ s.client \in ClientOrNull
  BY <1>4, <1>5, SavedSession DEF Session
<1>7. PICK g : g = [Of(c) EXCEPT !.session = s, !.refresh = Null]
  OBVIOUS
<1>8. g \in Globals /\ g.session = s /\ g.refresh = Null
  BY <1>2, <1>6, <1>7, EmptyIsSession DEF Globals
<1>9. PICK q : q = [pc |-> "ask", presented |-> Of(c).refresh, client |-> s.client,
                    found |-> call[c].found, tab |-> t, tries |-> call[c].tries,
                    renews |-> call[c].renews]
  OBVIOUS
<1>10. /\ q \in Asking /\ q.pc = "ask"
       /\ q.presented = tab[t].refresh /\ q.found = call[c].found
  BY <1>1, <1>2, <1>6, <1>9 DEF Asking, Locked, Of
<1>11. /\ call' = [d \in Calls |-> IF d = c THEN q ELSE call[d]]
       /\ tab' = [u \in Tabs |-> IF u = t THEN g ELSE tab[u]]
       /\ stored' = s /\ UNCHANGED <<lock, family, clients>>
  BY <1>3, <1>5, <1>7, <1>9 DEF Spend, Goto, Set, ConsoleTyped
<1>12. ConsoleTyped'
  <2>1. call' \in [Calls -> QuietCall \cup Tokened \cup Locked \cup Asking \cup Answered]
    BY <1>10, <1>11 DEF ConsoleTyped
  <2>2. tab' \in [Tabs -> Globals]
    BY <1>8, <1>11 DEF ConsoleTyped
  <2> HIDE DEF Globals
  <2> QED BY <1>6, <1>11, <2>1, <2>2 DEF ConsoleTyped
<1>13. \A d \in Calls : Critical(d) => d = c
  BY <1>1 DEF OneRefreshes
<1>14. OneRefreshes'
  BY <1>1, <1>11, <1>13 DEF OneRefreshes, Critical
<1>15. \A u : (Issued(u)' <=> Issued(u)) /\ (Consumed(u)' <=> Consumed(u))
  BY <1>11 DEF Issued, Consumed, Pairs
<1>16. TokensIssued'
  <2>1. \A u \in Tabs : Issued(tab'[u].session.refresh) /\ Issued(tab'[u].refresh)
    BY <1>6, <1>8, <1>11 DEF TokensIssued, Issued
  <2>2. \A d \in Calls : call'[d].pc = "ask" => Issued(call'[d].presented)
    BY <1>1, <1>10, <1>11 DEF TokensIssued, At
  <2>3. Issued(stored'.refresh) /\ ~Consumed(stored'.refresh)
    BY <1>6, <1>11, NullNotConsumed DEF Issued
  <2> QED BY <1>15, <2>1, <2>2, <2>3 DEF TokensIssued, At
<1>17. PairsNew'
  <2> SUFFICES ASSUME NEW d \in Calls, call'[d].pc \in {"tokens", "answer"}
               PROVE  Lone(call[d].pair, d)'
    BY DEF PairsNew, Carries
  <2>1. call'[d] = call[d] /\ Carries(d)
    BY <1>10, <1>11 DEF Carries
  <2>2. PICK v : v = call[d].pair
    OBVIOUS
  <2>3. v # Null
    BY <2>1, <2>2, CallsByPc, TokensArePairs DEF Carries, Tokened, Answered, At
  <2>4. Lone(v, d)
    BY <2>1, <2>2 DEF PairsNew
  <2>5. Issued(v)' /\ ~Consumed(v)'
    BY <1>15, <2>4 DEF Lone
  <2>6. v # stored'.refresh /\ \A u \in Tabs : v # tab'[u].session.refresh /\ v # tab'[u].refresh
    BY <1>6, <1>8, <1>11, <2>3, <2>4 DEF Lone
  <2>7. \A e \in Calls : /\ call'[e].pc = "ask" => v # call'[e].presented
                         /\ call'[e].pc \in {"tokens", "answer"} /\ e # d => v # call'[e].pair
    BY <1>1, <1>10, <1>11, <2>4 DEF Lone, At, Carries
  <2>8. v = call'[d].pair
    BY <2>1, <2>2
  <2> QED BY <2>5, <2>6, <2>7, <2>8 DEF Lone, At, Carries, Issued, Consumed, Pairs
<1>18. TakenOut'
  <2>1. \A d \in Calls : call'[d].pc # "meta"
    BY <1>10, <1>11, <1>13 DEF Critical
  <2>2. ASSUME NEW d \in Calls, call'[d].pc = "ask"
        PROVE  /\ stored'.refresh = Null
               /\ call'[d].found => ~Consumed(call'[d].presented)
    <3>1. d = c /\ call'[d] = q
      BY <1>11, <1>13, <2>2 DEF Critical
    <3>2. call[c].found => ~Consumed(tab[t].refresh)
      BY DEF TakenOut, Of, Spend
    <3> QED BY <1>6, <1>10, <1>11, <3>1, <3>2
  <2> QED BY <1>15, <2>1, <2>2 DEF TakenOut, At, Of
<1> QED BY <1>12, <1>14, <1>16, <1>17, <1>18

(* The server rotates the one token that is presented: nothing else in the *)
(* browser is it, and the next pair is not there yet.                      *)
LEMMA AnswerKeeps ==
    ASSUME ConsoleInv, NEW c \in Calls, Answer(c)
    PROVE  ConsoleInv'
<1> USE DEF ConsoleInv
<1>1. call[c] \in Asking /\ lock = c
  BY CallsByPc DEF Answer, OneRefreshes, Critical, At
<1>2. \A d \in Calls : Critical(d) => d = c
  BY <1>1 DEF OneRefreshes
<1>3. PICK p : p = call[c].presented
  OBVIOUS
<1>4. CASE /\ ~(IssuedTo(p, call[c].client) /\ Newest(p))
           /\ family' = IF IssuedTo(p, call[c].client) /\ Consumed(p) THEN Burned(p[1])
                                                                      ELSE family
           /\ Goto(c, After(c, FALSE)) /\ lock' = Null
           /\ UNCHANGED <<stored, tab, clients>>
  <2>1. FamilyMoves
    <3>1. CASE family' = family
      BY <3>1, SameServerSteady
    <3>2. CASE Consumed(p) /\ family' = Burned(p[1])
      <4>1. p[1] \in DOMAIN family
        <5>1. PICK f \in DOMAIN family, n \in 1..MaxRotations : p = <<f, n>>
          BY <3>2 DEF Consumed, Pairs
        <5> QED BY <5>1
      <4> QED BY <3>2, <4>1, BurnedSteady
    <3> QED BY <1>4, <3>1, <3>2
  <2>2. After(c, FALSE) \in QuietCall
    BY <1>1, AfterQuiet DEF Asking
  <2>3. CallMoves
    BY <1>4, <2>2, CallSteady DEF Goto, Answer, Critical, At
  <2>4. Steady(Null)
    BY <1>4, <2>1, <2>3, NoneDelivered, SameStoreSteady, SameTabSteady, SameServerSteady
       DEF Steady
  <2> QED BY <2>4, SteadyKeeps
<1>5. CASE /\ Newest(p) /\ p[2] < MaxRotations
           /\ family' = [family EXCEPT ![p[1]].n = @ + 1, ![p[1]].access = TRUE]
           /\ Goto(c, [pc |-> "answer", pair |-> <<p[1], p[2] + 1>>, tab |-> call[c].tab,
                       tries |-> call[c].tries, renews |-> call[c].renews])
           /\ UNCHANGED <<lock, stored, tab, clients>>
  <2>1. PICK f \in DOMAIN family, n \in 1..MaxRotations : p = <<f, n>>
    BY <1>5 DEF Newest, Pairs
  <2>2. p[1] = f /\ p[2] = n /\ family[f].n = n /\ n < MaxRotations /\ n + 1 \in 1..MaxRotations
    BY <1>5, <2>1, ConsoleAssumption DEF Newest
  <2>3. f \in Nat \ {0} /\ family[f] \in Family
    BY DEF ConsoleTyped
  <2>4. PICK r : r = [family[f] EXCEPT !.n = @ + 1, !.access = TRUE]
    OBVIOUS
  <2>5. r \in Family /\ r.n = n + 1
    BY <2>2, <2>3, <2>4 DEF Family
  <2>6. family' = [g \in DOMAIN family |-> IF g = f THEN r ELSE family[g]]
    BY <1>5, <2>2, <2>4 DEF ConsoleTyped
  <2>7. PICK x : x = <<f, n + 1>>
    OBVIOUS
  <2>8. x \in Tokens /\ x # Null /\ x[1] = f /\ x[2] = n + 1
    BY <2>2, <2>3, <2>7, TokensArePairs DEF Tokens
  <2>9. PICK q : q = [pc |-> "answer", pair |-> x, tab |-> call[c].tab,
                      tries |-> call[c].tries, renews |-> call[c].renews]
    OBVIOUS
  <2>10. q \in Answered /\ q.pc = "answer" /\ q.pair = x
    BY <1>1, <2>8, <2>9 DEF Answered, Asking
  <2>11. call' = [d \in Calls |-> IF d = c THEN q ELSE call[d]]
    BY <1>5, <2>2, <2>7, <2>9 DEF Goto, ConsoleTyped
  <2>12. ConsoleTyped'
    <3>1. call' \in [Calls -> QuietCall \cup Tokened \cup Locked \cup Asking \cup Answered]
      BY <2>10, <2>11 DEF ConsoleTyped
    <3>2. family' \in [DOMAIN family' -> Family] /\ DOMAIN family' = DOMAIN family
      BY <2>5, <2>6 DEF ConsoleTyped
    <3>3. \E k \in Nat : DOMAIN family' = 1..k
      BY <3>2 DEF ConsoleTyped
    <3> HIDE DEF Family
    <3> QED BY <1>5, <3>1, <3>2, <3>3 DEF ConsoleTyped
  <2>13. OneRefreshes'
    BY <1>1, <1>2, <1>5, <2>10, <2>11 DEF OneRefreshes, Critical
  <2>14. Pairs' = Pairs
    BY <2>6 DEF Pairs
  <2>15. ASSUME NEW u, Issued(u)
         PROVE  Issued(u)' /\ u # x /\ (u # p /\ ~Consumed(u) => ~Consumed(u)')
    <3>1. CASE u = Null
      <4>1. ~Consumed(Null)'
        BY NullNotConsumed, <2>14 DEF Consumed
      <4> QED BY <3>1, <4>1, <2>8 DEF Issued
    <3>2. CASE u # Null
      <4>1. u \in Pairs /\ u[2] <= family[u[1]].n
        BY <3>2, <2>15 DEF Issued
      <4>2. PICK h \in DOMAIN family, m \in 1..MaxRotations : u = <<h, m>>
        BY <4>1 DEF Pairs
      <4>3. u[1] = h /\ u[2] = m /\ m <= family[h].n
        BY <4>1, <4>2
      <4>4. family[h].n \in Nat /\ family'[h].n = IF h = f THEN n + 1 ELSE family[h].n
        BY <2>5, <2>6 DEF Family, ConsoleTyped
      <4>5. Issued(u)'
        BY <2>2, <2>14, <4>1, <4>3, <4>4 DEF Issued
      <4>6. u # x
        BY <2>2, <2>7, <2>8, <4>3
      <4>7. ASSUME u # p, ~Consumed(u) PROVE ~Consumed(u)'
        <5>1. family[h].n <= m
          BY <4>1, <4>3, <4>4, <4>7 DEF Consumed
        <5>2. h = f => m # n
          BY <2>1, <4>2, <4>7
        <5> QED BY <2>2, <4>3, <4>4, <5>1, <5>2 DEF Consumed
      <4> QED BY <4>5, <4>6, <4>7
    <3> QED BY <3>1, <3>2
  <2>16. Issued(x)' /\ ~Consumed(x)'
    <3>1. x \in Pairs
      BY <2>2, <2>7 DEF Pairs
    <3>2. family'[x[1]].n = n + 1
      BY <2>5, <2>6, <2>8
    <3> QED BY <2>2, <2>8, <2>14, <3>1, <3>2 DEF Issued, Consumed
  <2>17. p # Null /\ stored.refresh # p
    <3>1. p # Null
      BY <1>5, NullNotConsumed, <2>1, <2>2, TokensArePairs, <2>3 DEF Tokens
    <3> QED BY <1>3, <3>1 DEF TakenOut, Answer
  <2>18. TokensIssued'
    <3>1. Issued(stored.refresh)' /\ ~Consumed(stored.refresh)'
      <4>1. PICK v : v = stored.refresh
        OBVIOUS
      <4>2. Issued(v)' /\ ~Consumed(v)'
        BY <2>15, <2>17, <4>1 DEF TokensIssued
      <4>3. v = stored'.refresh
        BY <1>5, <4>1
      <4> QED BY <4>2, <4>3 DEF Issued, Consumed, Pairs
    <3>2. ASSUME NEW u \in Tabs
          PROVE  Issued(tab[u].session.refresh)' /\ Issued(tab[u].refresh)'
      <4>1. PICK v, w : v = tab[u].session.refresh /\ w = tab[u].refresh
        OBVIOUS
      <4>2. Issued(v)' /\ Issued(w)'
        BY <2>15, <4>1 DEF TokensIssued
      <4>3. v = tab'[u].session.refresh /\ w = tab'[u].refresh
        BY <1>5, <4>1
      <4> QED BY <4>2, <4>3 DEF Issued, Pairs
    <3>3. \A d \in Calls : call'[d].pc # "ask"
      BY <1>2, <2>10, <2>11 DEF Critical
    <3> QED BY <3>1, <3>2, <3>3 DEF TokensIssued, At
  <2>19. PairsNew'
    <3> SUFFICES ASSUME NEW d \in Calls, call'[d].pc \in {"tokens", "answer"}
                 PROVE  Lone(call[d].pair, d)'
      BY DEF PairsNew, Carries
    <3>1. \A e \in Calls : call'[e].pc # "ask"
      BY <1>2, <2>10, <2>11 DEF Critical
    <3>2. /\ Issued(stored.refresh)
          /\ \A u \in Tabs : Issued(tab[u].session.refresh) /\ Issued(tab[u].refresh)
      BY DEF TokensIssued
    <3>3. CASE d = c
      <4>1. /\ x # stored'.refresh
            /\ \A u \in Tabs : x # tab'[u].session.refresh /\ x # tab'[u].refresh
        BY <1>5, <2>15, <3>2
      <4>2. ASSUME NEW e \in Calls, call'[e].pc \in {"tokens", "answer"}, e # d
            PROVE  x # call'[e].pair
        <5>1. call'[e] = call[e] /\ Carries(e)
          BY <2>11, <3>3, <4>2 DEF Carries
        <5>2. Issued(call[e].pair)
          BY <5>1 DEF PairsNew, Lone
        <5> QED BY <2>15, <5>1, <5>2
      <4>3. x = call'[d].pair
        BY <2>10, <2>11, <3>3
      <4> QED BY <2>16, <3>1, <4>1, <4>2, <4>3 DEF Lone, At, Carries, Issued, Consumed, Pairs
    <3>4. CASE d # c
      <4>1. call'[d] = call[d] /\ Carries(d)
        BY <2>11, <3>4 DEF Carries
      <4>2. PICK v : v = call[d].pair
        OBVIOUS
      <4>3. Lone(v, d)
        BY <4>1, <4>2 DEF PairsNew
      <4>4. v # p
        BY <1>3, <4>3 DEF Lone, Answer
      <4>5. Issued(v)' /\ ~Consumed(v)' /\ v # x
        BY <2>15, <4>3, <4>4 DEF Lone
      <4>6. /\ v # stored'.refresh
            /\ \A u \in Tabs : v # tab'[u].session.refresh /\ v # tab'[u].refresh
        BY <1>5, <4>3 DEF Lone
      <4>7. \A e \in Calls : call'[e].pc \in {"tokens", "answer"} /\ e # d => v # call'[e].pair
        BY <2>10, <2>11, <4>3, <4>5 DEF Lone, Carries
      <4>8. v = call'[d].pair
        BY <4>1, <4>2
      <4> QED BY <3>1, <4>5, <4>6, <4>7, <4>8 DEF Lone, At, Carries, Issued, Consumed, Pairs
    <3> QED BY <3>3, <3>4
  <2>20. TakenOut'
    <3>1. \A d \in Calls : call'[d].pc \notin {"meta", "ask"}
      BY <1>2, <2>10, <2>11 DEF Critical
    <3> QED BY <3>1 DEF TakenOut, At
  <2> QED BY <2>12, <2>13, <2>18, <2>19, <2>20
<1> QED BY <1>3, <1>4, <1>5 DEF Answer

LEMMA StoreSteady ==
    ASSUME ConsoleInv, NEW c \in Calls, Store(c)
    PROVE  \E x \in Tokens : Steady(x)
<1> USE DEF ConsoleInv
<1>1. PICK x : x = call[c].pair
  OBVIOUS
<1>2. call[c] \in Answered /\ x \in Tokens /\ call[c].tab \in Tabs /\ Carries(c) /\ Critical(c)
  BY <1>1, CallsByPc DEF Store, Answered, At, Carries, Critical
<1>3. StoreMoves(x) /\ TabMoves(x)
  BY <1>1, <1>2, KeepSteady DEF Store
<1>4. CallMoves /\ call'[c] \in QuietCall
  <2>1. After(c, TRUE) \in QuietCall
    BY <1>2, AfterQuiet DEF Answered
  <2> QED BY <1>2, <2>1, CallSteady DEF Store, Goto
<1>5. Delivered(x)
  BY <1>1, <1>2, <1>4 DEF Delivered
<1> QED BY <1>2, <1>3, <1>4, <1>5, SameServerSteady DEF Steady, Store

LEMMA ThrowSteady ==
    ASSUME ConsoleInv, NEW c \in Calls, Throw(c)
    PROVE  Steady(Null)
<1> USE DEF ConsoleInv
<1>1. CallMoves
  BY CallSteady, NoCallQuiet DEF Throw, Goto, Critical
<1> QED
  BY <1>1, NoneDelivered, SameStoreSteady, SameTabSteady, SameServerSteady DEF Steady, Throw

-----------------------------------------------------------------------------
(* The steps of a request, of the end of a session, and of a redemption.   *)

(* A call that moves on, and nothing else in the browser.                  *)
LEMMA QuietSteady ==
    ASSUME ConsoleInv, NEW c \in Calls, NEW q \in QuietCall, Goto(c, q),
           UNCHANGED <<stored, lock, tab, clients>>, FamilyMoves
    PROVE  Steady(Null)
<1>1. CallMoves
  BY CallSteady DEF Goto, ConsoleInv
<1> QED
  BY <1>1, NoneDelivered, SameStoreSteady, SameTabSteady, SameServerSteady
     DEF Steady, ConsoleInv

LEMMA CallStepSteady ==
    ASSUME ConsoleInv, NEW t \in Tabs, NEW c \in Calls, Call(t, c)
    PROVE  Steady(Null)
<1>1. [pc |-> "send", tab |-> t, tries |-> 0, renews |-> FALSE] \in QuietCall
  BY DEF QuietCall, Waiting
<1> QED BY <1>1, QuietSteady, SameServerSteady DEF Call, ConsoleInv

LEMMA SendSteady ==
    ASSUME ConsoleInv, NEW c \in Calls, Send(c)
    PROVE  Steady(Null)
<1>1. call[c] \in Waiting
  BY CallsByPc DEF Send, ConsoleInv
<1>2. PICK q : q = IF Accepted(Of(c).token) THEN NoCall
                   ELSE IF call[c].tries < MaxRetries THEN [call[c] EXCEPT !.pc = "wait"]
                   ELSE [pc |-> "end", tab |-> call[c].tab]
  OBVIOUS
<1>3. /\ [call[c] EXCEPT !.pc = "wait"] \in Waiting
      /\ [pc |-> "end", tab |-> call[c].tab] \in Bare
  BY <1>1 DEF Waiting, Bare
<1>4. q \in QuietCall
  BY <1>2, <1>3, NoCallQuiet DEF QuietCall
<1> QED BY <1>2, <1>4, QuietSteady, SameServerSteady DEF Send, ConsoleInv

LEMMA RevokeSteady ==
    ASSUME ConsoleInv, NEW c \in Calls, Revoke(c)
    PROVE  Steady(Null)
<1> USE DEF ConsoleInv
<1>1. call[c] \in Revoking
  BY CallsByPc DEF Revoke
<1>2. [pc |-> "forced", tab |-> call[c].tab] \in QuietCall
  BY <1>1 DEF QuietCall, Bare, Revoking
<1>3. FamilyMoves
  <2>1. ASSUME NEW t, NEW d, IssuedTo(t, d), family' = Burned(t[1])
        PROVE  FamilyMoves
    <3>1. t[1] \in DOMAIN family
      <4>1. PICK f \in DOMAIN family, n \in 1..MaxRotations : t = <<f, n>>
        BY <2>1 DEF IssuedTo, Pairs
      <4> QED BY <4>1
    <3> QED BY <2>1, <3>1, BurnedSteady
  <2> QED BY <2>1, SameServerSteady DEF Revoke
<1> QED BY <1>2, <1>3, QuietSteady DEF Revoke

LEMMA EndSessionSteady ==
    ASSUME ConsoleInv, NEW c \in Calls, EndSession(c)
    PROVE  Steady(Null)
<1> USE DEF ConsoleInv
<1> DEFINE t == call[c].tab
<1>1. t \in Tabs
  BY CallsByPc DEF EndSession, Bare
<1>2. Of(c) \in Globals /\ Of(c).session \in Session /\ Of(c) = tab[t]
  BY <1>1, GlobalsOfTabs DEF Of
<1>3. PICK g : g = [Of(c) EXCEPT !.token = Null, !.refresh = Null]
  OBVIOUS
<1>4. g \in Globals /\ g.session = tab[t].session /\ g.refresh = Null
  BY <1>2, <1>3, EmptyIsSession DEF Globals
<1>5. StoreMoves(Null) /\ TabMoves(Null) /\ CallMoves
  <2>1. CASE Elsewhere(g.session)
    <3>1. PICK h : h = [g EXCEPT !.session = Loaded]
      OBVIOUS
    <3>2. h \in Globals /\ h.session = Loaded /\ h.refresh = Null
      BY <1>4, <3>1, LoadedSession DEF Globals
    <3>3. Resume(t, c, h, call) /\ lock' = lock
      BY <1>3, <2>1, <3>1 DEF EndSession
    <3>4. /\ StoreMoves(Null) /\ TabMoves(Null)
          /\ \E q \in QuietCall : call' = [call EXCEPT ![c] = q]
      BY <1>1, <3>2, <3>3, LoadedSession, ResumeSteady
    <3> QED BY <3>3, <3>4, CallSteady
  <2>2. CASE ~Elsewhere(g.session)
    <3>1. PICK h : h = [g EXCEPT !.session = Empty]
      OBVIOUS
    <3>2. h \in Globals /\ h.session = Empty /\ h.refresh = Null
      BY <1>4, <3>1, EmptyIsSession DEF Globals
    <3>3. /\ stored' = Empty /\ tab' = [tab EXCEPT ![t] = h]
          /\ Goto(c, NoCall) /\ lock' = lock
      BY <1>3, <2>2, <3>1 DEF EndSession, Set
    <3>4. StoreMoves(Null)
      BY <3>3, EmptyIsSession DEF StoreMoves
    <3>5. TabMoves(Null)
      BY <1>1, <3>2, <3>3, EmptyIsSession, TabSteady
    <3> QED BY <3>3, <3>4, <3>5, CallSteady, NoCallQuiet DEF Goto
  <2> QED BY <2>1, <2>2
<1> QED BY <1>5, NoneDelivered, SameServerSteady DEF Steady, EndSession

LEMMA SignOutSteady ==
    ASSUME ConsoleInv, NEW t \in Tabs, NEW c \in Calls, SignOut(t, c)
    PROVE  Steady(Null)
<1> USE DEF ConsoleInv
<1>1. tab[t] \in Globals /\ tab[t].session \in Session
  BY GlobalsOfTabs
<1>2. PICK g : g = [tab[t] EXCEPT !.token = Null, !.refresh = Null]
  OBVIOUS
<1>3. g \in Globals /\ g.session = tab[t].session /\ g.refresh = Null
  BY <1>1, <1>2, EmptyIsSession DEF Globals
<1>4. TabMoves(Null)
  BY <1>2, <1>3, TabSteady DEF SignOut, Set
<1>5. CallMoves
  <2>1. PICK q : q = [pc |-> "revoke", tab |-> t, client |-> tab[t].session.client,
                      refresh |-> tab[t].refresh, access |-> tab[t].token]
    OBVIOUS
  <2>2. q \in QuietCall
    BY <1>1, <2>1 DEF QuietCall, Revoking, Globals, Session
  <2> QED BY <2>1, <2>2, CallSteady DEF SignOut, Goto
<1> QED BY <1>4, <1>5, NoneDelivered, SameStoreSteady, SameServerSteady DEF Steady, SignOut

LEMMA SignedOutSteady ==
    ASSUME ConsoleInv, NEW c \in Calls, SignedOut(c)
    PROVE  Steady(Null)
<1> USE DEF ConsoleInv
<1>1. call[c].tab \in Tabs
  BY CallsByPc DEF SignedOut, Bare
<1>2. PICK h : h = [Of(c) EXCEPT !.session = Empty, !.token = Null, !.refresh = Null]
  OBVIOUS
<1>3. TabMoves(Null)
  <2>1. h \in Globals /\ h.session = Empty /\ h.refresh = Null
    BY <1>1, <1>2, GlobalsOfTabs, EmptyIsSession DEF Globals, Of
  <2> QED BY <1>1, <1>2, <2>1, TabSteady, EmptyIsSession DEF SignedOut, Set
<1>4. CallMoves
  BY CallSteady, NoCallQuiet DEF SignedOut, Goto
<1>5. StoreMoves(Null)
  BY EmptyIsSession DEF SignedOut, StoreMoves
<1> QED BY <1>3, <1>4, <1>5, NoneDelivered, SameServerSteady DEF Steady, SignedOut

(* The first pair of a family that the server has just made.               *)
LEMMA RedeemKeeps ==
    ASSUME ConsoleInv, NEW c \in Calls, Redeem(c)
    PROVE  ConsoleInv'
<1> USE DEF ConsoleInv
<1>1. call[c] \in Coded
  BY CallsByPc DEF Redeem
<1>2. PICK k \in Nat : DOMAIN family = 1..k
  BY DEF ConsoleTyped
<1>3. PICK f : f = Cardinality(DOMAIN family) + 1
  OBVIOUS
<1>4. f = k + 1
  <2>1. CASE k = 0
    <3>1. DOMAIN family = {}
      BY <1>2, <2>1
    <3> QED BY <1>3, <2>1, <3>1, FS_EmptySet
  <2>2. CASE k # 0
    <3>1. 1 \in Int /\ k \in Int
      BY <1>2
    <3>2. Cardinality(1..k) = IF 1 > k THEN 0 ELSE k - 1 + 1
      BY <3>1, FS_Interval
    <3> QED BY <1>2, <1>3, <2>2, <3>2
  <2> QED BY <2>1, <2>2
<1>5. f \in Nat \ {0} /\ f \notin DOMAIN family /\ DOMAIN family \cup {f} = 1..(k + 1)
  BY <1>2, <1>4
<1>6. PICK r : r = [client |-> call[c].client, n |-> 1, dead |-> FALSE, access |-> TRUE]
  OBVIOUS
<1>7. r \in Family /\ r.n = 1
  BY <1>1, <1>6, ConsoleAssumption DEF Family, Coded
<1>8. PICK x : x = <<f, 1>>
  OBVIOUS
<1>9. x \in Tokens /\ x # Null /\ x[1] = f /\ x[2] = 1
  BY <1>5, <1>8, ConsoleAssumption, TokensArePairs DEF Tokens
<1>10. PICK q : q = [pc |-> "tokens", tab |-> call[c].tab, pair |-> x]
  OBVIOUS
<1>11. q \in Tokened /\ q.pc = "tokens" /\ q.pair = x
  BY <1>1, <1>9, <1>10 DEF Tokened, Coded
<1>12. /\ family' = [g \in DOMAIN family \cup {f} |-> IF g = f THEN r ELSE family[g]]
       /\ call' = [d \in Calls |-> IF d = c THEN q ELSE call[d]]
       /\ UNCHANGED <<stored, lock, tab, clients>>
  BY <1>3, <1>6, <1>8, <1>10 DEF Redeem, Goto, ConsoleTyped
<1>13. ConsoleTyped'
  <2>1. call' \in [Calls -> QuietCall \cup Tokened \cup Locked \cup Asking \cup Answered]
    BY <1>11, <1>12 DEF ConsoleTyped
  <2>2. family' \in [DOMAIN family' -> Family] /\ DOMAIN family' = DOMAIN family \cup {f}
    BY <1>7, <1>12 DEF ConsoleTyped
  <2>3. \E j \in Nat : DOMAIN family' = 1..j
    BY <1>2, <1>5, <2>2
  <2> HIDE DEF Family
  <2> QED BY <1>12, <2>1, <2>2, <2>3 DEF ConsoleTyped
<1>14. \A d \in Calls : call'[d].pc \in {"meta", "ask", "answer"} => d # c /\ call'[d] = call[d]
  BY <1>11, <1>12
<1>15. OneRefreshes'
  BY <1>12, <1>14 DEF OneRefreshes, Critical
<1>16. ASSUME NEW u, Issued(u)
       PROVE  Issued(u)' /\ u # x /\ (~Consumed(u) => ~Consumed(u)')
  <2>1. CASE u = Null
    <3>1. Null \notin Pairs'
      <4>1. ASSUME Null \in Pairs' PROVE FALSE
        <5>1. PICK g, m : Null = <<g, m>>
          BY <4>1 DEF Pairs
        <5>2. Len(<<g, m>>) = 2 /\ Len(Null) = 0
          BY DEF Null
        <5> QED BY <5>1, <5>2
      <4> QED BY <4>1
    <3> QED BY <1>9, <2>1, <3>1 DEF Issued, Consumed
  <2>2. CASE u # Null
    <3>1. u \in Pairs /\ u[2] <= family[u[1]].n
      BY <2>2, <1>16 DEF Issued
    <3>2. PICK h \in DOMAIN family, m \in 1..MaxRotations : u = <<h, m>>
      BY <3>1 DEF Pairs
    <3>3. u[1] = h /\ u[2] = m /\ h # f
      BY <1>5, <3>2
    <3>4. family'[h] = family[h] /\ h \in DOMAIN family'
      BY <1>12, <3>3
    <3>5. u \in Pairs'
      BY <3>2, <3>4 DEF Pairs
    <3> QED BY <1>9, <3>1, <3>3, <3>4, <3>5 DEF Issued, Consumed
  <2> QED BY <2>1, <2>2
<1>17. Issued(x)' /\ ~Consumed(x)'
  <2>1. x \in Pairs'
    BY <1>8, <1>12, ConsoleAssumption DEF Pairs
  <2>2. family'[x[1]].n = 1
    BY <1>7, <1>9, <1>12
  <2> QED BY <1>9, <2>1, <2>2 DEF Issued, Consumed
<1>18. TokensIssued'
  <2>1. Issued(stored.refresh)' /\ ~Consumed(stored.refresh)'
    <3>1. PICK v : v = stored.refresh
      OBVIOUS
    <3>2. Issued(v)' /\ ~Consumed(v)'
      BY <1>16, <3>1 DEF TokensIssued
    <3>3. v = stored'.refresh
      BY <1>12, <3>1
    <3> QED BY <3>2, <3>3 DEF Issued, Consumed, Pairs
  <2>2. ASSUME NEW u \in Tabs
        PROVE  Issued(tab[u].session.refresh)' /\ Issued(tab[u].refresh)'
    <3>1. PICK v, w : v = tab[u].session.refresh /\ w = tab[u].refresh
      OBVIOUS
    <3>2. Issued(v)' /\ Issued(w)'
      BY <1>16, <3>1 DEF TokensIssued
    <3>3. v = tab'[u].session.refresh /\ w = tab'[u].refresh
      BY <1>12, <3>1
    <3> QED BY <3>2, <3>3 DEF Issued, Pairs
  <2>3. ASSUME NEW d \in Calls, call'[d].pc = "ask"
        PROVE  Issued(call[d].presented)'
    <3>1. PICK v : v = call[d].presented
      OBVIOUS
    <3>2. call'[d] = call[d]
      BY <1>14, <2>3
    <3>3. Issued(v)'
      BY <1>16, <2>3, <3>1, <3>2 DEF TokensIssued, At
    <3>4. v = call'[d].presented
      BY <3>1, <3>2
    <3> QED BY <3>3, <3>4 DEF Issued, Pairs
  <2> QED BY <2>1, <2>2, <2>3 DEF TokensIssued, At
<1>19. PairsNew'
  <2> SUFFICES ASSUME NEW d \in Calls, call'[d].pc \in {"tokens", "answer"}
               PROVE  Lone(call[d].pair, d)'
    BY DEF PairsNew, Carries
  <2>1. PICK v : v = call'[d].pair
    OBVIOUS
  <2>2. CASE d = c
    <3>1. v = x
      BY <1>11, <1>12, <2>1, <2>2
    <3>2. x # stored'.refresh /\ \A u \in Tabs : x # tab'[u].session.refresh /\ x # tab'[u].refresh
      BY <1>12, <1>16 DEF TokensIssued
    <3>3. \A e \in Calls : call'[e].pc = "ask" => x # call'[e].presented
      BY <1>14, <1>16 DEF TokensIssued, At
    <3>4. ASSUME NEW e \in Calls, call'[e].pc \in {"tokens", "answer"}, e # d
          PROVE  x # call'[e].pair
      <4>1. call'[e] = call[e] /\ Carries(e)
        BY <1>12, <2>2, <3>4 DEF Carries
      <4>2. Issued(call[e].pair)
        BY <4>1 DEF PairsNew, Lone
      <4> QED BY <1>16, <4>1, <4>2
    <3> QED
      BY <1>17, <2>1, <3>1, <3>2, <3>3, <3>4 DEF Lone, At, Carries, Issued, Consumed, Pairs
  <2>3. CASE d # c
    <3>1. call'[d] = call[d] /\ Carries(d) /\ v = call[d].pair
      BY <1>12, <2>1, <2>3 DEF Carries
    <3>2. Lone(v, d)
      BY <3>1 DEF PairsNew
    <3>3. Issued(v)' /\ ~Consumed(v)' /\ v # x
      BY <1>16, <3>2 DEF Lone
    <3>4. v # stored'.refresh /\ \A u \in Tabs : v # tab'[u].session.refresh /\ v # tab'[u].refresh
      BY <1>12, <3>2 DEF Lone
    <3>5. \A e \in Calls : /\ call'[e].pc = "ask" => v # call'[e].presented
                           /\ call'[e].pc \in {"tokens", "answer"} /\ e # d => v # call'[e].pair
      BY <1>11, <1>12, <3>2, <3>3 DEF Lone, Carries, At
    <3> QED BY <2>1, <3>3, <3>4, <3>5 DEF Lone, At, Carries, Issued, Consumed, Pairs
  <2> QED BY <2>2, <2>3
<1>20. TakenOut'
  <2>1. ASSUME NEW d \in Calls, call'[d].pc = "meta", call'[d].found
        PROVE  ~Consumed(Of(d).refresh)'
    <3>1. call'[d] = call[d] /\ call[d].tab \in Tabs
      BY <1>14, <2>1, CallsByPc DEF Locked, At
    <3>2. PICK v : v = tab[call[d].tab].refresh
      OBVIOUS
    <3>3. Issued(v) /\ ~Consumed(v)
      BY <2>1, <3>1, <3>2 DEF TakenOut, TokensIssued, At, Of
    <3>4. ~Consumed(v)'
      BY <1>16, <3>3
    <3>5. v = tab'[call'[d].tab].refresh
      BY <1>12, <3>1, <3>2
    <3> QED BY <3>4, <3>5 DEF Consumed, Pairs, Of
  <2>2. ASSUME NEW d \in Calls, call'[d].pc = "ask"
        PROVE  /\ stored'.refresh = Null \/ stored'.refresh # call'[d].presented
               /\ call'[d].found => ~Consumed(call[d].presented)'
    <3>1. call'[d] = call[d]
      BY <1>14, <2>2
    <3>2. PICK v : v = call[d].presented
      OBVIOUS
    <3>3. Issued(v) /\ (call[d].found => ~Consumed(v))
      BY <2>2, <3>1, <3>2 DEF TakenOut, TokensIssued, At
    <3>4. call[d].found => ~Consumed(v)'
      BY <1>16, <3>3
    <3>5. v = call'[d].presented
      BY <3>1, <3>2
    <3>6. stored'.refresh = Null \/ stored'.refresh # call'[d].presented
      BY <1>12, <2>2, <3>1 DEF TakenOut, At
    <3> QED BY <3>1, <3>4, <3>5, <3>6 DEF Consumed, Pairs
  <2> QED BY <2>1, <2>2 DEF TakenOut, At
<1> QED BY <1>13, <1>15, <1>18, <1>19, <1>20

-----------------------------------------------------------------------------
LEMMA ConsoleInitInv == ConsoleInit => ConsoleInv
<1> SUFFICES ASSUME ConsoleInit PROVE ConsoleInv
  OBVIOUS
<1>1. \A c \in Calls : call[c] = NoCall /\ call[c].pc = "idle"
  BY NoCallQuiet DEF ConsoleInit
<1>2. DOMAIN family = 1..0 /\ DOMAIN clients = {}
  BY DEF ConsoleInit
<1>3. ConsoleTyped
  <2>1. \A t \in Tabs : tab[t] \in Globals
    BY EmptyIsSession DEF ConsoleInit, Globals
  <2>2. tab \in [Tabs -> Globals]
    BY <2>1 DEF ConsoleInit
  <2>3. call \in [Calls -> QuietCall]
    BY NoCallQuiet DEF ConsoleInit
  <2>4. family \in [DOMAIN family -> Family] /\ \E k \in Nat : DOMAIN family = 1..k
    BY <1>2 DEF ConsoleInit
  <2>5. clients \in [DOMAIN clients -> BOOLEAN] /\ DOMAIN clients \subseteq Clients
    BY <1>2 DEF ConsoleInit
  <2>6. stored \in Session
    BY EmptyIsSession DEF ConsoleInit
  <2> QED BY <2>2, <2>3, <2>4, <2>5, <2>6 DEF ConsoleTyped
<1>4. TokensIssued
  <2>1. \A t \in Tabs : tab[t].session.refresh = Null /\ tab[t].refresh = Null
    BY EmptyIsSession DEF ConsoleInit
  <2> QED BY <1>1, <2>1, EmptyIsSession, NullNotConsumed DEF ConsoleInit, TokensIssued, Issued, At
<1> QED BY <1>1, <1>3, <1>4 DEF ConsoleInv, OneRefreshes, Critical, PairsNew, Carries, TakenOut, At

LEMMA ConsoleNextInv == ConsoleInv /\ [ConsoleNext]_consoleVars => ConsoleInv'
<1> SUFFICES ASSUME ConsoleInv, [ConsoleNext]_consoleVars PROVE ConsoleInv'
  OBVIOUS
<1> DEFINE Goal == ConsoleInv'
<1>1. \A x : Steady(x) => Goal
  BY SteadyKeeps
<1>2. \A t \in Tabs, c \in Calls :
         /\ Denied(t) => Goal
         /\ Open(t, c) => Goal
         /\ SignIn(t, c) => Goal
         /\ Approved(t, c) => Goal
         /\ Call(t, c) => Goal
         /\ SignOut(t, c) => Goal
  BY <1>1, DeniedSteady, OpenSteady, SignInSteady, ApprovedSteady, CallStepSteady, SignOutSteady
<1>3. \A c \in Calls :
         /\ Register(c) => Goal
         /\ RegisterAgain(c) => Goal
         /\ Redeem(c) => Goal
         /\ Unredeemed(c) => Goal
         /\ SignedIn(c) => Goal
         /\ LoseTokens(c) => Goal
  BY <1>1, RegisterSteady, RedeemKeeps, UnredeemedSteady, SignedInSteady
<1>4. \A c \in Calls :
         /\ Acquire(c) => Goal
         /\ Spend(c) => Goal
         /\ Answer(c) => Goal
         /\ Store(c) => Goal
         /\ Throw(c) => Goal
  BY <1>1, AcquireKeeps, SpendKeeps, AnswerKeeps, StoreSteady, ThrowSteady
<1>5. \A c \in Calls :
         /\ Send(c) => Goal
         /\ EndSession(c) => Goal
         /\ Revoke(c) => Goal
         /\ SignedOut(c) => Goal
  BY <1>1, SendSteady, EndSessionSteady, RevokeSteady, SignedOutSteady
<1>6. /\ \A f \in DOMAIN family : (Expire(f) => Goal) /\ (Lapse(f) => Goal)
      /\ \A c \in DOMAIN clients : Prune(c) => Goal
      /\ Month => Goal
  BY <1>1, ExpireSteady, PruneSteady, MonthSteady
<1>7. \A t \in Tabs : Denied(t) => Goal
  BY <1>1, DeniedSteady
<1>8. UNCHANGED consoleVars => Goal
  <2>1. UNCHANGED consoleVars =>
          UNCHANGED <<stored, lock, tab, call>> /\ FamilyMoves /\ ClientsMove
    BY SameServerSteady DEF consoleVars, ConsoleInv
  <2> QED BY <1>1, <2>1, ServerSteady
<1> HIDE DEF Goal
<1>9. Goal
  BY <1>2, <1>3, <1>4, <1>5, <1>6, <1>7, <1>8 DEF ConsoleNext
<1> QED BY <1>9 DEF Goal

(* A tab that found a record never presents a refresh token that has been  *)
(* consumed, with any number of tabs, of calls in each, of clients and of  *)
(* rotations, whatever answers are lost and whichever pages are left.      *)
THEOREM PredecessorNeverPresented == ConsoleSpec => []NeverThePredecessor
<1>1. ConsoleInv => NeverThePredecessor
  BY DEF ConsoleInv, TakenOut, NeverThePredecessor
<1> QED BY <1>1, ConsoleInitInv, ConsoleNextInv, PTL DEF ConsoleSpec

(* One tab at a time is between the Web Lock and its release, and every    *)
(* token that is kept anywhere in the browser was issued by the server:    *)
(* what the other theorem rests on, and what a refresh relies on.          *)
THEOREM OneTabRefreshes == ConsoleSpec => [](OneRefreshes /\ TokensIssued /\ PairsNew)
<1>1. ConsoleInv => OneRefreshes /\ TokensIssued /\ PairsNew
  BY DEF ConsoleInv
<1> QED BY <1>1, ConsoleInitInv, ConsoleNextInv, PTL DEF ConsoleSpec

-----------------------------------------------------------------------------
(* 3. The listing and the export of a vault.                               *)

Places == Directories \X Nat \X Nat
Corpus(rows) == DOMAIN rows \subseteq Notes /\ rows \in [DOMAIN rows -> Row]

(* The sequences that one order compares.                                  *)
Width(sort) == IF sort = "path" THEN 4 ELSE 2
IsPosition(s, sort) == s \in Seq(Nat) /\ Len(s) = Width(sort)

Walk == [pc : {"walking", "walked"}, sort : Sorts, under : SUBSET Directories,
         labels : SUBSET Labels, after : Seq(Nat), seen : Seq(Notes),
         touched : SUBSET Notes, began : SUBSET Notes]

TreeTyped(t) == DOMAIN t \subseteq Places /\ t = [p \in DOMAIN t |-> t[p]]

WalksTyped == Corpus(docs) /\ now \in 0..MaxTime /\ TreeTyped(tree)

(* The cursor has gone past a note.                                        *)
Passed(r, d) ==
    /\ reader[r].after # Start
    /\ ~Follows(Position(docs, d, reader[r].sort), reader[r].after, reader[r].sort)

Saw(s, d) == \E i \in DOMAIN s : s[i] = d
SawOnce(s, d) == \A i, j \in DOMAIN s : s[i] = d /\ s[j] = d => i = j

(* Of a note that was not written meanwhile: what was seen of it is behind *)
(* the cursor, and what is to be seen of it is ahead.                      *)
NoteSound(r, d) ==
    /\ SawOnce(reader[r].seen, d)
    /\ Saw(reader[r].seen, d) \/ d \in reader[r].began => d \in DOMAIN docs
    /\ Saw(reader[r].seen, d) /\ reader[r].pc = "walking" => Passed(r, d)
    /\ d \in reader[r].began /\ d \in Listed(r) /\ ~Saw(reader[r].seen, d) =>
          reader[r].pc = "walking" /\ ~Passed(r, d)
WalkSound(r) ==
    /\ reader[r].after # Start => IsPosition(reader[r].after, reader[r].sort)
    /\ \A d \in Notes \ reader[r].touched : NoteSound(r, d)
WalksSound ==
    /\ reader \in [Readers -> {Idle} \cup Walk]
    /\ \A r \in Readers : reader[r] = Idle \/ WalkSound(r)

(* The exported notes of the snapshot that were read, and what is right.   *)
Behind(rows, after) ==
    {d \in Under(rows, ExportedPrefixes) :
        after # Start /\ ~Follows(Position(rows, d, "path"), after, "path")}
Right == Expected(Exported(run.snapshot))
RightFile(p) == p \in DOMAIN tree /\ tree[p] = Right[p]
Kept == Without(tree, Owned(tree)) = run.others

RunReading ==
    /\ run.pc = "reading"
    /\ run = [pc |-> "reading", apply |-> run.apply, prune |-> run.prune,
              snapshot |-> run.snapshot, after |-> run.after, rows |-> run.rows,
              others |-> run.others]
    /\ Corpus(run.snapshot) /\ Kept
    /\ run.after # Start => IsPosition(run.after, "path")
    /\ run.rows = [d \in Behind(run.snapshot, run.after) |-> run.snapshot[d]]
RunLater(pc) ==
    /\ run.pc = pc
    /\ run = [pc |-> pc, apply |-> run.apply, prune |-> run.prune,
              snapshot |-> run.snapshot, others |-> run.others, todo |-> run.todo,
              expected |-> run.expected]
    /\ Corpus(run.snapshot) /\ Kept
    /\ run.expected = DOMAIN Right
RunWriting ==
    /\ RunLater("writing")
    /\ DOMAIN run.todo \subseteq DOMAIN Right
    /\ run.todo = [p \in DOMAIN run.todo |-> Right[p]]
    /\ run.apply => \A p \in DOMAIN Right \ DOMAIN run.todo : RightFile(p)
RunPruning(pc) ==
    /\ RunLater(pc)
    /\ run.apply => \A p \in DOMAIN Right : RightFile(p)
    /\ run.todo = IF run.prune /\ run.apply THEN Orphans(run.expected) ELSE {}
    /\ pc = "reported" => run.todo = {}
RunSound ==
    \/ run = Idle
    \/ RunReading
    \/ RunWriting
    \/ RunPruning("pruning")
    \/ RunPruning("reported")

WalksInv == WalksTyped /\ WalksSound /\ RunSound

-----------------------------------------------------------------------------
(* The order of the positions.                                             *)

LEMMA LeastNumber ==
    ASSUME NEW T, T \subseteq Nat, T # {}
    PROVE  \E i \in T : \A j \in T : i <= j
<1>1. PICK i \in T : \A j \in T : ~(<<j, i>> \in OpToRel(<, Nat))
  BY NatLessThanWellFounded, WFMin
<1>2. ASSUME NEW j \in T PROVE i <= j
  <2>1. i \in Nat /\ j \in Nat
    OBVIOUS
  <2>2. CASE j < i
    <3>1. <<j, i>> \in OpToRel(<, Nat)
      BY <2>1, <2>2 DEF OpToRel
    <3> QED BY <1>1, <3>1
  <2> QED BY <2>1, <2>2
<1> QED BY <1>2

LEMMA BeforeIsOrder ==
    ASSUME NEW n \in Nat, NEW s \in Seq(Nat), NEW t \in Seq(Nat), NEW u \in Seq(Nat),
           Len(s) = n, Len(t) = n, Len(u) = n
    PROVE  /\ ~Before(s, s)
           /\ Before(s, t) /\ Before(t, u) => Before(s, u)
           /\ (\E i \in 1..n : s[i] # t[i]) => Before(s, t) \/ Before(t, s)
<1>1. /\ DOMAIN s = 1..n /\ DOMAIN t = 1..n /\ DOMAIN u = 1..n
      /\ \A i \in 1..n : s[i] \in Nat /\ t[i] \in Nat /\ u[i] \in Nat
  OBVIOUS
<1>2. ~Before(s, s)
  BY <1>1 DEF Before
<1>3. ASSUME Before(s, t), Before(t, u) PROVE Before(s, u)
  <2>1. PICK i \in 1..n : s[i] < t[i] /\ \A k \in 1..(i - 1) : s[k] = t[k]
    BY <1>1, <1>3 DEF Before
  <2>2. PICK j \in 1..n : t[j] < u[j] /\ \A k \in 1..(j - 1) : t[k] = u[k]
    BY <1>1, <1>3 DEF Before
  <2>3. CASE i < j
    <3>1. t[i] = u[i] /\ \A k \in 1..(i - 1) : s[k] = u[k]
      BY <2>1, <2>2, <2>3
    <3>2. s[i] < u[i]
      BY <2>1, <3>1
    <3> QED BY <1>1, <3>1, <3>2 DEF Before
  <2>4. CASE j < i
    <3>1. s[j] = t[j] /\ \A k \in 1..(j - 1) : s[k] = u[k]
      BY <2>1, <2>2, <2>4
    <3>2. s[j] < u[j]
      BY <2>2, <3>1
    <3> QED BY <1>1, <3>1, <3>2 DEF Before
  <2>5. CASE i = j
    <3>1. s[i] < u[i]
      BY <1>1, <2>1, <2>2, <2>5
    <3>2. \A k \in 1..(i - 1) : s[k] = u[k]
      BY <2>1, <2>2, <2>5
    <3> QED BY <1>1, <3>1, <3>2 DEF Before
  <2> QED BY <2>3, <2>4, <2>5
<1>4. ASSUME NEW k \in 1..n, s[k] # t[k] PROVE Before(s, t) \/ Before(t, s)
  <2> DEFINE T == {i \in 1..n : s[i] # t[i]}
  <2>1. PICK i \in T : \A j \in T : i <= j
    <3>1. T \subseteq Nat /\ k \in T
      BY <1>4
    <3> HIDE DEF T
    <3> QED BY <3>1, LeastNumber
  <2>2. i \in 1..n /\ s[i] # t[i]
    BY <2>1
  <2>3. \A j \in 1..(i - 1) : s[j] = t[j]
    <3> SUFFICES ASSUME NEW j \in 1..(i - 1), s[j] # t[j] PROVE FALSE
      OBVIOUS
    <3>1. j \in T
      BY <2>2
    <3> HIDE DEF T
    <3> QED BY <2>1, <2>2, <3>1
  <2>4. s[i] < t[i] \/ t[i] < s[i]
    BY <1>1, <2>2
  <2> HIDE DEF T
  <2> QED BY <1>1, <2>2, <2>3, <2>4 DEF Before
<1> QED BY <1>2, <1>3, <1>4

LEMMA FollowsIsOrder ==
    ASSUME NEW sort, NEW s, NEW t, NEW u,
           IsPosition(s, sort), IsPosition(t, sort), IsPosition(u, sort)
    PROVE  /\ ~Follows(s, s, sort)
           /\ Follows(s, t, sort) /\ Follows(t, u, sort) => Follows(s, u, sort)
           /\ Follows(s, t, sort) => ~Follows(t, s, sort)
           /\ (\E i \in 1..Width(sort) : s[i] # t[i]) => Follows(s, t, sort) \/ Follows(t, s, sort)
<1>1. Width(sort) \in Nat
  BY DEF Width
<1> DEFINE n == Width(sort)
<1>2. /\ s \in Seq(Nat) /\ t \in Seq(Nat) /\ u \in Seq(Nat)
      /\ Len(s) = n /\ Len(t) = n /\ Len(u) = n
  BY DEF IsPosition
<1> HIDE DEF n
<1>3. n \in Nat
  BY <1>1 DEF n
<1>4. /\ ~Before(s, s)
      /\ Before(s, t) /\ Before(t, u) => Before(s, u)
      /\ Before(u, t) /\ Before(t, s) => Before(u, s)
      /\ Before(s, t) /\ Before(t, s) => Before(s, s)
      /\ (\E i \in 1..n : s[i] # t[i]) => Before(s, t) \/ Before(t, s)
  BY <1>2, <1>3, BeforeIsOrder
<1> QED BY <1>4 DEF Follows, n

LEMMA PositionIs ==
    ASSUME NEW rows, Corpus(rows), NEW d \in DOMAIN rows, NEW sort \in Sorts
    PROVE  /\ IsPosition(Position(rows, d, sort), sort)
           /\ Position(rows, d, sort)[Width(sort)] = d
           /\ Position(rows, d, sort) # Start
<1>1. rows[d] \in Row /\ d \in Nat
  BY WalksAssumption DEF Corpus
<1>2. PICK key : key = Key(rows[d], sort)
  OBVIOUS
<1>3. key \in Seq(Nat) /\ Len(key) = Width(sort) - 1
  <2>1. CASE sort = "path"
    <3>1. rows[d].path \in Directories \X (Nat \ {0}) \X (Nat \ {0})
      BY <1>1 DEF Row
    <3>2. PICK a \in Directories, b \in Nat \ {0}, c \in Nat \ {0} : rows[d].path = <<a, b, c>>
      BY <3>1
    <3>3. a \in Nat
      BY DEF Directories, Candidates, Private
    <3>4. key = <<a, b, c>>
      BY <1>2, <2>1, <3>2 DEF Key
    <3> QED BY <2>1, <3>3, <3>4 DEF Width
  <2>2. CASE sort # "path"
    <3>1. /\ rows[d].title \in Nat /\ rows[d].updated \in Nat /\ rows[d].created \in Nat
      BY <1>1, WalksAssumption DEF Row
    <3>2. PICK x \in Nat : key = <<x>>
      BY <1>2, <2>2, <3>1 DEF Key, Sorts
    <3> QED BY <2>2, <3>2 DEF Width
  <2> QED BY <2>1, <2>2
<1>4. PICK s : s = Append(key, d)
  OBVIOUS
<1>5. s \in Seq(Nat) /\ Len(s) = Width(sort) /\ s[Width(sort)] = d
  <2>1. Width(sort) \in Nat
    BY DEF Width
  <2>2. Len(key) + 1 = Width(sort)
    BY <1>3, <2>1
  <2>3. s \in Seq(Nat) /\ Len(s) = Len(key) + 1 /\ s[Len(key) + 1] = d
    BY <1>1, <1>3, <1>4
  <2> QED BY <2>2, <2>3
<1>6. s = Position(rows, d, sort)
  BY <1>2, <1>4 DEF Position
<1>7. Len(s) # 0
  BY <1>5 DEF Width
<1>8. s # Start
  <2>1. Len(<< >>) = 0
    OBVIOUS
  <2> QED BY <1>7, <2>1 DEF Start
<1> QED BY <1>5, <1>6, <1>8 DEF IsPosition

(* The positions of one order are as different as their notes.             *)
LEMMA PositionsInOrder ==
    ASSUME NEW rows, Corpus(rows), NEW sort \in Sorts, NEW d \in DOMAIN rows, NEW e \in DOMAIN rows
    PROVE  /\ ~Follows(Position(rows, d, sort), Position(rows, d, sort), sort)
           /\ d # e => \/ Follows(Position(rows, d, sort), Position(rows, e, sort), sort)
                       \/ Follows(Position(rows, e, sort), Position(rows, d, sort), sort)
<1>1. PICK s, t : s = Position(rows, d, sort) /\ t = Position(rows, e, sort)
  OBVIOUS
<1>2. /\ IsPosition(s, sort) /\ s[Width(sort)] = d
      /\ IsPosition(t, sort) /\ t[Width(sort)] = e
  BY <1>1, PositionIs
<1>3. Width(sort) \in 1..Width(sort)
  BY DEF Width
<1>4. d # e => Follows(s, t, sort) \/ Follows(t, s, sort)
  BY <1>2, <1>3, FollowsIsOrder
<1>5. ~Follows(s, s, sort)
  BY <1>2, FollowsIsOrder
<1> QED BY <1>1, <1>4, <1>5

-----------------------------------------------------------------------------
(* A page: the notes by their places, and no more than the limit.          *)

LEMMA LesserOfTwo ==
    ASSUME NEW i \in Int, NEW j \in Int
    PROVE  Min({i, j}) = IF i <= j THEN i ELSE j
BY DEF Min

Later(rows, sort, d, e) == Follows(Position(rows, d, sort), Position(rows, e, sort), sort)
Upto(rows, sort, rest, d) == {e \in rest : e = d \/ Later(rows, sort, d, e)}

LEMMA LaterIsOrder ==
    ASSUME NEW rows, Corpus(rows), NEW sort \in Sorts,
           NEW d \in DOMAIN rows, NEW e \in DOMAIN rows, NEW g \in DOMAIN rows
    PROVE  /\ ~Later(rows, sort, d, d)
           /\ Later(rows, sort, d, e) /\ Later(rows, sort, e, g) => Later(rows, sort, d, g)
           /\ d # e => Later(rows, sort, d, e) \/ Later(rows, sort, e, d)
<1>1. PICK s, t, u : /\ s = Position(rows, d, sort) /\ t = Position(rows, e, sort)
                     /\ u = Position(rows, g, sort)
  OBVIOUS
<1>2. IsPosition(s, sort) /\ IsPosition(t, sort) /\ IsPosition(u, sort)
  BY <1>1, PositionIs
<1>3. Follows(s, t, sort) /\ Follows(t, u, sort) => Follows(s, u, sort)
  BY <1>2, FollowsIsOrder
<1> QED BY <1>1, <1>3, PositionsInOrder DEF Later

LEMMA PlacesOfNotes ==
    ASSUME NEW rows, Corpus(rows), NEW sort \in Sorts, NEW rest \in SUBSET DOMAIN rows
    PROVE  /\ IsFiniteSet(rest) /\ Cardinality(rest) \in Nat
           /\ \A d \in rest : Cardinality(Upto(rows, sort, rest, d)) \in 1..Cardinality(rest)
           /\ \A d, e \in rest : Later(rows, sort, d, e) =>
                 Cardinality(Upto(rows, sort, rest, e)) < Cardinality(Upto(rows, sort, rest, d))
           /\ \A k \in 1..Cardinality(rest) :
                 \E d \in rest : Cardinality(Upto(rows, sort, rest, d)) = k
<1> DEFINE U(d) == Upto(rows, sort, rest, d)
           rank == [d \in rest |-> Cardinality(U(d))]
<1>1. IsFiniteSet(rest)
  <2>1. IsFiniteSet(Notes) /\ rest \subseteq Notes
    BY WalksAssumption DEF Corpus
  <2> QED BY <2>1, FS_Subset
<1>2. Cardinality(rest) \in Nat
  BY <1>1, FS_CardinalityType
<1>3. ASSUME NEW d \in rest
      PROVE  IsFiniteSet(U(d)) /\ Cardinality(U(d)) \in 1..Cardinality(rest)
  <2>1. U(d) \in SUBSET rest /\ d \in U(d)
    BY DEF Upto
  <2>2. IsFiniteSet(U(d)) /\ Cardinality(U(d)) <= Cardinality(rest)
    BY <1>1, <2>1, FS_Subset
  <2>3. Cardinality(U(d)) \in Nat
    BY <2>2, FS_CardinalityType
  <2>4. Cardinality(U(d)) # 0
    BY <2>1, <2>2, FS_EmptySet
  <2> QED BY <1>2, <2>2, <2>3, <2>4
<1>4. ASSUME NEW d \in rest, NEW e \in rest, Later(rows, sort, d, e)
      PROVE  Cardinality(U(e)) < Cardinality(U(d))
  <2>1. d \in DOMAIN rows /\ e \in DOMAIN rows
    OBVIOUS
  <2>2. U(e) \in SUBSET U(d)
    <3>1. ASSUME NEW g \in U(e) PROVE g \in U(d)
      <4>1. g \in rest /\ (g = e \/ Later(rows, sort, e, g))
        BY DEF Upto
      <4>2. Later(rows, sort, d, g)
        BY <1>4, <4>1, LaterIsOrder
      <4> QED BY <4>1, <4>2 DEF Upto
    <3> QED BY <3>1
  <2>3. d \in U(d) /\ d \notin U(e)
    <3>1. d # e
      BY <1>4, <2>1, LaterIsOrder
    <3>2. ~Later(rows, sort, e, d)
      BY <1>4, <2>1, LaterIsOrder
    <3> QED BY <3>1, <3>2 DEF Upto
  <2>4. Cardinality(U(e)) <= Cardinality(U(d))
    BY <1>3, <2>2, FS_Subset
  <2>5. Cardinality(U(e)) # Cardinality(U(d))
    BY <1>3, <2>2, <2>3, FS_Subset
  <2>6. Cardinality(U(e)) \in Nat /\ Cardinality(U(d)) \in Nat
    BY <1>3, FS_CardinalityType
  <2> QED BY <2>4, <2>5, <2>6
<1>5. ASSUME NEW d \in rest, NEW e \in rest, Cardinality(U(d)) = Cardinality(U(e))
      PROVE  d = e
  <2>1. Cardinality(U(e)) \in Nat /\ Cardinality(U(d)) \in Nat
    BY <1>3, FS_CardinalityType
  <2>2. d \in DOMAIN rows /\ e \in DOMAIN rows
    OBVIOUS
  <2>3. ~Later(rows, sort, d, e) /\ ~Later(rows, sort, e, d)
    <3> HIDE DEF U
    <3> QED BY <1>4, <1>5, <2>1
  <2> QED BY <2>2, <2>3, LaterIsOrder
<1>6. rank \in Injection(rest, 1..Cardinality(rest))
  <2>1. rank \in [rest -> 1..Cardinality(rest)]
    BY <1>3
  <2>2. \A d \in rest : rank[d] = Cardinality(U(d))
    OBVIOUS
  <2> HIDE DEF rank, U
  <2>3. ASSUME NEW d \in DOMAIN rank, NEW e \in DOMAIN rank, rank[d] = rank[e] PROVE d = e
    BY <1>5, <2>1, <2>2, <2>3
  <2> QED BY <2>1, <2>3 DEF Injection, IsInjective
<1>7. rank \in Surjection(rest, 1..Cardinality(rest))
  <2>1. IsFiniteSet(1..Cardinality(rest)) /\ Cardinality(1..Cardinality(rest)) = Cardinality(rest)
    BY <1>2, FS_Interval
  <2> HIDE DEF rank
  <2> QED BY <1>1, <1>6, <2>1, FS_Injection
<1>8. \A k \in 1..Cardinality(rest) : \E d \in rest : Cardinality(U(d)) = k
  <2>1. \A k \in 1..Cardinality(rest) : \E d \in rest : rank[d] = k
    <3> HIDE DEF rank
    <3> QED BY <1>7 DEF Surjection
  <2> QED BY <2>1
<1> QED BY <1>1, <1>2, <1>3, <1>4, <1>8

Rest(rows, S, sort, after) ==
    {d \in S : after = Start \/ Follows(Position(rows, d, sort), after, sort)}
Sorted(s, rows, sort, rest) ==
    \A i \in DOMAIN s :
       /\ \A j \in 1..(i - 1) : s[j] # s[i] /\ ~Later(rows, sort, s[j], s[i])
       /\ \A d \in rest \ ToSet(s) : ~Later(rows, sort, s[i], d)

LEMMA SomePage ==
    ASSUME NEW rows, Corpus(rows), NEW sort \in Sorts, NEW rest \in SUBSET DOMAIN rows,
           NEW m \in Nat, m <= Cardinality(rest)
    PROVE  \E s \in [1..m -> rest] : Sorted(s, rows, sort, rest)
<1> DEFINE P(d) == Cardinality(Upto(rows, sort, rest, d))
           s == [i \in 1..m |-> CHOOSE d \in rest : P(d) = i]
<1>1. Cardinality(rest) \in Nat
  BY PlacesOfNotes
<1>2. /\ \A d \in rest : P(d) \in 1..Cardinality(rest)
      /\ \A d, e \in rest : Later(rows, sort, d, e) => P(e) < P(d)
  BY PlacesOfNotes
<1>3. ASSUME NEW k \in 1..m PROVE s[k] \in rest /\ P(s[k]) = k
  <2>1. k \in 1..Cardinality(rest)
    BY <1>1
  <2>2. \E d \in rest : P(d) = k
    BY <2>1, PlacesOfNotes
  <2>3. s[k] = CHOOSE d \in rest : P(d) = k
    OBVIOUS
  <2> HIDE DEF P
  <2> QED BY <2>2, <2>3
<1>4. s \in [1..m -> rest]
  <2>1. \A k \in 1..m : (CHOOSE d \in rest : P(d) = k) \in rest
    BY <1>3
  <2> QED BY <2>1
<1>5. \A d, e \in rest : P(d) = P(e) => d = e
  <2> HIDE DEF P
  <2>1. \A d, e \in rest : d # e => Later(rows, sort, d, e) \/ Later(rows, sort, e, d)
    BY LaterIsOrder
  <2> QED BY <1>2, <2>1
<1>6. DOMAIN s = 1..m
  OBVIOUS
<1> HIDE DEF s, P
<1>7. ASSUME NEW i \in 1..m, NEW j \in 1..(i - 1)
      PROVE  s[j] # s[i] /\ ~Later(rows, sort, s[j], s[i])
  <2>1. j \in 1..m /\ i \in Int /\ j \in Int /\ j < i
    OBVIOUS
  <2>2. s[i] \in rest /\ s[j] \in rest /\ P(s[i]) = i /\ P(s[j]) = j
    BY <1>3, <2>1
  <2> QED BY <1>2, <2>1, <2>2
<1>8. ASSUME NEW i \in 1..m, NEW d \in rest \ ToSet(s)
      PROVE  ~Later(rows, sort, s[i], d)
  <2>1. P(d) \in 1..Cardinality(rest)
    BY <1>2
  <2>2. P(d) > m
    <3>1. CASE P(d) \in 1..m
      <4>1. s[P(d)] \in rest /\ P(s[P(d)]) = P(d)
        BY <1>3, <3>1
      <4>2. s[P(d)] = d
        BY <1>5, <4>1
      <4>3. d \in ToSet(s)
        BY <1>6, <3>1, <4>2 DEF ToSet
      <4> QED BY <4>3
    <3> QED BY <1>1, <2>1, <3>1
  <2>3. s[i] \in rest /\ P(s[i]) = i
    BY <1>3
  <2> QED BY <1>1, <1>2, <2>1, <2>2, <2>3
<1> QED BY <1>4, <1>6, <1>7, <1>8 DEF Sorted

(* What a page has: the notes in order, each once, and the first of them.  *)
IsPage(found, rows, sort, rest, limit) ==
    /\ found \in Seq(rest) /\ Len(found) <= limit
    /\ \A i \in 1..Len(found) : found[i] \in rest
    /\ \A i \in 1..Len(found) : \A j \in 1..(i - 1) :
          found[j] # found[i] /\ Later(rows, sort, found[i], found[j])
    /\ \A d \in rest : ~Saw(found, d) =>
          /\ Len(found) = limit
          /\ \A i \in 1..Len(found) : Later(rows, sort, d, found[i])
    /\ rest # {} => Len(found) > 0

LEMMA PageIs ==
    ASSUME NEW rows, Corpus(rows), NEW S \in SUBSET DOMAIN rows, NEW sort \in Sorts, NEW after,
           NEW limit \in Nat \ {0}, NEW rest, rest = Rest(rows, S, sort, after),
           NEW found, found = Page(rows, S, sort, after, limit)
    PROVE  IsPage(found, rows, sort, rest, limit)
<1>1. rest \in SUBSET DOMAIN rows
  BY DEF Rest
<1>2. IsFiniteSet(rest) /\ Cardinality(rest) \in Nat
  BY <1>1, PlacesOfNotes
<1>3. PICK m : m = Min({limit, Cardinality(rest)})
  OBVIOUS
<1>4. m \in Nat /\ m <= limit /\ m <= Cardinality(rest) /\ (m = limit \/ m = Cardinality(rest))
  BY <1>2, <1>3, LesserOfTwo
<1>5. found = CHOOSE s \in [1..m -> rest] : Sorted(s, rows, sort, rest)
  BY <1>3 DEF Page, Rest, Sorted, Later
<1>6. found \in [1..m -> rest] /\ Sorted(found, rows, sort, rest)
  BY <1>1, <1>4, <1>5, SomePage
<1>7. found \in Seq(rest) /\ Len(found) = m /\ DOMAIN found = 1..m
  BY <1>4, <1>6
<1>8. \A i \in 1..m : found[i] \in rest /\ found[i] \in DOMAIN rows
  BY <1>1, <1>6
<1>9. \A i \in 1..m : \A j \in 1..(i - 1) :
         found[j] # found[i] /\ ~Later(rows, sort, found[j], found[i])
  BY <1>6 DEF Sorted
<1>10. \A i \in 1..m : \A j \in 1..(i - 1) : Later(rows, sort, found[i], found[j])
  <2> SUFFICES ASSUME NEW i \in 1..m, NEW j \in 1..(i - 1)
               PROVE  Later(rows, sort, found[i], found[j])
    OBVIOUS
  <2>1. j \in 1..m
    BY <1>4
  <2> QED BY <1>8, <1>9, <2>1, LaterIsOrder
<1>11. ASSUME NEW d \in rest, ~Saw(found, d)
       PROVE  m = limit /\ \A i \in 1..m : Later(rows, sort, d, found[i])
  <2>1. d \notin ToSet(found)
    BY <1>7, <1>11 DEF Saw, ToSet
  <2>2. \A i \in 1..m : Later(rows, sort, d, found[i])
    <3> SUFFICES ASSUME NEW i \in 1..m PROVE Later(rows, sort, d, found[i])
      OBVIOUS
    <3>1. ~Later(rows, sort, found[i], d)
      BY <1>6, <1>7, <2>1 DEF Sorted
    <3>2. d # found[i]
      BY <1>7, <1>11 DEF Saw
    <3> QED BY <1>1, <1>8, <3>1, <3>2, LaterIsOrder
  <2>3. m # Cardinality(rest)
    <3> SUFFICES ASSUME m = Cardinality(rest) PROVE FALSE
      OBVIOUS
    <3>1. found \in Injection(1..m, rest)
      <4>1. ASSUME NEW i \in DOMAIN found, NEW j \in DOMAIN found, found[i] = found[j]
            PROVE  i = j
        <5>1. i \in 1..m /\ j \in 1..m
          BY <1>7
        <5>2. ~(j \in 1..(i - 1)) /\ ~(i \in 1..(j - 1))
          BY <1>9, <4>1, <5>1
        <5> QED BY <1>4, <5>1, <5>2
      <4> QED BY <1>6, <4>1 DEF Injection, IsInjective
    <3>2. IsFiniteSet(1..m) /\ Cardinality(1..m) = m
      BY <1>4, FS_Interval
    <3>3. found \in Surjection(1..m, rest)
      BY <1>2, <3>1, <3>2, FS_Injection
    <3> QED BY <1>7, <1>11, <3>3 DEF Surjection, Saw
  <2> QED BY <1>4, <2>2, <2>3
<1>12. rest # {} => m > 0
  <2>1. Cardinality(rest) = 0 => rest = {}
    BY <1>2, FS_EmptySet
  <2> QED BY <1>2, <1>4, <2>1
<1> QED BY <1>4, <1>7, <1>8, <1>9, <1>10, <1>11, <1>12 DEF IsPage

-----------------------------------------------------------------------------
(* The writers, as a walk sees them: one note is written, and it is no     *)
(* longer counted on, or it was not there.                                 *)

LEMMA RunStays == RunSound /\ UNCHANGED <<run, tree>> => RunSound'
<1> SUFFICES ASSUME RunSound, UNCHANGED <<run, tree>> PROVE RunSound'
  OBVIOUS
<1>1. Kept' = Kept /\ Right' = Right /\ \A p : RightFile(p)' = RightFile(p)
  BY DEF Kept, Right, RightFile, Owned
<1>2. RunReading' = RunReading
  BY <1>1 DEF RunReading
<1>3. \A pc : RunLater(pc)' = RunLater(pc)
  BY <1>1 DEF RunLater
<1>4. RunWriting' = RunWriting
  BY <1>1, <1>3 DEF RunWriting
<1>5. \A pc : RunPruning(pc)' = RunPruning(pc)
  BY <1>1, <1>3 DEF RunPruning, Orphans, Owned
<1> QED BY <1>2, <1>4, <1>5 DEF RunSound

LEMMA WalksOfIdle ==
    /\ Idle.pc = "idle" /\ Idle \notin Walk
    /\ \A w \in Walk : w # Idle /\ w.pc \in {"walking", "walked"}
BY DEF Idle, Walk

WrittenNote(d) ==
    /\ Corpus(docs')
    /\ \A e \in Notes \ {d} : /\ e \in DOMAIN docs' <=> e \in DOMAIN docs
                              /\ e \in DOMAIN docs => docs'[e] = docs[e]

LEMMA WrittenKeeps ==
    ASSUME WalksInv, NEW d \in Notes, WrittenNote(d), Touch(d), UNCHANGED <<now, run, tree>>
    PROVE  WalksInv'
<1> USE DEF WalksInv
<1>1. WalksTyped'
  BY DEF WalksTyped, WrittenNote
<1>2. RunSound'
  BY RunStays
<1>3. \A r \in Readers :
        reader'[r] = IF reader[r] = Idle \/ d \notin DOMAIN docs THEN reader[r]
                     ELSE [reader[r] EXCEPT !.touched = @ \cup {d}]
  BY DEF Touch
<1>4. \A r \in Readers : reader[r] \in {Idle} \cup Walk
  BY DEF WalksSound
<1>5. ASSUME NEW r \in Readers, reader[r] # Idle
      PROVE  /\ reader[r] \in Walk /\ reader'[r] \in Walk
             /\ reader'[r].pc = reader[r].pc /\ reader'[r].sort = reader[r].sort
             /\ reader'[r].under = reader[r].under /\ reader'[r].labels = reader[r].labels
             /\ reader'[r].after = reader[r].after /\ reader'[r].seen = reader[r].seen
             /\ reader'[r].began = reader[r].began
             /\ reader[r].touched \subseteq reader'[r].touched
             /\ d \in DOMAIN docs => d \in reader'[r].touched
  <2>1. reader[r] \in Walk
    BY <1>4, <1>5
  <2>2. CASE d \notin DOMAIN docs
    BY <1>3, <2>1, <2>2
  <2>3. CASE d \in DOMAIN docs
    <3>1. PICK w : w = [reader[r] EXCEPT !.touched = @ \cup {d}]
      OBVIOUS
    <3>2. /\ w \in Walk /\ w.pc = reader[r].pc /\ w.sort = reader[r].sort
          /\ w.under = reader[r].under /\ w.labels = reader[r].labels
          /\ w.after = reader[r].after /\ w.seen = reader[r].seen
          /\ w.began = reader[r].began /\ w.touched = reader[r].touched \cup {d}
      BY <2>1, <3>1 DEF Walk
    <3>3. reader'[r] = w
      BY <1>3, <1>5, <2>3, <3>1
    <3> QED BY <2>1, <3>2, <3>3
  <2> QED BY <2>2, <2>3
<1>6. reader' \in [Readers -> {Idle} \cup Walk]
  <2>1. \A r \in Readers : reader'[r] \in {Idle} \cup Walk
    BY <1>3, <1>5
  <2> QED BY <2>1 DEF Touch
<1>7. ASSUME NEW r \in Readers, reader[r] # Idle, NEW e \in Notes \ reader'[r].touched
      PROVE  NoteSound(r, e)'
  <2>1. NoteSound(r, e)
    BY <1>5, <1>7 DEF WalksSound, WalkSound
  <2>2. CASE e = d
    <3>1. d \notin DOMAIN docs
      BY <1>5, <1>7, <2>2
    <3>2. ~Saw(reader[r].seen, e) /\ e \notin reader[r].began
      BY <2>1, <2>2, <3>1 DEF NoteSound
    <3> QED BY <1>5, <1>7, <3>2 DEF NoteSound, Saw, SawOnce
  <2>3. CASE e # d
    <3>1. /\ e \in DOMAIN docs' <=> e \in DOMAIN docs
          /\ e \in DOMAIN docs => docs'[e] = docs[e]
      BY <2>3 DEF WrittenNote
    <3>2. e \in DOMAIN docs => (Passed(r, e)' <=> Passed(r, e))
      BY <1>5, <1>7, <3>1 DEF Passed, Position
    <3>3. e \in Listed(r)' <=> e \in Listed(r)
      BY <1>5, <1>7, <3>1 DEF Listed, Under
    <3> QED BY <1>5, <1>7, <2>1, <3>1, <3>2, <3>3 DEF NoteSound
  <2> QED BY <2>2, <2>3
<1>8. WalksSound'
  <2> SUFFICES ASSUME NEW r \in Readers, reader'[r] # Idle PROVE WalkSound(r)'
    BY <1>6 DEF WalksSound
  <2>1. reader[r] # Idle
    BY <1>3
  <2>2. WalkSound(r)
    BY <2>1 DEF WalksSound
  <2> QED BY <1>5, <1>7, <2>1, <2>2 DEF WalkSound
<1> QED BY <1>1, <1>2, <1>8

(* The suffix of a path is one that is free: there are fewer other notes   *)
(* than suffixes.                                                          *)
LEMMA ResolvedPath ==
    ASSUME Corpus(docs), NEW dir \in Directories, NEW title \in Titles, NEW except,
           NEW d \in Notes, d \notin DOMAIN docs \ except
    PROVE  Resolved(dir, title, except) \in Directories \X (Nat \ {0}) \X (Nat \ {0})
<1> DEFINE n == Cardinality(Notes)
           free == {k \in 1..n : <<dir, title, k>> \notin Taken(except)}
           others == DOMAIN docs \ except
           f == [e \in others |-> docs[e].path]
<1>1. IsFiniteSet(Notes) /\ n \in Nat
  BY WalksAssumption, FS_CardinalityType
<1>2. IsFiniteSet(others) /\ Cardinality(others) < n
  <2>1. others \subseteq Notes \ {d}
    BY DEF Corpus
  <2>2. IsFiniteSet(Notes \ {d}) /\ Cardinality(Notes \ {d}) = n - 1
    BY <1>1, FS_RemoveElement
  <2>3. IsFiniteSet(others) /\ Cardinality(others) <= Cardinality(Notes \ {d})
    BY <2>1, <2>2, FS_Subset
  <2>4. Cardinality(others) \in Nat
    BY <2>3, FS_CardinalityType
  <2> QED BY <1>1, <2>2, <2>3, <2>4
<1>3. IsFiniteSet(Taken(except)) /\ Cardinality(Taken(except)) <= Cardinality(others)
  <2>1. f \in Surjection(others, Taken(except))
    BY DEF Surjection, Taken
  <2> QED BY <1>2, <2>1, FS_Surjection
<1>4. free # {}
  <2> SUFFICES ASSUME free = {} PROVE FALSE
    OBVIOUS
  <2>1. \A k \in 1..n : <<dir, title, k>> \in Taken(except)
    OBVIOUS
  <2> DEFINE g == [k \in 1..n |-> <<dir, title, k>>]
             image == {<<dir, title, k>> : k \in 1..n}
  <2>2. g \in Injection(1..n, image)
    <3>1. \A j, k \in 1..n : <<dir, title, j>> = <<dir, title, k>> => j = k
      OBVIOUS
    <3> QED BY <3>1 DEF Injection, IsInjective
  <2>3. g \in Surjection(1..n, image)
    BY DEF Surjection
  <2>4. IsFiniteSet(1..n) /\ Cardinality(1..n) = n
    BY <1>1, FS_Interval
  <2>5. IsFiniteSet(image) /\ Cardinality(image) = n
    BY <2>2, <2>3, <2>4, FS_Surjection
  <2>6. image \subseteq Taken(except)
    BY <2>1
  <2>7. Cardinality(image) <= Cardinality(Taken(except))
    BY <1>3, <2>6, FS_Subset
  <2>8. Cardinality(others) \in Nat /\ Cardinality(Taken(except)) \in Nat
    BY <1>2, <1>3, FS_CardinalityType
  <2> HIDE DEF n, image, others
  <2> QED BY <1>1, <1>2, <1>3, <2>5, <2>7, <2>8
<1>5. \E k \in free : \A j \in free : k <= j
  <2>1. free \subseteq Nat
    OBVIOUS
  <2> HIDE DEF free
  <2> QED BY <1>4, <2>1, LeastNumber
<1>6. PICK k : k = CHOOSE i \in free : \A j \in free : i <= j
  OBVIOUS
<1>7. k \in free
  <2> HIDE DEF free
  <2> QED BY <1>5, <1>6
<1>8. k \in Nat \ {0} /\ title \in Nat \ {0}
  BY <1>7, WalksAssumption
<1>9. Resolved(dir, title, except) = <<dir, title, k>>
  BY <1>6 DEF Resolved
<1> QED BY <1>8, <1>9

LEMMA RowsAreTyped ==
    ASSUME WalksInv, NEW d \in DOMAIN docs
    PROVE  docs[d] \in Row /\ docs[d].title \in Titles
BY DEF WalksInv, WalksTyped, Corpus, Row

LEMMA WriteKeeps ==
    ASSUME WalksInv, NEW d \in Notes, NEW row \in Row, Write(d, row)
    PROVE  WalksInv'
<1>1. docs' = [e \in DOMAIN docs \cup {d} |-> IF e = d THEN row ELSE docs[e]]
  BY DEF Write, With
<1>2. DOMAIN docs' = DOMAIN docs \cup {d}
  BY <1>1
<1>3. \A e \in DOMAIN docs \cup {d} : docs'[e] \in Row
  BY <1>1 DEF WalksInv, WalksTyped, Corpus
<1>4. Corpus(docs')
  <2>1. docs' \in [DOMAIN docs' -> Row]
    BY <1>1, <1>2, <1>3
  <2> QED BY <1>2, <2>1 DEF WalksInv, WalksTyped, Corpus
<1>5. WrittenNote(d)
  BY <1>1, <1>2, <1>4 DEF WrittenNote
<1> QED BY <1>5, WrittenKeeps DEF Write

LEMMA InsertKeeps ==
    ASSUME WalksInv, NEW d \in Notes, NEW dir \in {AgentNotes, Wiki, Human, Private},
           NEW title \in Titles, NEW labels \in SUBSET Labels, Insert(d, dir, title, labels)
    PROVE  WalksInv'
<1>1. PICK p : p = Resolved(dir, title, {})
  OBVIOUS
<1>2. p \in Directories \X (Nat \ {0}) \X (Nat \ {0})
  <2>1. dir \in Directories
    BY DEF Directories, Candidates, AgentNotes, Wiki, Human, Private
  <2> QED BY <1>1, <2>1, ResolvedPath DEF WalksInv, WalksTyped, Insert
<1>3. [path |-> p, title |-> title, labels |-> labels,
       created |-> now, updated |-> now, status |-> "active"] \in Row
  BY <1>2 DEF Row, WalksInv, WalksTyped
<1> QED BY <1>1, <1>3, WriteKeeps DEF Insert

LEMMA ReplaceKeeps ==
    ASSUME WalksInv, NEW d \in Notes, NEW title \in Titles, NEW labels \in SUBSET Labels,
           Replace(d, title, labels)
    PROVE  WalksInv'
<1>1. [docs[d] EXCEPT !.title = title, !.labels = labels, !.updated = now] \in Row
  <2>1. docs[d] \in Row /\ now \in 0..MaxTime
    BY RowsAreTyped DEF Replace, WalksInv, WalksTyped
  <2> QED BY <2>1 DEF Row
<1> QED BY <1>1, WriteKeeps DEF Replace

LEMMA PromoteKeeps ==
    ASSUME WalksInv, NEW d \in Notes, NEW dir \in Directories, Promote(d, dir)
    PROVE  WalksInv'
<1>1. PICK p : p = Resolved(dir, docs[d].title, {d})
  OBVIOUS
<1>2. p \in Directories \X (Nat \ {0}) \X (Nat \ {0})
  BY <1>1, ResolvedPath, RowsAreTyped DEF WalksInv, WalksTyped, Promote
<1>3. [docs[d] EXCEPT !.path = p] \in Row
  BY <1>2, RowsAreTyped DEF Promote, Row
<1> QED BY <1>1, <1>3, WriteKeeps DEF Promote

LEMMA SetStatusKeeps ==
    ASSUME WalksInv, NEW d \in Notes, NEW status \in {"active", "flagged", "archived"},
           SetStatus(d, status)
    PROVE  WalksInv'
<1>1. [docs[d] EXCEPT !.status = status] \in Row
  BY RowsAreTyped DEF SetStatus, Row
<1> QED BY <1>1, WriteKeeps DEF SetStatus

LEMMA DeleteKeeps ==
    ASSUME WalksInv, NEW d \in Notes, Delete(d)
    PROVE  WalksInv'
<1>1. docs' = [e \in DOMAIN docs \ {d} |-> docs[e]]
  BY DEF Delete, Without
<1>2. Corpus(docs')
  BY <1>1 DEF WalksInv, WalksTyped, Corpus
<1>3. WrittenNote(d)
  BY <1>1, <1>2 DEF WrittenNote
<1> QED BY <1>3, WrittenKeeps DEF Delete

-----------------------------------------------------------------------------
(* The walks.                                                              *)

LEMMA WalksStay ==
    ASSUME WalksSound, UNCHANGED <<docs, reader>>
    PROVE  WalksSound'
BY DEF WalksSound, WalkSound, NoteSound, Passed, Listed, Under

LEMMA TickKeeps == ASSUME WalksInv, Tick PROVE WalksInv'
<1>1. WalksTyped'
  BY WalksAssumption DEF WalksInv, WalksTyped, Tick
<1> QED BY <1>1, WalksStay, RunStays DEF WalksInv, Tick

(* One walk moves, and it is sound.                                        *)
LEMMA OneWalkMoves ==
    ASSUME WalksInv, NEW r \in Readers, NEW w \in {Idle} \cup Walk,
           reader' = [reader EXCEPT ![r] = w], UNCHANGED <<docs, now, run, tree>>,
           w = Idle \/ WalkSound(r)'
    PROVE  WalksInv'
<1> USE DEF WalksInv
<1>1. WalksTyped' /\ RunSound'
  BY RunStays DEF WalksTyped
<1>2. reader' \in [Readers -> {Idle} \cup Walk]
  BY DEF WalksSound
<1>3. ASSUME NEW q \in Readers, q # r, reader[q] # Idle PROVE WalkSound(q)'
  <2>1. reader'[q] = reader[q] /\ docs' = docs
    BY <1>3 DEF WalksSound
  <2>2. WalkSound(q)
    BY <1>3 DEF WalksSound
  <2> QED BY <2>1, <2>2 DEF WalkSound, NoteSound, Passed, Listed, Under
<1>4. WalksSound'
  <2>1. reader'[r] = w /\ \A q \in Readers \ {r} : reader'[q] = reader[q]
    BY DEF WalksSound
  <2> QED BY <1>2, <1>3, <2>1 DEF WalksSound
<1> QED BY <1>1, <1>4

LEMMA BeginWalkKeeps ==
    ASSUME WalksInv, NEW r \in Readers, NEW sort \in Sorts,
           NEW under \in {ReadablePrefixes} \cup {{dir} : dir \in Directories},
           NEW labels \in SUBSET Labels, BeginWalk(r, sort, under, labels)
    PROVE  WalksInv'
<1>1. PICK w : w = [pc |-> "walking", sort |-> sort, under |-> under, labels |-> labels,
                    after |-> Start, seen |-> << >>, touched |-> {}, began |-> DOMAIN docs]
  OBVIOUS
<1>2. under \in SUBSET Directories
  BY DEF ReadablePrefixes, Directories, Candidates, Human, Private
<1>3. w \in Walk
  BY <1>1, <1>2 DEF Walk, Start, WalksInv, WalksTyped, Corpus
<1>4. /\ w.pc = "walking" /\ w.after = Start /\ w.seen = << >> /\ w.began = DOMAIN docs
  BY <1>1
<1>5. reader' = [reader EXCEPT ![r] = w]
  BY <1>1 DEF BeginWalk
<1>6. reader'[r] = w
  BY <1>5 DEF WalksInv, WalksSound
<1>7. \A d : ~Saw(w.seen, d) /\ SawOnce(w.seen, d)
  BY <1>4 DEF Saw, SawOnce
<1>8. WalkSound(r)'
  <2>1. \A d \in Notes : ~Passed(r, d)'
    BY <1>4, <1>6 DEF Passed
  <2>2. \A d \in Notes : NoteSound(r, d)'
    BY <1>4, <1>6, <1>7, <2>1 DEF NoteSound, BeginWalk
  <2> QED BY <1>4, <1>6, <2>2 DEF WalkSound
<1> QED BY <1>3, <1>5, <1>8, OneWalkMoves DEF BeginWalk

LEMMA EndWalkKeeps ==
    ASSUME WalksInv, NEW r \in Readers, EndWalk(r)
    PROVE  WalksInv'
BY OneWalkMoves DEF EndWalk

LEMMA ConcatenationSaw ==
    ASSUME NEW S, NEW s \in Seq(S), NEW t \in Seq(S), NEW d
    PROVE  /\ Saw(s \o t, d) <=> Saw(s, d) \/ Saw(t, d)
           /\ SawOnce(s, d) /\ SawOnce(t, d) /\ ~(Saw(s, d) /\ Saw(t, d)) => SawOnce(s \o t, d)
<1>1. PICK m, n : m = Len(s) /\ n = Len(t)
  OBVIOUS
<1>2. m \in Nat /\ n \in Nat /\ DOMAIN s = 1..m /\ DOMAIN t = 1..n
  BY <1>1
<1>3. PICK u : u = s \o t
  OBVIOUS
<1>4. /\ DOMAIN u = 1..(m + n)
      /\ \A i \in 1..m : u[i] = s[i]
      /\ \A i \in 1..(m + n) : i > m => i - m \in 1..n /\ u[i] = t[i - m]
  BY <1>1, <1>2, <1>3
<1>5. \A i \in 1..n : i + m \in 1..(m + n) /\ i + m > m /\ (i + m) - m = i
  BY <1>2
<1>6. Saw(u, d) <=> Saw(s, d) \/ Saw(t, d)
  <2>1. ASSUME NEW i \in 1..(m + n), u[i] = d PROVE Saw(s, d) \/ Saw(t, d)
    <3>1. CASE i <= m
      BY <1>2, <1>4, <2>1, <3>1 DEF Saw
    <3>2. CASE i > m
      BY <1>2, <1>4, <2>1, <3>2 DEF Saw
    <3> QED BY <1>2, <3>1, <3>2
  <2>2. ASSUME NEW i \in 1..m, s[i] = d PROVE Saw(u, d)
    BY <1>2, <1>4, <2>2 DEF Saw
  <2>3. ASSUME NEW i \in 1..n, t[i] = d PROVE Saw(u, d)
    <3>1. u[i + m] = d /\ i + m \in 1..(m + n)
      BY <1>4, <1>5, <2>3
    <3> QED BY <1>4, <3>1 DEF Saw
  <2> QED BY <1>2, <1>4, <2>1, <2>2, <2>3 DEF Saw
<1>7. ASSUME SawOnce(s, d), SawOnce(t, d), ~(Saw(s, d) /\ Saw(t, d)),
             NEW i \in 1..(m + n), NEW j \in 1..(m + n), u[i] = d, u[j] = d
      PROVE  i = j
  <2>1. i > m => t[i - m] = d /\ i - m \in 1..n
    BY <1>4, <1>7
  <2>2. j > m => t[j - m] = d /\ j - m \in 1..n
    BY <1>4, <1>7
  <2>3. i <= m => i \in 1..m /\ s[i] = d
    BY <1>4, <1>7
  <2>4. j <= m => j \in 1..m /\ s[j] = d
    BY <1>4, <1>7
  <2>5. CASE i <= m /\ j <= m
    BY <1>2, <1>7, <2>3, <2>4, <2>5 DEF SawOnce
  <2>6. CASE i > m /\ j > m
    <3>1. i - m = j - m
      BY <1>2, <1>7, <2>1, <2>2, <2>6 DEF SawOnce
    <3> QED BY <1>2, <3>1
  <2>7. CASE (i <= m /\ j > m) \/ (i > m /\ j <= m)
    BY <1>2, <1>7, <2>1, <2>2, <2>3, <2>4, <2>7 DEF Saw
  <2> QED BY <1>2, <2>5, <2>6, <2>7
<1> QED BY <1>3, <1>4, <1>6, <1>7 DEF SawOnce

(* The page that is shown, and the one row more that says whether it is    *)
(* the last.                                                               *)
LEMMA NextPageKeeps ==
    ASSUME WalksInv, NEW r \in Readers, NextPage(r)
    PROVE  WalksInv'
<1> USE DEF WalksInv
<1>1. reader[r] \in Walk /\ reader[r].pc = "walking" /\ WalkSound(r)
  BY WalksOfIdle DEF NextPage, WalksSound
<1>2. PICK sort, after, seen : /\ sort = reader[r].sort /\ after = reader[r].after
                               /\ seen = reader[r].seen
  OBVIOUS
<1>3. /\ sort \in Sorts /\ after \in Seq(Nat) /\ seen \in Seq(Notes)
      /\ after # Start => IsPosition(after, sort)
  BY <1>1, <1>2 DEF Walk, WalkSound
<1>4. PICK S : S = Listed(r)
  OBVIOUS
<1>5. S \in SUBSET DOMAIN docs /\ Corpus(docs) /\ DOMAIN docs \subseteq Notes
  BY <1>4 DEF Listed, Under, WalksTyped, Corpus
<1>6. PICK rest : rest = Rest(docs, S, sort, after)
  OBVIOUS
<1>7. \A d \in S : d \in rest <=> ~Passed(r, d)
  BY <1>2, <1>6 DEF Rest, Passed
<1>8. rest \subseteq S
  BY <1>6 DEF Rest
<1>9. PICK found : found = Page(docs, S, sort, after, Limit + 1)
  OBVIOUS
<1>10. Limit \in Nat \ {0} /\ Limit + 1 \in Nat \ {0}
  BY WalksAssumption
<1>11. PICK n : n = Len(found)
  OBVIOUS
<1>12. /\ found \in Seq(rest) /\ n \in Nat /\ n <= Limit + 1
       /\ \A i \in 1..n : found[i] \in rest
       /\ \A i \in 1..n : \A j \in 1..(i - 1) :
             found[j] # found[i] /\ Later(docs, sort, found[i], found[j])
       /\ \A d \in rest : ~Saw(found, d) =>
             n = Limit + 1 /\ \A i \in 1..n : Later(docs, sort, d, found[i])
  <2>1. PICK limit : limit = Limit + 1
    OBVIOUS
  <2>2. limit \in Nat \ {0} /\ found = Page(docs, S, sort, after, limit)
    BY <1>9, <1>10, <2>1
  <2>3. IsPage(found, docs, sort, rest, limit)
    BY <1>3, <1>5, <1>6, <2>2, PageIs
  <2>4. n \in Nat
    BY <1>11, <2>3 DEF IsPage
  <2> QED BY <1>11, <2>1, <2>3, <2>4 DEF IsPage
<1>13. found \in Seq(Notes) /\ DOMAIN found = 1..n
  <2>1. rest \subseteq Notes
    BY <1>5, <1>8
  <2> QED BY <1>11, <1>12, <2>1
<1>14. PICK visible : visible = IF n > Limit THEN Front(found) ELSE found
  OBVIOUS
<1>15. PICK k : k = IF n > Limit THEN Limit ELSE n
  OBVIOUS
<1>16. k \in Nat /\ k <= n /\ k <= Limit
  BY <1>10, <1>12, <1>15
<1>17. /\ visible \in Seq(Notes) /\ DOMAIN visible = 1..k /\ Len(visible) = k
       /\ \A i \in 1..k : visible[i] = found[i]
  <2>1. CASE n > Limit
    <3>1. n - 1 = Limit /\ k = Limit
      BY <1>10, <1>12, <1>15, <2>1
    <3>2. visible = SubSeq(found, 1, Limit)
      BY <1>11, <1>14, <2>1, <3>1 DEF Front
    <3> QED BY <1>10, <1>11, <1>12, <1>13, <2>1, <3>1, <3>2
  <2>2. CASE ~(n > Limit)
    BY <1>11, <1>12, <1>13, <1>14, <1>15, <2>2
  <2> QED BY <2>1, <2>2
<1>18. PICK last, next : /\ last = found[Limit]
                         /\ next = IF n > Limit THEN Position(docs, last, sort) ELSE Start
  OBVIOUS
<1>19. n > Limit => /\ Last(visible) = last /\ last \in rest /\ last \in DOMAIN docs
                    /\ next = Position(docs, last, sort)
                    /\ IsPosition(next, sort) /\ next # Start
  <2> SUFFICES ASSUME n > Limit
               PROVE  /\ Last(visible) = last /\ last \in rest /\ last \in DOMAIN docs
                      /\ next = Position(docs, last, sort)
                      /\ IsPosition(next, sort) /\ next # Start
    OBVIOUS
  <2>1. k = Limit /\ Limit \in 1..k /\ Limit \in 1..n
    BY <1>10, <1>12, <1>15
  <2>2. Last(visible) = last
    BY <1>17, <1>18, <2>1 DEF Last
  <2>3. last \in rest /\ last \in DOMAIN docs
    BY <1>5, <1>8, <1>12, <1>18, <2>1
  <2>4. next = Position(docs, last, sort)
    BY <1>18
  <2> QED BY <1>3, <1>5, <2>2, <2>3, <2>4, PositionIs
<1>20. PICK w : w = [reader[r] EXCEPT !.seen = seen \o visible, !.after = next,
                         !.pc = IF n > Limit THEN "walking" ELSE "walked"]
  OBVIOUS
<1>21. /\ w \in Walk /\ w.seen = seen \o visible /\ w.after = next
       /\ w.pc = IF n > Limit THEN "walking" ELSE "walked"
       /\ w.sort = sort /\ w.under = reader[r].under /\ w.labels = reader[r].labels
       /\ w.touched = reader[r].touched /\ w.began = reader[r].began
  <2>1. seen \o visible \in Seq(Notes)
    BY <1>3, <1>17
  <2>2. next \in Seq(Nat)
    <3>1. Start \in Seq(Nat)
      BY DEF Start
    <3> QED BY <1>18, <1>19, <3>1 DEF IsPosition
  <2> QED BY <1>1, <1>2, <1>20, <2>1, <2>2 DEF Walk
<1>22. reader' = [reader EXCEPT ![r] = w]
  <2>1. n > Limit => Position(docs, Last(visible), sort) = next
    BY <1>19
  <2>2. ~(n > Limit) => next = Start
    BY <1>18
  <2>3. reader' = [reader EXCEPT
            ![r].seen = @ \o visible,
            ![r].after = IF n > Limit THEN Position(docs, Last(visible), sort) ELSE Start,
            ![r].pc = IF n > Limit THEN "walking" ELSE "walked"]
    BY <1>2, <1>4, <1>9, <1>11, <1>14 DEF NextPage
  <2>4. reader' = [reader EXCEPT
            ![r].seen = @ \o visible, ![r].after = next,
            ![r].pc = IF n > Limit THEN "walking" ELSE "walked"]
    BY <2>1, <2>2, <2>3
  <2>5. \A q \in Readers : reader'[q] = IF q = r THEN w ELSE reader[q]
    BY <1>1, <1>2, <1>20, <2>4 DEF WalksSound, Walk
  <2>6. reader' = [q \in Readers |-> reader'[q]]
    BY <2>4 DEF WalksSound
  <2> QED BY <2>5, <2>6 DEF WalksSound
<1>23. reader'[r] = w /\ docs' = docs
  BY <1>22 DEF NextPage, WalksSound
<1>24. ASSUME NEW d \in Notes \ reader[r].touched
       PROVE  NoteSound(r, d)'
  <2>1. NoteSound(r, d)
    BY <1>1 DEF WalkSound
  <2>2. Listed(r)' = S
    BY <1>4, <1>21, <1>23 DEF Listed, Under
  <2>3. Saw(visible, d) => d \in rest /\ Saw(found, d) /\ \E i \in 1..k : d = found[i]
    BY <1>12, <1>13, <1>16, <1>17 DEF Saw
  <2>4. ~(Saw(seen, d) /\ Saw(visible, d))
    BY <1>1, <1>2, <1>7, <1>8, <2>1, <2>3 DEF NoteSound
  <2>5. SawOnce(visible, d)
    <3> SUFFICES ASSUME NEW i \in 1..k, NEW j \in 1..k, visible[i] = d, visible[j] = d PROVE i = j
      BY <1>17 DEF SawOnce
    <3>1. i \in 1..n /\ j \in 1..n /\ found[i] = d /\ found[j] = d
      BY <1>12, <1>16, <1>17
    <3>2. ~(j \in 1..(i - 1)) /\ ~(i \in 1..(j - 1))
      BY <1>12, <3>1
    <3> QED BY <1>12, <3>1, <3>2
  <2>6. /\ Saw(w.seen, d) <=> Saw(seen, d) \/ Saw(visible, d)
        /\ SawOnce(w.seen, d)
    BY <1>2, <1>3, <1>17, <1>21, <2>1, <2>4, <2>5, ConcatenationSaw DEF NoteSound
  <2>7. Saw(w.seen, d) \/ d \in w.began => d \in DOMAIN docs
    BY <1>2, <1>5, <1>8, <1>21, <2>1, <2>3, <2>6 DEF NoteSound
  <2>8. Passed(r, d)' <=> next # Start /\ ~Follows(Position(docs, d, sort), next, sort)
    BY <1>21, <1>23 DEF Passed
  <2>9. ASSUME Saw(w.seen, d), n > Limit
        PROVE  ~Follows(Position(docs, d, sort), next, sort)
    <3>1. Limit \in 1..n /\ k = Limit
      BY <1>10, <1>12, <1>15, <2>9
    <3>2. /\ last \in rest /\ last \in DOMAIN docs /\ d \in DOMAIN docs
          /\ next = Position(docs, last, sort)
      BY <1>19, <2>7, <2>9
    <3>3. CASE Saw(visible, d)
      <4>1. PICK i \in 1..k : d = found[i]
        BY <2>3, <3>3
      <4>2. CASE i = Limit
        BY <1>3, <1>5, <1>18, <3>2, <4>1, <4>2, PositionsInOrder
      <4>3. CASE i # Limit
        <5>1. i \in 1..(Limit - 1)
          BY <1>10, <3>1, <4>3
        <5>2. Later(docs, sort, last, d)
          BY <1>12, <1>18, <3>1, <4>1, <5>1
        <5>3. ~Later(docs, sort, d, last)
          BY <1>3, <1>5, <3>2, <5>2, LaterIsOrder
        <5> QED BY <3>2, <5>3 DEF Later
      <4> QED BY <4>2, <4>3
    <3>4. CASE Saw(seen, d)
      <4>1. Passed(r, d)
        BY <1>1, <1>2, <2>1, <3>4 DEF NoteSound
      <4>2. PICK p : p = Position(docs, d, sort)
        OBVIOUS
      <4>3. after # Start /\ ~Follows(p, after, sort)
        BY <1>2, <4>1, <4>2 DEF Passed
      <4>4. Follows(next, after, sort)
        BY <1>6, <3>2, <4>3 DEF Rest
      <4>5. IsPosition(p, sort) /\ IsPosition(next, sort) /\ IsPosition(after, sort)
        BY <1>3, <1>5, <1>19, <2>9, <3>2, <4>2, <4>3, PositionIs
      <4> QED BY <4>2, <4>3, <4>4, <4>5, FollowsIsOrder
    <3> QED BY <2>6, <2>9, <3>3, <3>4
  <2>10. ASSUME d \in w.began, d \in S, ~Saw(w.seen, d)
         PROVE  n > Limit /\ Follows(Position(docs, d, sort), next, sort)
    <3>1. ~Passed(r, d)
      BY <1>2, <1>4, <1>21, <2>1, <2>6, <2>10 DEF NoteSound
    <3>2. d \in rest /\ ~Saw(visible, d)
      BY <1>7, <2>6, <2>10, <3>1
    <3>3. n > Limit
      <4> SUFFICES ASSUME ~(n > Limit) PROVE FALSE
        OBVIOUS
      <4>1. visible = found
        BY <1>14
      <4> QED BY <1>10, <1>12, <3>2, <4>1
    <3>4. n = Limit + 1 /\ k = Limit /\ Limit \in 1..n /\ next = Position(docs, last, sort)
      BY <1>10, <1>12, <1>15, <1>19, <3>3
    <3>5. CASE Saw(found, d)
      <4>1. PICK i \in 1..n : found[i] = d
        BY <1>13, <3>5 DEF Saw
      <4>2. ~(i \in 1..k)
        BY <1>17, <3>2, <4>1 DEF Saw
      <4>3. i = Limit + 1 /\ Limit \in 1..(i - 1)
        BY <1>10, <3>4, <4>2
      <4>4. Later(docs, sort, d, last)
        BY <1>12, <1>18, <4>1, <4>3
      <4> QED BY <3>3, <3>4, <4>4 DEF Later
    <3>6. CASE ~Saw(found, d)
      <4>1. Later(docs, sort, d, last)
        BY <1>12, <1>18, <3>2, <3>4, <3>6
      <4> QED BY <3>3, <3>4, <4>1 DEF Later
    <3> QED BY <3>5, <3>6
  <2>11. w.pc = "walking" <=> n > Limit
    BY <1>21
  <2>12. Saw(w.seen, d) /\ w.pc = "walking" => Passed(r, d)'
    BY <1>19, <2>8, <2>9, <2>11
  <2>13. d \in w.began /\ d \in Listed(r)' /\ ~Saw(w.seen, d) => w.pc = "walking" /\ ~Passed(r, d)'
    BY <2>2, <2>8, <2>10, <2>11
  <2> QED BY <1>23, <2>6, <2>7, <2>12, <2>13 DEF NoteSound
<1>25. WalkSound(r)'
  <2>1. next # Start => IsPosition(next, sort)
    BY <1>18, <1>19
  <2> QED BY <1>21, <1>23, <1>24, <2>1 DEF WalkSound
<1> QED BY <1>21, <1>22, <1>25, OneWalkMoves DEF NextPage

-----------------------------------------------------------------------------
(* The files of an export, and their order.                                *)

LEMMA PlacesAre ==
    ASSUME NEW p \in Places
    PROVE  /\ p[1] \in Nat /\ p[2] \in Nat /\ p[3] \in Nat /\ p = <<p[1], p[2], p[3]>>
           /\ DOMAIN p = 1..3
<1>1. PICK a \in Directories, b \in Nat, c \in Nat : p = <<a, b, c>>
  BY DEF Places
<1>2. a \in Nat
  BY DEF Directories, Candidates, Private
<1> QED BY <1>1, <1>2

LEMMA BeforePlace ==
    ASSUME NEW p \in Places, NEW q \in Places,
           \/ p[1] < q[1]
           \/ p[1] = q[1] /\ p[2] < q[2]
           \/ p[1] = q[1] /\ p[2] = q[2] /\ p[3] < q[3]
    PROVE  Before(p, q)
<1>1. DOMAIN p = 1..3
  BY PlacesAre
<1>2. CASE p[1] < q[1]
  <2>1. \A j \in 1..(1 - 1) : p[j] = q[j]
    OBVIOUS
  <2> QED BY <1>1, <1>2, <2>1 DEF Before
<1>3. CASE p[1] = q[1] /\ p[2] < q[2]
  <2>1. \A j \in 1..(2 - 1) : j = 1
    OBVIOUS
  <2>2. \A j \in 1..(2 - 1) : p[j] = q[j]
    BY <1>3, <2>1
  <2> QED BY <1>1, <1>3, <2>2 DEF Before
<1>4. CASE p[1] = q[1] /\ p[2] = q[2] /\ p[3] < q[3]
  <2>1. \A j \in 1..(3 - 1) : j = 1 \/ j = 2
    OBVIOUS
  <2>2. \A j \in 1..(3 - 1) : p[j] = q[j]
    BY <1>4, <2>1
  <2> QED BY <1>1, <1>4, <2>2 DEF Before
<1> QED BY <1>2, <1>3, <1>4

LEMMA FirstPlace ==
    ASSUME NEW T \in SUBSET Places, T # {}
    PROVE  \E p \in T : \A q \in T : p = q \/ Before(p, q)
<1>1. \A p \in T : p[1] \in Nat /\ p[2] \in Nat /\ p[3] \in Nat /\ p = <<p[1], p[2], p[3]>>
  BY PlacesAre
<1> DEFINE A == {p[1] : p \in T}
<1>2. PICK a \in A : \A x \in A : a <= x
  <2>1. A \subseteq Nat /\ A # {}
    BY <1>1
  <2> HIDE DEF A
  <2> QED BY <2>1, LeastNumber
<1> DEFINE U == {p \in T : p[1] = a}
           B == {p[2] : p \in U}
<1>3. PICK b \in B : \A x \in B : b <= x
  <2>1. B \subseteq Nat /\ B # {}
    BY <1>1, <1>2
  <2> HIDE DEF B
  <2> QED BY <2>1, LeastNumber
<1> DEFINE V == {p \in U : p[2] = b}
           C == {p[3] : p \in V}
<1>4. PICK c \in C : \A x \in C : c <= x
  <2>1. C \subseteq Nat /\ C # {}
    BY <1>1, <1>3
  <2> HIDE DEF C
  <2> QED BY <2>1, LeastNumber
<1>5. PICK p \in V : p[3] = c
  BY <1>4
<1>6. p \in T /\ p[1] = a /\ p[2] = b /\ p[3] = c
  BY <1>5
<1>7. ASSUME NEW q \in T PROVE p = q \/ Before(p, q)
  <2>1. /\ a <= q[1]
        /\ q[1] = a => b <= q[2]
        /\ q[1] = a /\ q[2] = b => c <= q[3]
    BY <1>2, <1>3, <1>4
  <2>2. \/ p[1] < q[1]
        \/ p[1] = q[1] /\ p[2] < q[2]
        \/ p[1] = q[1] /\ p[2] = q[2] /\ p[3] < q[3]
        \/ p[1] = q[1] /\ p[2] = q[2] /\ p[3] = q[3]
    <3> HIDE DEF A, B, C, U, V
    <3> QED BY <1>1, <1>6, <2>1
  <2>3. p[1] = q[1] /\ p[2] = q[2] /\ p[3] = q[3] => p = q
    BY <1>1, <1>6
  <2>4. p \in Places /\ q \in Places
    BY <1>6
  <2> QED BY <2>2, <2>3, <2>4, BeforePlace
<1> QED BY <1>6, <1>7

InExport(p) == p \in Places /\ p[1] \in OwnedPrefixes

LEMMA FirstIsOne ==
    ASSUME NEW T, T # {}, \A p \in T : InExport(p)
    PROVE  First(T) \in T
<1>1. \E p \in T : \A q \in T : p = q \/ Before(Turn(p), Turn(q))
  <2>1. CASE T \ {IndexPath} = {}
    BY <2>1
  <2>2. CASE T \ {IndexPath} # {}
    <3>1. T \ {IndexPath} \in SUBSET Places
      BY DEF InExport
    <3>2. PICK p \in T \ {IndexPath} : \A q \in T \ {IndexPath} : p = q \/ Before(p, q)
      BY <2>2, <3>1, FirstPlace
    <3>3. Turn(p) = p
      BY <3>2 DEF Turn
    <3>4. Before(p, <<Private>>)
      <4>1. p[1] < Private
        BY DEF InExport, OwnedPrefixes, Candidates, Wiki, Private
      <4>2. DOMAIN p = 1..3
        BY PlacesAre DEF InExport
      <4>3. <<Private>>[1] = Private
        OBVIOUS
      <4>4. \A j \in 1..(1 - 1) : p[j] = <<Private>>[j]
        OBVIOUS
      <4> HIDE DEF Private
      <4> QED BY <4>1, <4>2, <4>3, <4>4 DEF Before
    <3>5. \A q \in T : p = q \/ Before(Turn(p), Turn(q))
      BY <3>2, <3>3, <3>4 DEF Turn
    <3> QED BY <3>2, <3>5
  <2> QED BY <2>1, <2>2
<1> QED BY <1>1 DEF First

LEMMA IndexInExport == InExport(IndexPath)
BY DEF InExport, IndexPath, Places, Directories, Candidates, Wiki, Private, OwnedPrefixes

LEMMA ExportedFiles ==
    ASSUME NEW rows, Corpus(rows), NEW right, right = Expected(Exported(rows))
    PROVE  /\ right = [p \in DOMAIN right |-> right[p]]
           /\ \A p \in DOMAIN right : InExport(p)
<1> DEFINE out == Exported(rows)
           files == {out[d].path : d \in DOMAIN out}
                       \cup (IF Pages(out) = {} THEN {} ELSE {IndexPath})
<1>1. right = [p \in DOMAIN right |-> right[p]] /\ DOMAIN right = files
  BY DEF Expected
<1>2. \A d \in DOMAIN out : InExport(out[d].path)
  <2> SUFFICES ASSUME NEW d \in DOMAIN out PROVE InExport(out[d].path)
    OBVIOUS
  <2>1. d \in DOMAIN rows /\ rows[d].path[1] \in ExportedPrefixes /\ out[d] = rows[d]
    BY DEF Exported, Under
  <2>2. rows[d].path \in Directories \X (Nat \ {0}) \X (Nat \ {0})
    BY <2>1 DEF Corpus, Row
  <2>3. rows[d].path \in Places
    BY <2>2 DEF Places
  <2> QED BY <2>1, <2>3 DEF InExport, ExportedPrefixes, OwnedPrefixes
<1>3. \A p \in files : InExport(p)
  BY <1>2, IndexInExport
<1> QED BY <1>1, <1>3

-----------------------------------------------------------------------------
(* What the files outside of the export have of a file that is put in it   *)
(* or taken out.                                                           *)

IsPut(t, u, p, x) ==
    /\ TreeTyped(u) /\ DOMAIN u = DOMAIN t \cup {p}
    /\ u[p] = x /\ \A q \in DOMAIN t \ {p} : u[q] = t[q]
    /\ Without(u, Owned(u)) = Without(t, Owned(t))
    /\ Owned(u) = Owned(t) \cup {p}
IsTaken(t, u, p) ==
    /\ TreeTyped(u) /\ DOMAIN u = DOMAIN t \ {p}
    /\ \A q \in DOMAIN u : u[q] = t[q]
    /\ Without(u, Owned(u)) = Without(t, Owned(t))
    /\ Owned(u) = Owned(t) \ {p}

LEMMA FilePut ==
    ASSUME NEW t, TreeTyped(t), NEW p, InExport(p), NEW x, NEW u, u = With(t, p, x)
    PROVE  IsPut(t, u, p, x)
<1>1. u = [q \in DOMAIN t \cup {p} |-> IF q = p THEN x ELSE t[q]]
  BY DEF With
<1>2. DOMAIN u = DOMAIN t \cup {p} /\ u = [q \in DOMAIN u |-> u[q]]
  BY <1>1
<1>3. u[p] = x /\ \A q \in DOMAIN t \ {p} : u[q] = t[q]
  BY <1>1
<1>4. Owned(u) = Owned(t) \cup {p}
  BY <1>2 DEF Owned, InExport
<1>5. Without(u, Owned(u)) = Without(t, Owned(t))
  <2>1. DOMAIN u \ Owned(u) = DOMAIN t \ Owned(t)
    BY <1>2, <1>4 DEF Owned, InExport
  <2>2. \A q \in DOMAIN t \ Owned(t) : u[q] = t[q]
    BY <1>2, <1>3, <1>4, <2>1
  <2> QED BY <2>1, <2>2 DEF Without
<1> QED BY <1>2, <1>3, <1>4, <1>5 DEF IsPut, TreeTyped, InExport

LEMMA FileTaken ==
    ASSUME NEW t, TreeTyped(t), NEW p \in Owned(t), NEW u, u = Without(t, {p})
    PROVE  IsTaken(t, u, p)
<1>1. u = [q \in DOMAIN t \ {p} |-> t[q]]
  BY DEF Without
<1>2. DOMAIN u = DOMAIN t \ {p} /\ u = [q \in DOMAIN u |-> u[q]] /\ \A q \in DOMAIN u : u[q] = t[q]
  BY <1>1
<1>3. Owned(u) = Owned(t) \ {p}
  BY <1>2 DEF Owned
<1>4. Without(u, Owned(u)) = Without(t, Owned(t))
  <2>1. DOMAIN u \ Owned(u) = DOMAIN t \ Owned(t)
    BY <1>2, <1>3
  <2>2. \A q \in DOMAIN t \ Owned(t) : u[q] = t[q]
    BY <1>2, <1>3
  <2> QED BY <2>1, <2>2 DEF Without
<1> QED BY <1>2, <1>3, <1>4 DEF IsTaken, TreeTyped

-----------------------------------------------------------------------------
(* The export, step by step.                                               *)

LEMMA ExportStep ==
    ASSUME WalksInv, UNCHANGED <<docs, now, reader>>, TreeTyped(tree'), RunSound'
    PROVE  WalksInv'
BY WalksStay DEF WalksInv, WalksTyped

LEMMA RunKinds ==
    ASSUME RunSound
    PROVE  /\ run.pc = "reading" => RunReading
           /\ run.pc = "writing" => RunWriting
           /\ run.pc = "pruning" => RunPruning("pruning")
           /\ run.pc = "reported" => RunPruning("reported")
           /\ run # Idle => run.pc \in {"reading", "writing", "pruning", "reported"}
BY DEF RunSound, RunReading, RunWriting, RunPruning, RunLater, Idle

LEMMA BeginExportKeeps ==
    ASSUME WalksInv, NEW apply \in BOOLEAN, NEW prune \in BOOLEAN, BeginExport(apply, prune)
    PROVE  WalksInv'
<1>1. PICK f : f = [pc |-> "reading", apply |-> apply, prune |-> prune, snapshot |-> docs,
                    after |-> Start, rows |-> << >>, others |-> Without(tree, Owned(tree))]
  OBVIOUS
<1>2. /\ f = [pc |-> "reading", apply |-> f.apply, prune |-> f.prune, snapshot |-> f.snapshot,
              after |-> f.after, rows |-> f.rows, others |-> f.others]
      /\ f.pc = "reading" /\ f.snapshot = docs /\ f.after = Start /\ f.rows = << >>
      /\ f.others = Without(tree, Owned(tree))
  BY <1>1
<1>3. run' = f /\ tree' = tree /\ UNCHANGED <<docs, now, reader>>
  BY <1>1 DEF BeginExport
<1>4. Behind(docs, Start) = {}
  BY DEF Behind
<1>5. f.rows = [d \in Behind(f.snapshot, f.after) |-> f.snapshot[d]]
  <2>1. DOMAIN << >> = {} /\ << >> = [d \in {} |-> docs[d]]
    OBVIOUS
  <2> QED BY <1>2, <1>4, <2>1
<1>6. Kept'
  BY <1>2, <1>3 DEF Kept, Owned
<1>7. Corpus(f.snapshot)
  BY <1>2 DEF WalksInv, WalksTyped
<1>8. RunReading'
  BY <1>2, <1>3, <1>5, <1>6, <1>7 DEF RunReading
<1> QED BY <1>3, <1>8, ExportStep DEF RunSound, WalksInv, WalksTyped

LEMMA SnapshotPage ==
    ASSUME NEW snap, Corpus(snap), NEW after, after # Start => IsPosition(after, "path"),
           NEW page, page = Page(snap, Under(snap, ExportedPrefixes), "path", after, PageSize)
    PROVE  /\ page = << >> => Behind(snap, after) = Under(snap, ExportedPrefixes)
           /\ page # << >> =>
                 LET next == Position(snap, Last(page), "path")
                 IN  /\ next # Start /\ IsPosition(next, "path")
                     /\ Behind(snap, next) = Behind(snap, after) \cup ToSet(page)
<1> DEFINE S == Under(snap, ExportedPrefixes)
           rest == Rest(snap, S, "path", after)
<1>1. S \in SUBSET DOMAIN snap /\ "path" \in Sorts /\ PageSize \in Nat \ {0}
  BY WalksAssumption DEF Under, Sorts
<1>2. \A d \in S : d \in rest <=> d \notin Behind(snap, after)
  BY DEF Rest, Behind
<1>3. rest \subseteq S /\ Behind(snap, after) \subseteq S
  BY DEF Rest, Behind
<1>4. IsPage(page, snap, "path", rest, PageSize)
  BY <1>1, PageIs
<1> HIDE DEF rest
<1>5. PICK n : n = Len(page)
  OBVIOUS
<1>6. /\ page \in Seq(rest) /\ n \in Nat /\ DOMAIN page = 1..n
      /\ \A i \in 1..n : page[i] \in rest
      /\ \A i \in 1..n : \A j \in 1..(i - 1) : Later(snap, "path", page[i], page[j])
      /\ \A d \in rest : ~Saw(page, d) => \A i \in 1..n : Later(snap, "path", d, page[i])
      /\ rest # {} => n > 0
  BY <1>4, <1>5 DEF IsPage
<1>7. CASE page = << >>
  <2>1. n = 0
    BY <1>5, <1>7
  <2>2. rest = {}
    BY <1>6, <2>1
  <2> QED BY <1>2, <1>3, <1>7, <2>2
<1>8. CASE page # << >>
  <2>1. n > 0
    <3>1. n = 0 => page = << >>
      BY <1>5, <1>6
    <3> QED BY <1>6, <1>8, <3>1
  <2>2. PICK last : last = Last(page)
    OBVIOUS
  <2>3. last = page[n] /\ n \in 1..n /\ last \in rest /\ last \in DOMAIN snap
    BY <1>1, <1>3, <1>5, <1>6, <2>1, <2>2 DEF Last
  <2>4. PICK next : next = Position(snap, last, "path")
    OBVIOUS
  <2>5. next # Start /\ IsPosition(next, "path")
    BY <1>1, <2>3, <2>4, PositionIs
  <2>6. after = Start \/ Follows(next, after, "path")
    BY <2>3, <2>4 DEF rest, Rest
  <2>7. ToSet(page) = {d \in rest : Saw(page, d)}
    BY <1>6 DEF ToSet, Saw
  <2>8. ASSUME NEW d \in ToSet(page) PROVE d \in Behind(snap, next)
    <3>1. PICK i \in 1..n : d = page[i]
      BY <1>6, <2>7 DEF Saw
    <3>2. d \in S /\ d \in DOMAIN snap
      BY <1>1, <1>3, <2>7
    <3>3. ~Later(snap, "path", d, last)
      <4>1. CASE i = n
        BY <1>1, <2>3, <3>1, <3>2, <4>1, LaterIsOrder
      <4>2. CASE i # n
        <5>1. i \in 1..(n - 1)
          BY <1>6, <4>2
        <5>2. Later(snap, "path", last, d)
          BY <1>6, <2>3, <3>1, <5>1
        <5> QED BY <1>1, <2>3, <3>2, <5>2, LaterIsOrder
      <4> QED BY <4>1, <4>2
    <3> QED BY <2>4, <2>5, <3>2, <3>3 DEF Behind, Later
  <2>9. ASSUME NEW d \in Behind(snap, after) PROVE d \in Behind(snap, next)
    <3>1. PICK p : p = Position(snap, d, "path")
      OBVIOUS
    <3>2. d \in S /\ d \in DOMAIN snap /\ after # Start /\ ~Follows(p, after, "path")
      BY <1>1, <3>1 DEF Behind
    <3>3. IsPosition(p, "path") /\ IsPosition(after, "path")
      BY <1>1, <3>1, <3>2, PositionIs
    <3>4. ~Follows(p, next, "path")
      BY <2>5, <2>6, <3>2, <3>3, FollowsIsOrder
    <3> QED BY <2>5, <3>1, <3>2, <3>4 DEF Behind
  <2>10. ASSUME NEW d \in Behind(snap, next), d \notin Behind(snap, after) PROVE d \in ToSet(page)
    <3>1. d \in S /\ d \in rest
      BY <1>2, <2>10 DEF Behind
    <3>2. ~Later(snap, "path", d, last)
      BY <2>4, <2>10 DEF Behind, Later
    <3> QED BY <1>6, <2>3, <2>7, <3>1, <3>2
  <2>11. Behind(snap, next) = Behind(snap, after) \cup ToSet(page)
    BY <2>8, <2>9, <2>10
  <2> QED BY <1>8, <2>2, <2>4, <2>5, <2>11
<1> QED BY <1>7, <1>8

LEMMA ReadPageKeeps ==
    ASSUME WalksInv, ReadPage
    PROVE  WalksInv'
<1>1. RunReading
  BY RunKinds DEF WalksInv, ReadPage
<1>2. PICK snap, after : snap = run.snapshot /\ after = run.after
  OBVIOUS
<1>3. /\ Corpus(snap)
      /\ after # Start => IsPosition(after, "path")
      /\ run.rows = [d \in Behind(snap, after) |-> snap[d]]
  BY <1>1, <1>2 DEF RunReading
<1>4. PICK page : page = Page(snap, Under(snap, ExportedPrefixes), "path", after, PageSize)
  OBVIOUS
<1>5. /\ page = << >> => Behind(snap, after) = Under(snap, ExportedPrefixes)
      /\ page # << >> =>
            LET next == Position(snap, Last(page), "path")
            IN  /\ next # Start /\ IsPosition(next, "path")
                /\ Behind(snap, next) = Behind(snap, after) \cup ToSet(page)
  BY <1>3, <1>4, SnapshotPage
<1>6. UNCHANGED <<docs, now, reader, tree>> /\ TreeTyped(tree')
  BY DEF ReadPage, WalksInv, WalksTyped
<1>7. CASE page = << >>
  <2>1. run.rows = Exported(snap)
    BY <1>3, <1>5, <1>7 DEF Exported
  <2>2. PICK right : right = Expected(Exported(snap))
    OBVIOUS
  <2>3. PICK f : f = [pc |-> "writing", apply |-> run.apply, prune |-> run.prune,
                      snapshot |-> snap, others |-> run.others,
                      todo |-> right, expected |-> DOMAIN right]
    OBVIOUS
  <2>4. run' = f
    BY <1>2, <1>4, <1>7, <2>1, <2>2, <2>3 DEF ReadPage, Reads
  <2>5. /\ f = [pc |-> "writing", apply |-> f.apply, prune |-> f.prune, snapshot |-> f.snapshot,
                others |-> f.others, todo |-> f.todo, expected |-> f.expected]
        /\ f.pc = "writing" /\ f.snapshot = snap /\ f.others = run.others
        /\ f.todo = right /\ f.expected = DOMAIN right
    BY <2>3
  <2>6. Right' = right
    BY <2>2, <2>4, <2>5 DEF Right
  <2>7. Kept'
    BY <1>1, <1>6, <2>4, <2>5 DEF RunReading, Kept, Owned
  <2>8. RunLater("writing")'
    BY <1>3, <2>4, <2>5, <2>6, <2>7 DEF RunLater
  <2>9. right = [p \in DOMAIN right |-> right[p]]
    BY <1>3, <2>2, ExportedFiles
  <2>10. RunWriting'
    BY <2>4, <2>5, <2>6, <2>8, <2>9 DEF RunWriting
  <2> QED BY <1>6, <2>10, ExportStep DEF RunSound
<1>8. CASE page # << >>
  <2>1. PICK next : next = Position(snap, Last(page), "path")
    OBVIOUS
  <2>2. /\ next # Start /\ IsPosition(next, "path")
        /\ Behind(snap, next) = Behind(snap, after) \cup ToSet(page)
    BY <1>5, <1>8, <2>1
  <2>3. PICK rows : rows = [d \in DOMAIN run.rows \cup ToSet(page) |->
                               IF d \in ToSet(page) THEN snap[d] ELSE run.rows[d]]
    OBVIOUS
  <2>4. rows = [d \in Behind(snap, next) |-> snap[d]]
    <3>1. DOMAIN run.rows = Behind(snap, after) /\ \A d \in DOMAIN run.rows : run.rows[d] = snap[d]
      BY <1>3
    <3> QED BY <2>2, <2>3, <3>1
  <2>5. PICK f : f = [run EXCEPT !.after = next, !.rows = rows]
    OBVIOUS
  <2>6. run' = f
    BY <1>2, <1>4, <1>8, <2>1, <2>3, <2>5 DEF ReadPage, Reads
  <2>7. /\ f = [pc |-> "reading", apply |-> f.apply, prune |-> f.prune, snapshot |-> f.snapshot,
                after |-> f.after, rows |-> f.rows, others |-> f.others]
        /\ f.pc = "reading" /\ f.snapshot = snap /\ f.others = run.others
        /\ f.after = next /\ f.rows = rows
    BY <1>1, <1>2, <2>5 DEF RunReading
  <2>8. Kept'
    BY <1>1, <1>6, <2>6, <2>7 DEF RunReading, Kept, Owned
  <2>9. RunReading'
    BY <1>3, <2>2, <2>4, <2>6, <2>7, <2>8 DEF RunReading
  <2> QED BY <1>6, <2>9, ExportStep DEF RunSound
<1> QED BY <1>7, <1>8

(* What a run has between two steps, which the steps only change in part.  *)
LEMMA RightInExport ==
    ASSUME Corpus(run.snapshot)
    PROVE  /\ Right = [p \in DOMAIN Right |-> Right[p]]
           /\ \A p \in DOMAIN Right : InExport(p)
BY ExportedFiles DEF Right

LEMMA WriteFileKeeps ==
    ASSUME WalksInv, WriteFile
    PROVE  WalksInv'
<1>1. RunWriting /\ RunLater("writing")
  BY RunKinds DEF WalksInv, WriteFile, RunWriting
<1>2. PICK todo : todo = run.todo
  OBVIOUS
<1>3. PICK right : right = Right
  OBVIOUS
<1>4. /\ DOMAIN todo \subseteq DOMAIN right
      /\ todo = [p \in DOMAIN todo |-> right[p]] /\ todo # << >>
      /\ \A p \in DOMAIN right : InExport(p)
  BY <1>1, <1>2, <1>3, RightInExport DEF RunWriting, RunLater, WriteFile
<1>5. DOMAIN todo # {}
  <2>1. DOMAIN todo = {} => todo = << >>
    BY <1>4
  <2> QED BY <1>4, <2>1
<1>6. PICK p : p = First(DOMAIN todo)
  OBVIOUS
<1>7. p \in DOMAIN todo
  BY <1>4, <1>5, <1>6, FirstIsOne
<1>8. PICK left : left = Without(todo, {p})
  OBVIOUS
<1>9. /\ DOMAIN left = DOMAIN todo \ {p} /\ left = [q \in DOMAIN left |-> right[q]]
      /\ DOMAIN left \subseteq DOMAIN right
  BY <1>4, <1>8 DEF Without
<1>10. PICK f : f = [run EXCEPT !.todo = left]
  OBVIOUS
<1>11. /\ f = [pc |-> "writing", apply |-> f.apply, prune |-> f.prune, snapshot |-> f.snapshot,
               others |-> f.others, todo |-> f.todo, expected |-> f.expected]
       /\ f.pc = "writing" /\ f.snapshot = run.snapshot /\ f.others = run.others
       /\ f.apply = run.apply /\ f.todo = left /\ f.expected = run.expected
  BY <1>1, <1>10 DEF RunLater
<1>12. run' = f /\ UNCHANGED <<docs, now, reader>>
  BY <1>2, <1>6, <1>8, <1>10 DEF WriteFile
<1>13. tree' = IF run.apply THEN With(tree, p, right[p]) ELSE tree
  BY <1>2, <1>4, <1>6, <1>7 DEF WriteFile
<1>14. TreeTyped(tree) /\ InExport(p)
  BY <1>4, <1>7 DEF WalksInv, WalksTyped
<1>15. /\ TreeTyped(tree') /\ Without(tree', Owned(tree')) = Without(tree, Owned(tree))
       /\ run.apply => \A q \in DOMAIN right : q = p \/ RightFile(q) =>
             q \in DOMAIN tree' /\ tree'[q] = right[q]
  <2>1. CASE run.apply
    <3>1. PICK t, u, x : t = tree /\ u = tree' /\ x = right[p]
      OBVIOUS
    <3>2. TreeTyped(t) /\ u = With(t, p, x) /\ InExport(p)
      BY <1>13, <1>14, <2>1, <3>1 DEF TreeTyped
    <3>3. IsPut(t, u, p, x)
      BY <3>2, FilePut
    <3>4. /\ TreeTyped(u) /\ DOMAIN u = DOMAIN t \cup {p} /\ u[p] = x
          /\ \A q \in DOMAIN t \ {p} : u[q] = t[q]
          /\ Without(u, Owned(u)) = Without(t, Owned(t))
      BY <3>3 DEF IsPut
    <3>5. \A q \in DOMAIN right : q = p \/ RightFile(q) => q \in DOMAIN u /\ u[q] = right[q]
      BY <1>3, <3>1, <3>4 DEF RightFile
    <3> QED BY <3>1, <3>4, <3>5
  <2>2. CASE ~run.apply
    BY <1>13, <1>14, <2>2
  <2> QED BY <2>1, <2>2
<1>16. Right' = right
  BY <1>3, <1>11, <1>12 DEF Right
<1>17. Kept'
  BY <1>1, <1>11, <1>12, <1>15 DEF RunLater, Kept
<1>18. RunLater("writing")'
  BY <1>1, <1>3, <1>11, <1>12, <1>16, <1>17 DEF RunLater
<1>19. ASSUME run.apply PROVE \A q \in DOMAIN right \ DOMAIN left : RightFile(q)'
  <2>1. \A q \in DOMAIN right \ DOMAIN left : q = p \/ RightFile(q)
    BY <1>1, <1>2, <1>3, <1>9, <1>19 DEF RunWriting
  <2> QED BY <1>15, <1>16, <1>19, <2>1 DEF RightFile
<1>20. RunWriting'
  BY <1>9, <1>11, <1>12, <1>16, <1>18, <1>19 DEF RunWriting
<1> QED BY <1>12, <1>15, <1>20, ExportStep DEF RunSound

LEMMA FindOrphansKeeps ==
    ASSUME WalksInv, FindOrphans
    PROVE  WalksInv'
<1>1. RunWriting /\ RunLater("writing") /\ run.todo = << >>
  BY RunKinds DEF WalksInv, FindOrphans, RunWriting
<1>2. PICK left : left = IF run.prune /\ run.apply THEN Orphans(run.expected) ELSE {}
  OBVIOUS
<1>3. PICK f : f = [run EXCEPT !.pc = "pruning", !.todo = left]
  OBVIOUS
<1>4. /\ f = [pc |-> "pruning", apply |-> f.apply, prune |-> f.prune, snapshot |-> f.snapshot,
              others |-> f.others, todo |-> f.todo, expected |-> f.expected]
      /\ f.pc = "pruning" /\ f.snapshot = run.snapshot /\ f.others = run.others
      /\ f.apply = run.apply /\ f.prune = run.prune /\ f.todo = left /\ f.expected = run.expected
  BY <1>1, <1>3 DEF RunLater
<1>5. run' = f /\ tree' = tree /\ UNCHANGED <<docs, now, reader>>
  BY <1>2, <1>3 DEF FindOrphans
<1>6. Right' = Right
  BY <1>4, <1>5 DEF Right
<1>7. Kept'
  BY <1>1, <1>4, <1>5 DEF RunLater, Kept, Owned
<1>8. RunLater("pruning")'
  BY <1>1, <1>4, <1>5, <1>6, <1>7 DEF RunLater
<1>9. run.apply => \A p \in DOMAIN Right : RightFile(p)
  <2>1. DOMAIN run.todo = {}
    BY <1>1
  <2> QED BY <1>1, <2>1 DEF RunWriting
<1>10. run.apply => \A p \in DOMAIN Right : RightFile(p)'
  BY <1>5, <1>6, <1>9 DEF RightFile
<1>11. left = IF f.prune /\ f.apply THEN Orphans(f.expected)' ELSE {}
  BY <1>2, <1>4, <1>5 DEF Orphans, Owned
<1>12. RunPruning("pruning")'
  BY <1>4, <1>5, <1>6, <1>8, <1>10, <1>11 DEF RunPruning, Orphans, Owned
<1>13. TreeTyped(tree')
  BY <1>5 DEF WalksInv, WalksTyped
<1> QED BY <1>5, <1>12, <1>13, ExportStep DEF RunSound

LEMMA UnlinkKeeps ==
    ASSUME WalksInv, Unlink
    PROVE  WalksInv'
<1>1. RunPruning("pruning") /\ RunLater("pruning") /\ run.todo # {}
  BY RunKinds DEF WalksInv, Unlink, RunPruning
<1>2. PICK todo : todo = run.todo
  OBVIOUS
<1>3. run.prune /\ run.apply /\ todo = Orphans(run.expected) /\ todo # {}
  BY <1>1, <1>2 DEF RunPruning
<1>4. TreeTyped(tree)
  BY DEF WalksInv, WalksTyped
<1>5. \A p \in todo : p \in Owned(tree) /\ p \notin DOMAIN Right /\ InExport(p)
  BY <1>1, <1>3, <1>4 DEF RunLater, Orphans, Owned, InExport, TreeTyped
<1>6. PICK p : p = First(todo)
  OBVIOUS
<1>7. p \in todo
  BY <1>3, <1>5, <1>6, FirstIsOne
<1>8. PICK f : f = [run EXCEPT !.todo = todo \ {p}]
  OBVIOUS
<1>9. /\ f = [pc |-> "pruning", apply |-> f.apply, prune |-> f.prune, snapshot |-> f.snapshot,
              others |-> f.others, todo |-> f.todo, expected |-> f.expected]
      /\ f.pc = "pruning" /\ f.snapshot = run.snapshot /\ f.others = run.others
      /\ f.apply = run.apply /\ f.prune = run.prune
      /\ f.todo = todo \ {p} /\ f.expected = run.expected
  BY <1>1, <1>8 DEF RunLater
<1>10. run' = f /\ tree' = Without(tree, {p}) /\ UNCHANGED <<docs, now, reader>>
  BY <1>2, <1>6, <1>8 DEF Unlink
<1>11. /\ TreeTyped(tree') /\ DOMAIN tree' = DOMAIN tree \ {p}
       /\ \A q \in DOMAIN tree' : tree'[q] = tree[q]
       /\ Without(tree', Owned(tree')) = Without(tree, Owned(tree))
       /\ Owned(tree') = Owned(tree) \ {p}
  <2>1. PICK t, u : t = tree /\ u = tree'
    OBVIOUS
  <2>2. TreeTyped(t) /\ p \in Owned(t) /\ u = Without(t, {p})
    BY <1>4, <1>5, <1>7, <1>10, <2>1 DEF TreeTyped, Owned
  <2>3. IsTaken(t, u, p)
    BY <2>2, FileTaken
  <2> QED BY <2>1, <2>3 DEF IsTaken, TreeTyped, Owned, Without
<1>12. Right' = Right
  BY <1>9, <1>10 DEF Right
<1>13. Kept'
  BY <1>1, <1>9, <1>10, <1>11 DEF RunLater, Kept
<1>14. RunLater("pruning")'
  BY <1>1, <1>9, <1>10, <1>12, <1>13 DEF RunLater
<1>15. \A q \in DOMAIN Right : RightFile(q)'
  <2>1. \A q \in DOMAIN Right : RightFile(q) /\ q # p
    BY <1>1, <1>3, <1>5, <1>7 DEF RunPruning
  <2> QED BY <1>11, <1>12, <2>1 DEF RightFile
<1>16. f.todo = Orphans(f.expected)'
  BY <1>3, <1>9, <1>11 DEF Orphans
<1>17. RunPruning("pruning")'
  BY <1>3, <1>9, <1>10, <1>12, <1>14, <1>15, <1>16 DEF RunPruning, Orphans
<1> QED BY <1>10, <1>11, <1>17, ExportStep DEF RunSound

LEMMA ReportKeeps ==
    ASSUME WalksInv, Report
    PROVE  WalksInv'
<1>1. RunPruning("pruning") /\ RunLater("pruning") /\ run.todo = {}
  BY RunKinds DEF WalksInv, Report, RunPruning
<1>2. PICK f : f = [run EXCEPT !.pc = "reported"]
  OBVIOUS
<1>3. /\ f = [pc |-> "reported", apply |-> f.apply, prune |-> f.prune, snapshot |-> f.snapshot,
              others |-> f.others, todo |-> f.todo, expected |-> f.expected]
      /\ f.pc = "reported" /\ f.snapshot = run.snapshot /\ f.others = run.others
      /\ f.apply = run.apply /\ f.prune = run.prune /\ f.todo = {} /\ f.expected = run.expected
  BY <1>1, <1>2 DEF RunLater
<1>4. run' = f /\ tree' = tree /\ UNCHANGED <<docs, now, reader>>
  BY <1>2 DEF Report
<1>5. Right' = Right
  BY <1>3, <1>4 DEF Right
<1>6. Kept'
  BY <1>1, <1>3, <1>4 DEF RunLater, Kept, Owned
<1>7. RunLater("reported")'
  BY <1>1, <1>3, <1>4, <1>5, <1>6 DEF RunLater
<1>8. run.apply => \A p \in DOMAIN Right : RightFile(p)'
  BY <1>1, <1>4, <1>5 DEF RunPruning, RightFile
<1>9. f.todo = IF f.prune /\ f.apply THEN Orphans(f.expected)' ELSE {}
  BY <1>1, <1>3, <1>4 DEF RunPruning, Orphans, Owned
<1>10. RunPruning("reported")'
  BY <1>3, <1>4, <1>5, <1>7, <1>8, <1>9 DEF RunPruning, Orphans, Owned
<1>11. TreeTyped(tree')
  BY <1>4 DEF WalksInv, WalksTyped
<1> QED BY <1>4, <1>10, <1>11, ExportStep DEF RunSound

LEMMA StopKeeps ==
    ASSUME WalksInv, Stop
    PROVE  WalksInv'
<1>1. TreeTyped(tree) /\ run' = Idle /\ UNCHANGED <<docs, now, reader>>
  BY DEF WalksInv, WalksTyped, Stop
<1>2. CASE tree' = tree
  BY <1>1, <1>2, ExportStep DEF RunSound
<1>3. CASE tree' # tree
  <2>1. run.pc = "writing" /\ run.todo # << >> /\ tree' = With(tree, First(DOMAIN run.todo), Torn)
    BY <1>3 DEF Stop
  <2>2. RunWriting /\ RunLater("writing")
    BY <2>1, RunKinds DEF WalksInv, RunWriting
  <2>3. PICK todo, p : todo = run.todo /\ p = First(DOMAIN todo)
    OBVIOUS
  <2>4. /\ todo = [q \in DOMAIN todo |-> Right[q]] /\ todo # << >>
        /\ \A q \in DOMAIN todo : InExport(q)
    BY <2>1, <2>2, <2>3, RightInExport DEF RunWriting, RunLater
  <2>5. DOMAIN todo # {}
    <3>1. DOMAIN todo = {} => todo = << >>
      BY <2>4
    <3> QED BY <2>4, <3>1
  <2>6. InExport(p)
    BY <2>3, <2>4, <2>5, FirstIsOne
  <2>7. TreeTyped(tree')
    <3>1. PICK t, u : t = tree /\ u = tree'
      OBVIOUS
    <3>2. TreeTyped(t) /\ u = With(t, p, Torn)
      BY <1>1, <2>1, <2>3, <3>1 DEF TreeTyped
    <3>3. IsPut(t, u, p, Torn)
      BY <2>6, <3>2, FilePut
    <3> QED BY <3>1, <3>3 DEF IsPut, TreeTyped
  <2> QED BY <1>1, <2>7, ExportStep DEF RunSound
<1> QED BY <1>2, <1>3

LEMMA MeddleKeeps ==
    ASSUME WalksInv, NEW p \in Paths \cup {IndexPath}, Meddle(p)
    PROVE  WalksInv'
<1>1. p \in Places
  <2>1. 1..Cardinality(Notes) \subseteq Nat /\ Titles \subseteq Nat
    BY WalksAssumption
  <2>2. IndexPath \in Places
    BY IndexInExport DEF InExport
  <2> QED BY <2>1, <2>2 DEF Paths, Places
<1>2. run = Idle /\ run' = Idle /\ tree' = With(tree, p, ByHand) /\ UNCHANGED <<docs, now, reader>>
  BY DEF Meddle
<1>3. TreeTyped(tree')
  BY <1>1, <1>2 DEF WalksInv, WalksTyped, TreeTyped, With
<1> QED BY <1>2, <1>3, ExportStep DEF RunSound

-----------------------------------------------------------------------------
LEMMA WalksInit == Init => WalksInv
<1> SUFFICES ASSUME Init PROVE WalksInv
  OBVIOUS
<1>1. Corpus(docs) /\ now \in 0..MaxTime
  BY WalksAssumption DEF Init, Corpus
<1>2. TreeTyped(tree)
  <2>1. DOMAIN << >> = {} /\ << >> = [p \in {} |-> << >>[p]]
    OBVIOUS
  <2> QED BY <2>1 DEF Init, TreeTyped
<1>3. WalksSound
  BY DEF Init, WalksSound
<1> QED BY <1>1, <1>2, <1>3 DEF Init, WalksInv, WalksTyped, RunSound

LEMMA WalksNext == WalksInv /\ [Next]_vars => WalksInv'
<1> SUFFICES ASSUME WalksInv, [Next]_vars PROVE WalksInv'
  OBVIOUS
<1>1. CASE UNCHANGED vars
  <2>1. UNCHANGED <<docs, now, reader, run, tree>>
    BY <1>1 DEF vars
  <2>2. RunSound'
    BY <2>1, RunStays DEF WalksInv
  <2> QED BY <2>1, <2>2, ExportStep DEF WalksInv, WalksTyped
<1>2. CASE Next
  <2> DEFINE Goal == WalksInv'
  <2>1. ASSUME NEW d \in Notes, NEW title \in Titles, NEW labels \in SUBSET Labels,
               NEW dir \in {AgentNotes, Wiki, Human, Private}, Insert(d, dir, title, labels)
        PROVE  Goal
    BY <2>1, InsertKeeps
  <2>2. ASSUME NEW d \in Notes, NEW title \in Titles, NEW labels \in SUBSET Labels,
               Replace(d, title, labels)
        PROVE  Goal
    BY <2>2, ReplaceKeeps
  <2>3. ASSUME NEW d \in Notes, NEW dir \in Directories, Promote(d, dir) PROVE Goal
    BY <2>3, PromoteKeeps
  <2>4. ASSUME NEW d \in Notes, NEW status \in {"active", "flagged", "archived"},
               SetStatus(d, status)
        PROVE  Goal
    BY <2>4, SetStatusKeeps
  <2>5. ASSUME NEW d \in Notes, Delete(d) PROVE Goal
    BY <2>5, DeleteKeeps
  <2>6. Tick => Goal
    BY TickKeeps
  <2>7. ASSUME NEW r \in Readers, NEW sort \in Sorts,
               NEW under \in {ReadablePrefixes} \cup {{dir} : dir \in Directories},
               NEW labels \in SUBSET Labels, BeginWalk(r, sort, under, labels)
        PROVE  Goal
    BY <2>7, BeginWalkKeeps
  <2>8. ASSUME NEW r \in Readers, NextPage(r) \/ EndWalk(r) PROVE Goal
    BY <2>8, NextPageKeeps, EndWalkKeeps
  <2>9. ASSUME NEW apply \in BOOLEAN, NEW prune \in BOOLEAN, BeginExport(apply, prune) PROVE Goal
    BY <2>9, BeginExportKeeps
  <2>10. ReadPage \/ WriteFile \/ FindOrphans \/ Unlink \/ Report \/ Stop => Goal
    BY ReadPageKeeps, WriteFileKeeps, FindOrphansKeeps, UnlinkKeeps, ReportKeeps, StopKeeps
  <2>11. ASSUME NEW p \in Paths \cup {IndexPath}, Meddle(p) PROVE Goal
    BY <2>11, MeddleKeeps
  <2> HIDE DEF Goal
  <2>12. Goal
    BY <1>2, <2>1, <2>2, <2>3, <2>4, <2>5, <2>6, <2>7, <2>8, <2>9, <2>10, <2>11 DEF Next
  <2> QED BY <2>12 DEF Goal
<1> QED BY <1>1, <1>2

LEMMA SoundWalksAreFaithful == WalksInv => WalkIsFaithful
<1> SUFFICES ASSUME WalksInv, NEW r \in Readers, reader[r].pc = "walked",
                    NEW d \in Notes \ reader[r].touched
             PROVE  /\ Times(d, reader[r].seen) <= 1
                    /\ d \in reader[r].began /\ d \in Listed(r) => Times(d, reader[r].seen) = 1
  BY DEF WalkIsFaithful
<1>1. NoteSound(r, d)
  BY DEF WalksInv, WalksSound, WalkSound, Idle
<1>2. PICK s : s = reader[r].seen
  OBVIOUS
<1>3. PICK shown : shown = {i \in DOMAIN s : s[i] = d}
  OBVIOUS
<1>4. Times(d, s) = Cardinality(shown)
  BY <1>3 DEF Times
<1>5. shown # {} => \E i : shown = {i}
  BY <1>1, <1>2, <1>3 DEF NoteSound, SawOnce
<1>6. Cardinality(shown) = IF shown = {} THEN 0 ELSE 1
  BY <1>5, FS_EmptySet, FS_Singleton
<1>7. d \in reader[r].began /\ d \in Listed(r) => shown # {}
  BY <1>1, <1>2, <1>3 DEF NoteSound, Saw
<1> QED BY <1>2, <1>4, <1>6, <1>7

LEMMA SoundRunsExportOneCorpus == WalksInv => ExportIsOneCorpus
<1> SUFFICES ASSUME WalksInv, run.pc = "reported"
             PROVE  /\ run.apply => \A p \in DOMAIN Right : RightFile(p)
                    /\ run.apply /\ run.prune => Owned(tree) = DOMAIN Right
                    /\ Without(tree, Owned(tree)) = run.others
  BY DEF ExportIsOneCorpus, Right, RightFile
<1>1. RunPruning("reported") /\ RunLater("reported") /\ Kept
  BY RunKinds DEF WalksInv, RunPruning, RunLater
<1>2. ASSUME run.apply, run.prune PROVE Owned(tree) = DOMAIN Right
  <2>1. Owned(tree) \subseteq DOMAIN Right
    BY <1>1, <1>2 DEF RunPruning, RunLater, Orphans
  <2>2. \A p \in DOMAIN Right : InExport(p) /\ p \in DOMAIN tree
    BY <1>1, <1>2, RightInExport DEF RunPruning, RunLater, RightFile
  <2> QED BY <2>1, <2>2 DEF Owned, InExport
<1> QED BY <1>1, <1>2 DEF RunPruning, Kept

(* However the corpus is written while a client walks the listing, in any  *)
(* of its orders and with pages of any size, a walk that ended showed no   *)
(* note twice, and showed every note of the request that was there from    *)
(* its beginning and was not itself written.                               *)
THEOREM ListingIsFaithful == Spec => []WalkIsFaithful
BY WalksInit, WalksNext, SoundWalksAreFaithful, PTL DEF Spec

(* Whatever was moved, deleted or renamed while an export read, and        *)
(* whatever an earlier one or a hand had left, the export that ends with   *)
(* its report has made its folders what one state of the corpus says, and  *)
(* nothing else of the tree has changed.                                   *)
THEOREM ExportIsFaithful == Spec => []ExportIsOneCorpus
BY WalksInit, WalksNext, SoundRunsExportOneCorpus, PTL DEF Spec

=============================================================================
