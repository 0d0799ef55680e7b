---------------------------- MODULE VaultRepairs ----------------------------
(***************************************************************************)
(* The operator's repairs of a live corpus: scripts/                       *)
(* remap_vault_reference_ids.py, resolve_vault_wikilinks.py (with          *)
(* app/vault/wikilinks.py), backfill_vault_summaries.py and                *)
(* import_vault_wiki.py, run while the governed writers of the service go  *)
(* on.                                                                     *)
(*                                                                         *)
(* Each reads first and writes later.  The remap takes no lock and checks  *)
(* nothing when it writes; the resolver holds the corpus lock from its     *)
(* read on, and compares what it overwrites, since the remap does not wait *)
(* for it; the backfill takes the lock only to write, and checks the       *)
(* revision, because an agent and an embedding provider come in between;   *)
(* the import does too, and plans again under the lock what it planned.    *)
(* None of the first two moves content_revision.                           *)
(*                                                                         *)
(* A reference is a document id, something else in the shape of one (an id *)
(* of an earlier import, a bare slug), which nobody checks, or a name: a   *)
(* [[wikilink]] somebody's import stored where an id belongs.  A name is   *)
(* the title of what it names, or the title it had when its path, which is *)
(* never renamed here, was made.                                           *)
(*                                                                         *)
(* A definition named ...Mutant is a way the one it precedes could be      *)
(* wrong; nothing refers to it.                                            *)
(***************************************************************************)
EXTENDS Integers, SequencesExt

CONSTANTS
    Ids,        \* vault_documents.id
    Formers,    \* what has the shape of an id and no row has: ids of earlier
                \* imports, bare slugs
    Names,      \* titles
    Reqs,       \* a script or a request in flight
    Classes,    \* what the import maps say: sets of ids of one document
    Lists,      \* related_ids a governed writer may store: no names
    Corpora,    \* the corpora the scripts may find
    Files,      \* the wiki pages to import: file -> Title, Related and SourceIDs
    Slugs,      \* all the files whose name a page may have
    Mints,      \* the ids an import may mint: file -> id
    MaxRev      \* bound: the last content revision explored

NoSummary == 0
NoFile == "none"    \* of a note

Refs == Ids \cup Formers \cup Names
(* A text, and the summary about it, go by the revision that brought it.   *)
Row == [rev : 1..MaxRev, text : 1..MaxRev, title : Names, slug : Names,
        summary : 0..MaxRev, refs : Seq(Refs), kept : SUBSET Seq(Refs),
        file : Slugs \cup {NoFile}]

ASSUME RepairsAssumption ==
    /\ MaxRev \in Nat \ {0}
    /\ Ids \cap Formers = {} /\ (Ids \cup Formers) \cap Names = {}
    /\ Classes \subseteq SUBSET (Ids \cup Formers)
    /\ \A C, D \in Classes : C = D \/ C \cap D = {}
    /\ Lists \subseteq Seq(Ids \cup Formers)
    /\ DOMAIN Files \subseteq Slugs /\ IsFiniteSet(DOMAIN Files) /\ NoFile \notin Slugs
    /\ Files \in [DOMAIN Files -> [title : Names, related : Seq(Refs),
                                    sources : Seq(Ids \cup Formers)]]
    /\ Mints \subseteq Injection(DOMAIN Files, Ids)
    /\ \A c \in Corpora : /\ DOMAIN c \subseteq Ids /\ IsFiniteSet(DOMAIN c)
                          /\ c \in [DOMAIN c -> Row]
                          /\ \A d \in DOMAIN c : c[d].text <= c[d].rev

VARIABLES
    docs,       \* vault_documents; a summary is the text it is about, and kept
                \* the list preserved in the frontmatter, if one is
    vectors,    \* vault_document_embeddings: the text and summary embedded
    req,        \* the scripts and the handlers
    said,       \* history: document -> references last stored for it by an
                \* import or by a governed writer
    resolved,   \* history: <<document, name, id>> where the name was that
                \* document's alone when the link was resolved
    raced       \* history: documents a remap wrote although they had moved

vars == <<docs, vectors, req, said, resolved, raced>>
history == <<said, resolved, raced>>

-----------------------------------------------------------------------------
Idle == [pc |-> "idle"]
Goto(r, q) == req' = [req EXCEPT ![r] = q]
Finish(r) == Goto(r, Idle)

Without(f, S) == [x \in DOMAIN f \ S |-> f[x]]
With(f, x, y) == [z \in DOMAIN f \cup {x} |-> IF z = x THEN y ELSE f[z]]
Over(f, g) == [z \in DOMAIN f \cup DOMAIN g |-> IF z \in DOMAIN f THEN f[z] ELSE g[z]]
Elements(s) == ToSet(s)

(* The corpus lock, when a script keeps it from one action to the next.    *)
Locked == \E r \in Reqs : req[r].pc = "resolve"

Embedded(row) == <<row.text, row.summary>>

Init ==
    /\ docs \in Corpora
    /\ vectors = [d \in DOMAIN docs |-> Embedded(docs[d])]
    /\ req = [r \in Reqs |-> Idle]
    /\ said = [d \in DOMAIN docs |-> docs[d].refs]
    /\ resolved = {} /\ raced = {}

-----------------------------------------------------------------------------
(* The governed writers, each in the transaction that holds the lock.      *)

(* No id is minted twice.                                                  *)
Reserved == UNION {Range(m) : m \in Mints}

Store(d, row, refs) ==
    /\ docs' = With(docs, d, row)
    /\ vectors' = With(vectors, d, Embedded(row))
    /\ said' = With(said, d, refs)

Contribute(d, title) ==
    /\ ~Locked
    /\ d \notin DOMAIN said \cup Reserved
    /\ Store(d, [rev |-> 1, text |-> 1, title |-> title, slug |-> title,
                 summary |-> NoSummary, refs |-> << >>, kept |-> {}, file |-> NoFile], << >>)
    /\ UNCHANGED <<req, resolved, raced>>

(* A full update: the caller's title, text, summary and references; the    *)
(* path stays.                                                             *)
Update(d, title, refs, summarised) ==
    /\ ~Locked
    /\ d \in DOMAIN docs /\ docs[d].rev < MaxRev
    /\ LET text == docs[d].rev + 1
       IN Store(d, [docs[d] EXCEPT !.rev = @ + 1, !.text = text,
                                   !.title = title, !.refs = refs,
                                   !.summary = IF summarised THEN text ELSE NoSummary], refs)
    /\ raced' = raced \ {d}
    /\ UNCHANGED <<req, resolved>>

(* An amendment of the body, accepted: what it does not change it writes   *)
(* back as it was read.                                                    *)
BeginAmend(r, d) ==
    /\ req[r] = Idle
    /\ d \in DOMAIN docs
    /\ Goto(r, [pc |-> "amend", doc |-> d, row |-> docs[d]])
    /\ UNCHANGED <<docs, vectors, history>>

Amend(r) ==
    /\ req[r].pc = "amend"
    /\ ~Locked
    /\ Finish(r)
    /\ LET d == req[r].doc
           row == req[r].row
           new == [row EXCEPT !.rev = @ + 1, !.text = row.rev + 1]
           onBase == d \in DOMAIN docs /\ docs[d].rev = row.rev
       IN \/ ~onBase /\ UNCHANGED <<docs, vectors, said>>
          \/ /\ onBase /\ row.rev < MaxRev
             /\ Store(d, [new EXCEPT !.kept = docs[d].kept], said[d])
    /\ UNCHANGED <<resolved, raced>>

Retire(d) ==
    /\ ~Locked
    /\ d \in DOMAIN docs
    /\ docs' = Without(docs, {d})
    /\ vectors' = Without(vectors, {d})
    /\ UNCHANGED <<req, history>>

-----------------------------------------------------------------------------
(* remap_vault_reference_ids                                               *)

(* resolve: an id means the one live document of its class, if it is one.  *)
Canonical(live, x) ==
    IF \E C \in Classes : x \in C /\ Cardinality(C \cap live) = 1
      THEN CHOOSE d \in live : \E C \in Classes : {x, d} \subseteq C
      ELSE x
Remapped(live, s) == [i \in DOMAIN s |-> Canonical(live, s[i])]

Remap(r) ==
    /\ req[r] = Idle
    /\ LET New(d) == Remapped(DOMAIN docs, docs[d].refs)
           moved == {d \in DOMAIN docs : New(d) # docs[d].refs}
       IN /\ moved # {}
          /\ Goto(r, [pc |-> "remap", changes |-> [d \in moved |-> New(d)],
                      revs |-> [d \in moved |-> docs[d].rev]])
    /\ UNCHANGED <<docs, vectors, history>>

(* The whole column, over whatever is there.                               *)
RemapWrite(r) ==
    /\ req[r].pc = "remap"
    /\ Finish(r)
    /\ LET new == req[r].changes
       IN /\ docs' = [d \in DOMAIN docs |->
                        IF d \in DOMAIN new THEN [docs[d] EXCEPT !.refs = new[d]] ELSE docs[d]]
          /\ raced' = raced \cup {d \in DOMAIN new \cap DOMAIN docs :
                                    docs[d].rev # req[r].revs[d]}
    /\ UNCHANGED <<vectors, said, resolved>>

-----------------------------------------------------------------------------
(* resolve_vault_wikilinks                                                 *)

(* LinkIndex, and its candidates: a title that matches goes before the     *)
(* name in a path.                                                         *)
Link(row) == [title |-> row.title, slug |-> row.slug]
Index == [d \in DOMAIN docs |-> Link(docs[d])]
Titled(index, name) == {d \in DOMAIN index : index[d].title = name}
Candidates(index, name) ==
    IF Titled(index, name) # {} THEN Titled(index, name)
    ELSE {d \in DOMAIN index : index[d].slug = name}
Target(index, name) == CHOOSE d \in Candidates(index, name) : TRUE
Resolvable(index, s) ==
    {x \in Elements(s) \cap Names : Cardinality(Candidates(index, x)) = 1}
Dropped(index, s) == {x \in Elements(s) \cap Names : Candidates(index, x) = {}}

(* resolve_edges: order stays; a document resolved to is listed once, and  *)
(* where its id is listed already, if it is.                               *)
Value(index, s, x) == IF x \in Resolvable(index, s) THEN Target(index, x) ELSE x
Redundant(index, s, i) ==
    /\ s[i] \in Resolvable(index, s)
    /\ \/ Value(index, s, s[i]) \in Elements(s)
       \/ \E j \in 1..(i - 1) : /\ s[j] \in Names
                                /\ Value(index, s, s[j]) = Value(index, s, s[i])
Left(index, s) ==
    {i \in DOMAIN s : s[i] \notin Dropped(index, s) /\ ~Redundant(index, s, i)}
Place(S, k) == CHOOSE i \in S : Cardinality({j \in S : j <= i}) = k
Resolution(index, s) ==
    [k \in 1..Cardinality(Left(index, s)) |-> Value(index, s, s[Place(Left(index, s), k)])]

(* plan: a row about to lose a link that nothing else preserves is left    *)
(* alone, and the first list rewritten is the one that is kept.            *)
ConflictMutant(row) == FALSE
Conflict(row) == Dropped(Index, row.refs) # {} /\ ~(row.kept \subseteq {row.refs})
Rewrites ==
    {d \in DOMAIN docs :
        /\ Resolvable(Index, docs[d].refs) \cup Dropped(Index, docs[d].refs) # {}
        /\ ~Conflict(docs[d])}
Resolve(r) ==
    /\ req[r] = Idle /\ ~Locked
    /\ Rewrites # {}
    /\ Goto(r, [pc |-> "resolve",
                changes |-> [d \in Rewrites |->
                   [before |-> docs[d].refs, after |-> Resolution(Index, docs[d].refs)]]])
    /\ UNCHANGED <<docs, vectors, history>>

(* Compare and set, one row at a time.                                     *)
Unmoved(d, change) == d \in DOMAIN docs /\ docs[d].refs = change.before
ResolveWrite(r) ==
    /\ req[r].pc = "resolve"
    /\ Finish(r)
    /\ LET changes == req[r].changes
           written == {d \in DOMAIN changes : Unmoved(d, changes[d])}
       IN /\ docs' = [d \in DOMAIN docs |->
                        IF d \in written
                          THEN [docs[d] EXCEPT !.refs = changes[d].after,
                                               !.kept = IF @ = {} THEN {changes[d].before}
                                                                  ELSE @]
                          ELSE docs[d]]
          /\ resolved' = resolved \cup
                {<<e[1], e[2], Target(Index, e[2])>> : e \in
                    {e \in written \X Names : e[2] \in Resolvable(Index, docs[e[1]].refs)}}
    /\ UNCHANGED <<vectors, said, raced>>

-----------------------------------------------------------------------------
(* backfill_vault_summaries                                                *)

Undescribed == {d \in DOMAIN docs : docs[d].summary = NoSummary}

(* --emit: the work file says what each summary will be written about.     *)
Emit(r, S) ==
    /\ req[r] = Idle
    /\ S # {}
    /\ Goto(r, [pc |-> "author", file |-> [d \in S |-> [rev |-> docs[d].rev,
                                                       about |-> docs[d].text]]])
    /\ UNCHANGED <<docs, vectors, history>>

(* --from, up to the provider's answer: one entry about a text the note no *)
(* longer has refuses the file; a note that needs none is skipped.         *)
AboutItMutant(d, entry) == TRUE
AboutIt(d, entry) == docs[d].rev = entry.rev
Load(r) ==
    /\ req[r].pc = "author"
    /\ LET file == req[r].file
           work == DOMAIN file \cap Undescribed
       IN IF work # {} /\ \A d \in work : AboutIt(d, file[d])
            THEN Goto(r, [pc |-> "apply",
                          work |-> [d \in work |-> [rev |-> docs[d].rev, text |-> docs[d].text,
                                                    about |-> file[d].about]]])
            ELSE Finish(r)
    /\ UNCHANGED <<docs, vectors, history>>

(* write: every row whose predicate still holds, and no duplicate gate.    *)
WritableMutant(d, item) == d \in Undescribed
Writable(d, item) == d \in Undescribed /\ docs[d].rev = item.rev
WriteSummaries(r) ==
    /\ req[r].pc = "apply"
    /\ ~Locked
    /\ Finish(r)
    /\ LET work == req[r].work
           written == {d \in DOMAIN work : Writable(d, work[d]) /\ docs[d].rev < MaxRev}
       IN /\ docs' = [d \in DOMAIN docs |->
                        IF d \in written
                          THEN [docs[d] EXCEPT !.summary = work[d].about, !.rev = @ + 1]
                          ELSE docs[d]]
          /\ vectors' = [d \in DOMAIN vectors |->
                           IF d \in written THEN <<work[d].text, work[d].about>> ELSE vectors[d]]
    /\ UNCHANGED history

-----------------------------------------------------------------------------
(* import_vault_wiki                                                       *)

(* plan_pages resolves the names over the corpus and the pages that are    *)
(* about to join it, ...                                                   *)
Joined(minted) ==
    [d \in DOMAIN docs \cup Range(minted) |->
        IF d \in DOMAIN docs THEN Link(docs[d])
        ELSE LET file == Files[CHOOSE f \in DOMAIN Files : minted[f] = d]
             IN [title |-> file.title, slug |-> file.title]]
(* ... and resolve_page_source_ids the ids, but those of SourceIDs only.   *)
Notes == {d \in DOMAIN docs : docs[d].file = NoFile}
Cited(minted, f) ==
    Resolution(Joined(minted), Files[f].related) \o Remapped(Notes, Files[f].sources)

Links(minted, f) ==
    {<<minted[f], x, Target(Joined(minted), x)>> :
        x \in Resolvable(Joined(minted), Files[f].related)}

(* No page is there yet, no class has two live notes, no name is ambiguous *)
(* and every source is a note.                                             *)
Claimed == \E d \in DOMAIN docs : docs[d].file \in DOMAIN Files
Plannable(minted) ==
    /\ \A C \in Classes : Cardinality(C \cap Notes) <= 1
    /\ \A f \in DOMAIN Files :
        /\ Elements(Files[f].related) \cap Names
             \subseteq Resolvable(Joined(minted), Files[f].related)
                          \cup Dropped(Joined(minted), Files[f].related)
        /\ Elements(Remapped(Notes, Files[f].sources)) \subseteq Notes

(* Planned from a plain read; then every page is embedded.                 *)
Import(r, minted) ==
    /\ req[r] = Idle
    /\ Range(minted) \cap DOMAIN said = {}
    /\ \A q \in Reqs : req[q].pc = "import" => Range(minted) \cap Range(req[q].minted) = {}
    /\ ~Claimed /\ Plannable(minted)
    /\ Goto(r, [pc |-> "import", minted |-> minted,
                cited |-> [f \in DOMAIN Files |-> Cited(minted, f)],
                links |-> UNION {Links(minted, f) : f \in DOMAIN Files}])
    /\ UNCHANGED <<docs, vectors, history>>

(* _revalidate_under_lock                                                  *)
StillPlannedMutant(minted, cited) == ~Claimed
StillPlanned(minted, cited) ==
    /\ ~Claimed /\ Plannable(minted)
    /\ \A f \in DOMAIN Files : Cited(minted, f) = cited[f]

(* All the pages, each with its summary and its Related as written, or     *)
(* none.                                                                   *)
ImportWrite(r) ==
    /\ req[r].pc = "import"
    /\ ~Locked
    /\ Finish(r)
    /\ LET minted == req[r].minted
           Page(f) == [rev |-> 1, text |-> 1, title |-> Files[f].title, slug |-> Files[f].title,
                       summary |-> 1, refs |-> req[r].cited[f], file |-> f,
                       kept |-> IF Files[f].related = << >> THEN {} ELSE {Files[f].related}]
           pages == [d \in Range(minted) |-> Page(CHOOSE f \in DOMAIN Files : minted[f] = d)]
       IN IF StillPlanned(minted, req[r].cited)
            THEN /\ docs' = Over(pages, docs)
                 /\ vectors' = Over([d \in DOMAIN pages |-> Embedded(pages[d])], vectors)
                 /\ said' = Over([d \in DOMAIN pages |-> Files[pages[d].file].related
                                                           \o Files[pages[d].file].sources], said)
                 /\ resolved' = resolved \cup req[r].links
            ELSE UNCHANGED <<docs, vectors, said, resolved>>
    /\ UNCHANGED raced

(* The script is stopped, or the request is lost, before it commits.       *)
Lose(r) ==
    /\ req[r] # Idle
    /\ Finish(r)
    /\ UNCHANGED <<docs, vectors, history>>

Next ==
    \/ \E d \in Ids : \/ \E title \in Names : Contribute(d, title)
                      \/ \E title \in Names, refs \in Lists, s \in BOOLEAN :
                            Update(d, title, refs, s)
                      \/ Retire(d)
    \/ \E r \in Reqs :
        \/ \E d \in Ids : BeginAmend(r, d)
        \/ Amend(r)
        \/ Remap(r) \/ RemapWrite(r)
        \/ Resolve(r) \/ ResolveWrite(r)
        \/ \E S \in SUBSET Undescribed : Emit(r, S)
        \/ Load(r) \/ WriteSummaries(r)
        \/ \E minted \in Mints : Import(r, minted)
        \/ ImportWrite(r)
        \/ Lose(r)

Spec == Init /\ [][Next]_vars

-----------------------------------------------------------------------------
(* Properties.                                                             *)

(* The same document under two of its ids.                                 *)
Same(x, y) == x = y \/ \E C \in Classes : {x, y} \subseteq C

(* A document says what its last governed writer, or its import, made it   *)
(* say, whatever the repairs did and in whatever order: an id is still     *)
(* there, perhaps under the document's present id; a name is there, or is  *)
(* in the copy that was kept, or became the id of the only document it     *)
(* could mean; and nothing else is there.  The exception is a document     *)
(* that was written between the read and the write of a remap.             *)
Means(d, x, y) == Same(x, y) \/ \E z \in Ids : <<d, x, z>> \in resolved /\ Same(z, y)
Stands(d, x) ==
    \/ \E y \in Elements(docs[d].refs) : Means(d, x, y)
    \/ \E list \in docs[d].kept : x \in Elements(list)
Explained(d, y) == \E x \in Elements(said[d]) : Means(d, x, y)
EdgesMeanWhatWasSaid ==
    \A d \in DOMAIN docs \ raced :
        /\ \A x \in Elements(said[d]) : Stands(d, x)
        /\ \A y \in Elements(docs[d].refs) : Explained(d, y)

(* A stored vector describes the text and the summary of its row, the      *)
(* backfill's vectors included, which were computed from a copy.           *)
EmbeddingFollows == \A d \in DOMAIN docs : vectors[d] = Embedded(docs[d])

(* A summary that is added is about the text the note has, although it was *)
(* written from a file exported at some earlier time, and it never takes   *)
(* the place of one that an agent added in between.                        *)
SummariesFit ==
    [][\A d \in DOMAIN docs \cap DOMAIN docs' :
          docs'[d].summary # docs[d].summary =>
             \/ docs[d].summary = NoSummary /\ docs'[d].summary = docs'[d].text
             \/ docs'[d].text # docs[d].text]_vars

(* An import of the wiki takes place as a whole and once, however many are *)
(* run side by side; and at that moment, though its pages were planned,    *)
(* and embedded one by one, over an earlier corpus: every source of a page *)
(* is a note that is there; every name in its Related that anything bears  *)
(* has become the id of the only document that bears it; and whatever else *)
(* the page cites stands in its Related as it is, in the shape of an id,   *)
(* which the code does not check.                                          *)
Joins(d) == d \in DOMAIN docs' \ DOMAIN docs /\ docs'[d].file # NoFile
Bears(d, name) ==
    \/ docs'[d].title = name
    \/ docs'[d].slug = name /\ \A o \in DOMAIN docs' : docs'[o].title # name
TrueTo(row, page) ==
    /\ \A x \in Elements(page.sources) :
          \E y \in Elements(row.refs) \cap DOMAIN docs' : Same(x, y) /\ docs'[y].file = NoFile
    /\ \A x \in Elements(page.related) \cap Names, e \in DOMAIN docs' :
          Bears(e, x) => /\ e \in Elements(row.refs)
                         /\ \A o \in DOMAIN docs' : Bears(o, x) => o = e
    /\ Elements(row.refs) \subseteq DOMAIN docs' \cup (Elements(page.related) \ Names)
ImportsAreTrue ==
    [][\A d \in DOMAIN docs' : Joins(d) =>
          /\ DOMAIN Files \subseteq {docs'[e].file : e \in {e \in DOMAIN docs' : Joins(e)}}
          /\ \A e \in DOMAIN docs' : docs'[e].file = docs'[d].file => e = d
          /\ TrueTo(docs'[d], Files[docs'[d].file])]_vars

=============================================================================
