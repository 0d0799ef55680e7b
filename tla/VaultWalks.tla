----------------------------- MODULE VaultWalks -----------------------------
(***************************************************************************)
(* Reading a whole corpus while it changes: the listing of routes.py, a    *)
(* page at a time by keyset (cursors.py, path_page_statement), and the     *)
(* export of export.py and scripts/export_vault_markdown.py, which pages   *)
(* through one snapshot and then makes a tree of files equal to it.        *)
(*                                                                         *)
(* What writes the corpus belongs to other modules; here a write is what   *)
(* it does to the columns that a walk orders, filters or renders by.       *)
(* Positions are sequences of numbers, compared as the database compares   *)
(* rows: paths <<directory, slug, suffix>>, titles, times, and ids.        *)
(*                                                                         *)
(* A definition named ...Mutant is a way the one it precedes could be      *)
(* wrong; nothing refers to it.                                            *)
(***************************************************************************)
EXTENDS Integers, SequencesExt

CONSTANTS
    Notes,      \* vault_documents.id, numbers
    Titles,     \* numbers; a title is its own slug
    Readers,    \* clients that walk the listing
    Labels,     \* tags and facet pairs
    Limit,      \* the limit of a listing request
    PageSize,   \* page_size of VaultExportService
    Cites,      \* note -> the notes it is related to
    Corpora,    \* the corpora a walk may find
    MaxTime     \* bound: the last instant explored

(* Directories, in the order of their paths.                               *)
Candidates == 1     \* Agent/Promotion Candidates/
AgentNotes == 2     \* Agent/notes/
Wiki == 3           \* Agent/wiki/
Human == 4          \* a folder agents may read
Private == 5        \* a folder they may not
Directories == Candidates..Private

(* READABLE_PATH_PREFIXES, EXPORTED_ and CORPUS_OWNED_PATH_PREFIXES        *)
ReadablePrefixes == Candidates..Human
ExportedPrefixes == Candidates..Wiki
OwnedPrefixes == Candidates..Wiki
IndexPath == <<Wiki, 0, 1>>     \* WIKI_INDEX_PATH, which is no page's slug

Sorts == {"path", "title", "updated", "created"}
Start == << >>      \* no cursor

Row == [path : Directories \X (Nat \ {0}) \X (Nat \ {0}), title : Titles,
        labels : SUBSET Labels, created : 0..MaxTime, updated : 0..MaxTime,
        status : {"active", "flagged", "archived"}]

ASSUME WalksAssumption ==
    /\ Notes \subseteq Nat /\ IsFiniteSet(Notes) /\ Titles \subseteq Nat \ {0}
    /\ {Limit, PageSize} \subseteq Nat \ {0} /\ MaxTime \in Nat
    /\ Cites \in [Notes -> SUBSET Notes]
    /\ \A c \in Corpora : DOMAIN c \subseteq Notes /\ c \in [DOMAIN c -> Row]

VARIABLES
    docs,       \* vault_documents
    now,        \* the database's clock
    reader,     \* the walks of the clients
    run,        \* the export that is running, if one is; others is for the
                \* properties, the files outside its folders when it began
    tree        \* the directory exported into: path -> content

vars == <<docs, now, reader, run, tree>>

Idle == [pc |-> "idle"]
With(f, x, y) == [z \in DOMAIN f \cup {x} |-> IF z = x THEN y ELSE f[z]]
Without(f, S) == [x \in DOMAIN f \ S |-> f[x]]

-----------------------------------------------------------------------------
(* One page of an ordered walk: path_page_statement.                       *)

Before(s, t) ==
    \E i \in DOMAIN s : s[i] < t[i] /\ \A j \in 1..(i - 1) : s[j] = t[j]

(* SORT_KEYS                                                               *)
Key(row, sort) ==
    CASE sort = "path" -> row.path
      [] sort = "title" -> <<row.title>>
      [] sort = "updated" -> <<row.updated>>
      [] sort = "created" -> <<row.created>>
Descending(sort) == sort \in {"updated", "created"}

(* _ordering: the id breaks the ties, in the direction of the key.         *)
PositionMutant(rows, d, sort) == Key(rows[d], sort)
Position(rows, d, sort) == Append(Key(rows[d], sort), d)
Follows(s, t, sort) == IF Descending(sort) THEN Before(s, t) ELSE Before(t, s)

(* The first ids of S, at most so many, that follow a position.            *)
Page(rows, S, sort, after, limit) ==
    LET rest == {d \in S : after = Start \/ Follows(Position(rows, d, sort), after, sort)}
        later(d, e) == Follows(Position(rows, d, sort), Position(rows, e, sort), sort)
    IN CHOOSE s \in [1..Min({limit, Cardinality(rest)}) -> rest] :
          \A i \in DOMAIN s :
             /\ \A j \in 1..(i - 1) : s[j] # s[i] /\ ~later(s[j], s[i])
             /\ \A d \in rest \ ToSet(s) : ~later(s[i], d)

Under(rows, prefixes) == {d \in DOMAIN rows : rows[d].path[1] \in prefixes}

-----------------------------------------------------------------------------
(* The writers.                                                            *)

Paths == Directories \X Titles \X (1..Cardinality(Notes))
Taken(except) == {docs[d].path : d \in DOMAIN docs \ except}

(* resolve_vault_path: the first suffix that is free.                      *)
Resolved(dir, title, except) ==
    LET free == {k \in 1..Cardinality(Notes) : <<dir, title, k>> \notin Taken(except)}
    IN <<dir, title, CHOOSE k \in free : \A j \in free : k <= j>>

(* A walk may miss, or see twice, a note that is written while it goes on. *)
Touch(d) ==
    reader' = [r \in Readers |->
                 IF reader[r] = Idle \/ d \notin DOMAIN docs THEN reader[r]
                 ELSE [reader[r] EXCEPT !.touched = @ \cup {d}]]

Write(d, row) ==
    /\ docs' = With(docs, d, row)
    /\ Touch(d)
    /\ UNCHANGED <<now, run, tree>>

(* A contribution, a page of a compile run, or a file a human wrote and    *)
(* somebody loaded, which keeps its path.                                  *)
Insert(d, dir, title, labels) ==
    /\ d \notin DOMAIN docs
    /\ Write(d, [path |-> Resolved(dir, title, {}), title |-> title, labels |-> labels,
                 created |-> now, updated |-> now, status |-> "active"])

(* replace_content, set_summary: the path stays.                           *)
Replace(d, title, labels) ==
    /\ d \in DOMAIN docs
    /\ Write(d, [docs[d] EXCEPT !.title = title, !.labels = labels, !.updated = now])

(* set_promotion_status: into the folder of candidates or back home.       *)
Promote(d, dir) ==
    /\ d \in DOMAIN docs
    /\ {docs[d].path[1], dir} = {Candidates, AgentNotes}
    /\ Write(d, [docs[d] EXCEPT !.path = Resolved(dir, docs[d].title, {d})])

(* set_status                                                              *)
SetStatus(d, status) ==
    /\ d \in DOMAIN docs /\ docs[d].status # status
    /\ Write(d, [docs[d] EXCEPT !.status = status])

(* delete                                                                  *)
Delete(d) ==
    /\ d \in DOMAIN docs
    /\ docs' = Without(docs, {d})
    /\ Touch(d)
    /\ UNCHANGED <<now, run, tree>>

Tick ==
    /\ now < MaxTime
    /\ now' = now + 1
    /\ UNCHANGED <<docs, reader, run, tree>>

-----------------------------------------------------------------------------
(* The listing: each page is a transaction of its own.                     *)

(* READABLE_STATUSES, the prefixes and every label asked for.              *)
Listed(r) ==
    {d \in Under(docs, reader[r].under \cap ReadablePrefixes) :
        docs[d].status \in {"active", "archived"} /\ reader[r].labels \subseteq docs[d].labels}

BeginWalk(r, sort, under, labels) ==
    /\ reader[r] = Idle
    /\ reader' = [reader EXCEPT ![r] =
                    [pc |-> "walking", sort |-> sort, under |-> under, labels |-> labels,
                     after |-> Start, seen |-> << >>, touched |-> {}, began |-> DOMAIN docs]]
    /\ UNCHANGED <<docs, now, run, tree>>

(* One row more than the page says whether there is a next one; its cursor *)
(* names the last row shown, by the position it had in this order.         *)
NextPage(r) ==
    /\ reader[r].pc = "walking"
    /\ LET sort == reader[r].sort
           found == Page(docs, Listed(r), sort, reader[r].after, Limit + 1)
           hasMore == Len(found) > Limit
           visible == IF hasMore THEN Front(found) ELSE found
       IN reader' = [reader EXCEPT
            ![r].seen = @ \o visible,
            ![r].after = IF hasMore THEN Position(docs, Last(visible), sort) ELSE Start,
            ![r].pc = IF hasMore THEN "walking" ELSE "walked"]
    /\ UNCHANGED <<docs, now, run, tree>>

(* The client has enough; or it shows its cursor to another order, which   *)
(* decode_cursor refuses, and has to start again.                          *)
EndWalk(r) ==
    /\ reader[r] # Idle
    /\ reader' = [reader EXCEPT ![r] = Idle]
    /\ UNCHANGED <<docs, now, run, tree>>

-----------------------------------------------------------------------------
(* The export.                                                             *)

(* render_edges: by the slug, and only to what is exported with it.        *)
Slug(row) == Tail(row.path)
Links(d, rows) == {Slug(rows[e]) : e \in Cites[d] \cap DOMAIN rows}

(* render_document, of the columns that change here; every value is the    *)
(* row's or its neighbour's, and none is the clock's.                      *)
Rendered(d, rows) ==
    [id |-> d, title |-> rows[d].title, labels |-> rows[d].labels, status |-> rows[d].status,
     created |-> rows[d].created, updated |-> rows[d].updated, links |-> Links(d, rows)]

(* render_wiki_index                                                       *)
Pages(rows) == Under(rows, {Wiki})
RenderedIndex(rows) ==
    [pages |-> {Slug(rows[d]) : d \in Pages(rows)},
     created |-> Min({rows[d].created : d \in Pages(rows)}),
     updated |-> Max({rows[d].updated : d \in Pages(rows)})]

(* What a tree should hold for these rows: path -> content.                *)
Expected(rows) ==
    LET Holder(p) == CHOOSE d \in DOMAIN rows : rows[d].path = p
        files == {rows[d].path : d \in DOMAIN rows}
                   \cup (IF Pages(rows) = {} THEN {} ELSE {IndexPath})
    IN [p \in files |-> IF p = IndexPath THEN RenderedIndex(rows) ELSE Rendered(Holder(p), rows)]

Owned(files) == {p \in DOMAIN files : p[1] \in OwnedPrefixes}

(* REPEATABLE READ: every page reads what the first one did.               *)
ReadsMutant == docs
Reads == run.snapshot

BeginExport(apply, prune) ==
    /\ run = Idle
    /\ run' = [pc |-> "reading", apply |-> apply, prune |-> prune, snapshot |-> docs,
               after |-> Start, rows |-> << >>, others |-> Without(tree, Owned(tree))]
    /\ UNCHANGED <<docs, now, reader, tree>>

(* documents, up to the first empty page.                                  *)
ReadPage ==
    /\ run.pc = "reading"
    /\ LET page == Page(Reads, Under(Reads, ExportedPrefixes), "path", run.after, PageSize)
       IN run' = IF page = << >>
                   THEN [pc |-> "writing", apply |-> run.apply, prune |-> run.prune,
                         snapshot |-> run.snapshot, others |-> run.others,
                         todo |-> Expected(run.rows), expected |-> DOMAIN Expected(run.rows)]
                   ELSE [run EXCEPT !.after = Position(Reads, Last(page), "path"),
                                    !.rows = [d \in DOMAIN @ \cup ToSet(page) |->
                                        IF d \in ToSet(page) THEN Reads[d] ELSE run.rows[d]]]
    /\ UNCHANGED <<docs, now, reader, tree>>

(* In the order of the paths, the index last.                              *)
Turn(p) == IF p = IndexPath THEN <<Private>> ELSE p
First(files) == CHOOSE p \in files : \A q \in files : p = q \/ Before(Turn(p), Turn(q))

(* A file that has the content already is left alone.                      *)
WriteFile ==
    /\ run.pc = "writing" /\ run.todo # << >>
    /\ LET p == First(DOMAIN run.todo)
       IN /\ run' = [run EXCEPT !.todo = Without(@, {p})]
          /\ tree' = IF run.apply THEN With(tree, p, run.todo[p]) ELSE tree
    /\ UNCHANGED <<docs, now, reader>>

(* _orphaned_files                                                         *)
Orphans(expected) == Owned(tree) \ expected

FindOrphans ==
    /\ run.pc = "writing" /\ run.todo = << >>
    /\ run' = [run EXCEPT !.pc = "pruning",
                          !.todo = IF run.prune /\ run.apply THEN Orphans(run.expected) ELSE {}]
    /\ UNCHANGED <<docs, now, reader, tree>>

Unlink ==
    /\ run.pc = "pruning" /\ run.todo # {}
    /\ LET p == First(run.todo)
       IN run' = [run EXCEPT !.todo = @ \ {p}] /\ tree' = Without(tree, {p})
    /\ UNCHANGED <<docs, now, reader>>

Report ==
    /\ run.pc = "pruning" /\ run.todo = {}
    /\ run' = [run EXCEPT !.pc = "reported"]
    /\ UNCHANGED <<docs, now, reader, tree>>

(* The script ends, or is stopped, perhaps in the middle of a file.        *)
Torn == [id |-> "torn"]
Stop ==
    /\ run # Idle
    /\ run' = Idle
    /\ \/ UNCHANGED tree
       \/ /\ run.pc = "writing" /\ run.apply /\ run.todo # << >>
          /\ LET p == First(DOMAIN run.todo)
             IN /\ p \in DOMAIN tree => tree[p] # run.todo[p]
                /\ tree' = With(tree, p, Torn)
    /\ UNCHANGED <<docs, now, reader>>

(* Somebody puts a file of his own in the tree, while nothing runs.        *)
ByHand == [id |-> "hand"]
Meddle(p) ==
    /\ run = Idle
    /\ tree' = With(tree, p, ByHand)
    /\ UNCHANGED <<docs, now, reader, run>>

-----------------------------------------------------------------------------
Init ==
    /\ docs \in Corpora /\ now = 0
    /\ reader = [r \in Readers |-> Idle]
    /\ run = Idle /\ tree = << >>

Next ==
    \/ \E d \in Notes :
        \/ \E title \in Titles, labels \in SUBSET Labels :
              \/ \E dir \in {AgentNotes, Wiki, Human, Private} : Insert(d, dir, title, labels)
              \/ Replace(d, title, labels)
        \/ \E dir \in Directories : Promote(d, dir)
        \/ \E status \in {"active", "flagged", "archived"} : SetStatus(d, status)
        \/ Delete(d)
    \/ Tick
    \/ \E r \in Readers :
        \/ \E sort \in Sorts, under \in {ReadablePrefixes} \cup {{dir} : dir \in Directories},
              labels \in SUBSET Labels : BeginWalk(r, sort, under, labels)
        \/ NextPage(r) \/ EndWalk(r)
    \/ \E apply, prune \in BOOLEAN : BeginExport(apply, prune)
    \/ ReadPage \/ WriteFile \/ FindOrphans \/ Unlink \/ Report \/ Stop
    \/ \E p \in Paths \cup {IndexPath} : Meddle(p)

Spec == Init /\ [][Next]_vars

-----------------------------------------------------------------------------
(* Properties.                                                             *)

(* A client that walked the listing to its end, in whatever order, while   *)
(* the corpus was written, saw every note it asked for exactly once, the   *)
(* ones that share a time or a title included, unless the note itself was  *)
(* written meanwhile; and it saw no note twice that appeared meanwhile.    *)
Times(d, s) == Cardinality({i \in DOMAIN s : s[i] = d})
WalkIsFaithful ==
    \A r \in Readers : reader[r].pc = "walked" =>
        \A d \in Notes \ reader[r].touched :
            /\ Times(d, reader[r].seen) <= 1
            /\ d \in reader[r].began /\ d \in Listed(r) => Times(d, reader[r].seen) = 1

(* An export that comes to its end has made the tree what the corpus was   *)
(* at one moment, whatever was moved, deleted or renamed while it read,    *)
(* whatever earlier exports left behind half done, and whatever a hand put *)
(* there: with --prune nothing else is left in its folders, and outside of *)
(* them nothing is touched.                                                *)
Exported(rows) == [d \in Under(rows, ExportedPrefixes) |-> rows[d]]
ExportIsOneCorpus ==
    run.pc = "reported" =>
        LET right == Expected(Exported(run.snapshot))
        IN /\ run.apply => \A p \in DOMAIN right : p \in DOMAIN tree /\ tree[p] = right[p]
           /\ run.apply /\ run.prune => Owned(tree) = DOMAIN right
           /\ Without(tree, Owned(tree)) = run.others

=============================================================================
