---------------------------- MODULE VaultCorpus ----------------------------
(***************************************************************************)
(* The governed write path of the vault (app/vault/service.py and the      *)
(* repositories under it): contributions with idempotency keys, the        *)
(* duplicate gate, replacements, summaries, amendment proposals, review    *)
(* cases, promotion and retirement.                                        *)
(*                                                                         *)
(* A transaction that writes takes one advisory lock first, at READ        *)
(* COMMITTED, and is one action; only a replay restates a digest without   *)
(* the lock, in a second statement.  What is not atomic is the handler:    *)
(* the embedding provider is called between the transaction that read a    *)
(* note and the one that writes it, and a request record keeps what the    *)
(* first one read.                                                         *)
(*                                                                         *)
(* A note's text is what its embedding is computed from; the rest (facets, *)
(* edges, source) is its meta.  Equal embeddings are equal texts, and the  *)
(* policy flags nothing less (flag_at = 1.0).                              *)
(*                                                                         *)
(* A definition named ...Mutant is a way the one it precedes could be      *)
(* wrong; nothing refers to it.                                            *)
(***************************************************************************)
EXTENDS Integers, FiniteSets

CONSTANTS
    Ids,            \* vault_documents.id
    ProposalIds,    \* vault_amendment_proposals.id
    Reqs,           \* requests in flight
    Authors, Keys,  \* principals and their idempotency keys
    Titles, Bodies, Summaries, Metas,   \* what a note is made of
    Contributions,  \* bodies of contributions, with author and key
    Legacy,         \* contributions imported under a retired digest rule
    Replacements,   \* bodies of a full update: text and meta
    Additions,      \* summaries a contributor may add afterwards
    NewMetas,       \* metadata an update may set
    Changes,        \* changes an amendment proposal may carry
    Promotions,     \* promotion states a reviewer may set
    SimilarLimit,   \* neighbours the duplicate gate looks at
    MaxRev          \* bound: the last content revision explored

NoSummary == "no summary"
NoDoc == "no document"

Texts == [title : Titles, body : Bodies, summary : Summaries \cup {NoSummary}]
Contents == [text : Texts, meta : Metas]

Key(c) == <<c.by, c.key>>

ASSUME CorpusAssumption ==
    /\ NoDoc \notin Ids /\ NoSummary \notin Summaries
    /\ SimilarLimit \in Nat \ {0} /\ MaxRev \in Nat \ {0}
    /\ Contributions \subseteq [by : Authors, key : Keys, text : Texts, meta : Metas]
    /\ Legacy \subseteq Contributions /\ IsFiniteSet(Legacy)
    /\ \A c, e \in Legacy : Key(c) = Key(e) \/ c.text.title = e.text.title => c = e
    /\ Replacements \subseteq Contents
    /\ Additions \subseteq Summaries /\ NewMetas \subseteq Metas
    /\ Changes \subseteq [kind : {"replacement"}, text : Texts, meta : Metas]
                      \cup [kind : {"body_diff"}, body : Bodies]
                      \cup [kind : {"metadata"}, meta : Metas]
    /\ Promotions \subseteq {"none", "candidate", "promoted", "retracted"}

VARIABLES
    docs,       \* vault_documents: id -> row
    vectors,    \* vault_document_embeddings: id -> the text embedded
    cases,      \* vault_review_cases, named after the note they were opened for
    proposals,  \* vault_amendment_proposals: id -> row
    writes,     \* vault_write_requests: (principal, key) -> row
    audit,      \* vault_audit_events: what happened to what
    req,        \* the handlers
    maker,      \* history: note ever created -> the key it was created under
    judged      \* history: notes whose present text a reviewer let stand

vars == <<docs, vectors, cases, proposals, writes, audit, req, maker, judged>>

-----------------------------------------------------------------------------
Idle == [pc |-> "idle"]
Goto(r, q) == req' = [req EXCEPT ![r] = q]
Finish(r) == Goto(r, Idle)

Without(f, S) == [x \in DOMAIN f \ S |-> f[x]]
With(f, x, y) == [z \in DOMAIN f \cup {x} |-> IF z = x THEN y ELSE f[z]]

Record(op, outcome, target) == audit' = audit \cup {<<op, outcome, target>>}

corpus == <<docs, vectors, cases, proposals, writes, audit, maker, judged>>
notes == <<docs, vectors>>

(* read_policy.READABLE_STATUSES; nothing below archives a note.           *)
Readable == {d \in DOMAIN docs : docs[d].status = "active"}

(* find_similar at the score that flags: active notes with the same        *)
(* embedding, never the note itself.                                       *)
Matches(text, except) ==
    {d \in (Readable \cap DOMAIN vectors) \ {except} : vectors[d] = text}

(* What find_similar returns: the nearest active notes, up to the limit,   *)
(* whether or not they score high enough to flag.                          *)
IsSimilar(S, text) ==
    LET near == Matches(text, NoDoc)
        all == Readable \cap DOMAIN vectors
    IN /\ S \subseteq all
       /\ Cardinality(S) = IF Cardinality(all) < SimilarLimit THEN Cardinality(all)
                                                              ELSE SimilarLimit
       /\ near \subseteq S \/ S \subseteq near

NotesDir == "Agent/notes/"
CandidatesDir == "Agent/Promotion Candidates/"
Folder(promo) == IF promo = "candidate" THEN CandidatesDir ELSE NotesDir

(* resolve_vault_path: the first free name for a title in a folder.        *)
Path(dir, title, n) == [dir |-> dir, slug |-> title, n |-> n]
ResolvePath(dir, title, taken) ==
    Path(dir, title, CHOOSE n \in 1..(Cardinality(taken) + 1) :
                        /\ Path(dir, title, n) \notin taken
                        /\ \A m \in 1..(n - 1) : Path(dir, title, m) \in taken)

(* vault_paths_under                                                       *)
PathsUnderMutant(dir, except) ==
    {docs[d].path : d \in {e \in DOMAIN docs \ {except} :
                              docs[e].path.dir = dir /\ dir = NotesDir}}
PathsUnder(dir, except) ==
    {docs[d].path : d \in {e \in DOMAIN docs \ {except} : docs[e].path.dir = dir}}

RowFrom(c, status, rev) ==
    [status |-> status, rev |-> rev, text |-> c.text, meta |-> c.meta, by |-> c.by,
     promo |-> "none", path |-> ResolvePath(NotesDir, c.text.title, PathsUnder(NotesDir, NoDoc))]
NewDocZeroMutant(c, status) == RowFrom(c, status, 0)
NewDoc(c, status) == RowFrom(c, status, 1)

(* replace_content: identity, path, status, promotion and author stay.     *)
ReplacedMutant(row, text, meta) == [row EXCEPT !.text = text, !.meta = meta]
Replaced(row, text, meta) ==
    [row EXCEPT !.text = text, !.meta = meta, !.rev = @ + 1]

(* The CAS of replace_content and set_summary on content_revision.         *)
AtRevisionMutant(d, rev) == d \in DOMAIN docs
AtRevision(d, rev) == d \in DOMAIN docs /\ docs[d].rev = rev

-----------------------------------------------------------------------------
Init ==
    \E id \in [Legacy -> Ids] :
        LET Of(d) == CHOOSE c \in Legacy : id[c] = d
            olds == {id[c] : c \in Legacy}
        IN /\ \A c, e \in Legacy : id[c] = id[e] => c = e
           /\ docs = [d \in olds |->
                        [status |-> "active", rev |-> 1, text |-> Of(d).text,
                         meta |-> Of(d).meta, by |-> Of(d).by, promo |-> "none",
                         path |-> Path(NotesDir, Of(d).text.title, 1)]]
           /\ vectors = [d \in olds |-> Of(d).text]
           /\ maker = [d \in olds |-> Key(Of(d))]
           /\ writes = [k \in {Key(c) : c \in Legacy} |->
                          LET c == CHOOSE e \in Legacy : Key(e) = k
                          IN [digest |-> c, current |-> FALSE, state |-> "inserted",
                              doc |-> id[c]]]
           /\ cases = << >> /\ proposals = << >>
           /\ audit = {} /\ judged = {}
           /\ req = [r \in Reqs |-> Idle]

(* _replay of the row get has read: another body under a comparable digest *)
(* is a conflict, audited by a transaction of its own; one under a digest  *)
(* of a retired rule goes unnoticed, and is restated.  The event of a      *)
(* replay goes by the body here, for which the code has the key.           *)
Answer(r, c) ==
    /\ Record("contribute", "replayed", c)
    /\ Finish(r)
    /\ UNCHANGED <<notes, cases, proposals, maker, judged>>
Conflicts(k, c) == writes[k].current /\ writes[k].digest # c
Replay(r, c) ==
    LET k == Key(c)
    IN \/ /\ Conflicts(k, c)
          /\ Goto(r, [pc |-> "conflict", key |-> k])
          /\ UNCHANGED corpus
       \/ /\ ~writes[k].current
          /\ Goto(r, [pc |-> "restate", body |-> c])
          /\ UNCHANGED corpus
       \/ /\ writes[k].current /\ ~Conflicts(k, c)
          /\ Answer(r, c)
          /\ UNCHANGED writes

(* upgrade_digest, whatever the row says by now.                           *)
Restate(r) ==
    /\ req[r].pc = "restate"
    /\ LET c == req[r].body
       IN /\ writes' = [writes EXCEPT ![Key(c)].digest = c, ![Key(c)].current = TRUE]
          /\ Answer(r, c)

(* contribute, first transaction: the key is looked up before anything is  *)
(* paid for, and a new one goes on to the embedding provider.              *)
Contribute(r, c) ==
    /\ req[r] = Idle
    /\ \/ Key(c) \in DOMAIN writes /\ Replay(r, c)
       \/ /\ Key(c) \notin DOMAIN writes
          /\ Goto(r, [pc |-> "contribute", body |-> c])
          /\ UNCHANGED corpus

(* _execute: the note, its vector, its review case when it is flagged, the *)
(* idempotency row and the event in one transaction.                       *)
Store(c, d, status) ==
    /\ docs' = With(docs, d, NewDoc(c, status))
    /\ vectors' = With(vectors, d, c.text)
    /\ writes' = With(writes, Key(c),
                      [digest |-> c, current |-> TRUE, doc |-> d,
                       state |-> IF status = "active" THEN "inserted" ELSE "flagged"])
    /\ Record("contribute", status, d)
    /\ maker' = With(maker, d, Key(c))
    /\ UNCHANGED <<proposals, judged>>

OpenCase(c, d) ==
    \E S \in SUBSET Readable :
        /\ IsSimilar(S, c.text)
        /\ cases' = With(cases, d, [state |-> "pending", candidate |-> d, evidence |-> S])

(* The second transaction looks the key up again under the lock.           *)
UnsettledMutant(k) == TRUE
Unsettled(k) == k \notin DOMAIN writes
SettleContribution(r, d) ==
    /\ req[r].pc = "contribute"
    /\ LET c == req[r].body
       IN \/ ~Unsettled(Key(c)) /\ Replay(r, c)
          \/ /\ Unsettled(Key(c))
             /\ d \notin DOMAIN maker
             /\ Finish(r)
             /\ \/ /\ Matches(c.text, NoDoc) = {}
                   /\ Store(c, d, "active")
                   /\ UNCHANGED cases
                \/ /\ Matches(c.text, NoDoc) # {}
                   /\ Store(c, d, "flagged")
                   /\ OpenCase(c, d)

(* The except clause of contribute.                                        *)
RecordConflict(r) ==
    /\ req[r].pc = "conflict"
    /\ Record("contribute", "conflict", req[r].key)
    /\ Finish(r)
    /\ UNCHANGED <<notes, cases, proposals, writes, maker, judged>>

(* replace_content and the upsert of the vector, in every writer.          *)
Rewrite(d, text, meta) ==
    /\ docs[d].rev < MaxRev
    /\ docs' = [docs EXCEPT ![d] = Replaced(docs[d], text, meta)]
    /\ judged' = IF text = docs[d].text THEN judged ELSE judged \ {d}
Embed(d, text) == vectors' = With(vectors, d, text)

(* VaultDocumentUpdateService.update: read, embed, then replace whatever   *)
(* is there; the request carries all of the content.                       *)
Update(r, d, e) ==
    /\ req[r] = Idle
    /\ d \in Readable
    /\ Goto(r, [pc |-> "update", doc |-> d, body |-> e])
    /\ UNCHANGED corpus

SettleUpdate(r) ==
    /\ req[r].pc = "update"
    /\ Finish(r)
    /\ LET d == req[r].doc
           e == req[r].body
       IN \/ /\ Matches(e.text, d) # {} \/ d \notin DOMAIN docs
             /\ UNCHANGED corpus
          \/ /\ Matches(e.text, d) = {} /\ d \in DOMAIN docs
             /\ Rewrite(d, e.text, e.meta)
             /\ Embed(d, e.text)
             /\ Record("update", "updated", d)
             /\ UNCHANGED <<cases, proposals, writes, maker>>

(* VaultDocumentSummaryService.set_summary: the author adds one where there *)
(* is none.  The grace period is measured once, before the read, so it     *)
(* only decides whether the request gets this far.                         *)
Summarised(text, s) == [text EXCEPT !.summary = s]
SetSummary(r, d, s, who) ==
    /\ req[r] = Idle
    /\ d \in Readable
    /\ docs[d].by = who
    /\ docs[d].text.summary = NoSummary
    /\ Goto(r, [pc |-> "summary", doc |-> d, rev |-> docs[d].rev, who |-> who,
                text |-> Summarised(docs[d].text, s)])
    /\ UNCHANGED corpus

(* The predicate of the repository's set_summary; it writes one column.    *)
MaySummariseMutant(d, rev, who) ==
    d \in DOMAIN docs /\ docs[d].text.summary = NoSummary /\ docs[d].by = who
MaySummarise(d, rev, who) ==
    /\ AtRevision(d, rev)
    /\ docs[d].text.summary = NoSummary
    /\ docs[d].by = who
SettleSummary(r) ==
    /\ req[r].pc = "summary"
    /\ Finish(r)
    /\ LET d == req[r].doc
           text == req[r].text
           writable == /\ Matches(text, d) = {}
                       /\ MaySummarise(d, req[r].rev, req[r].who)
       IN \/ ~writable /\ UNCHANGED corpus
          \/ /\ writable
             /\ Rewrite(d, Summarised(docs[d].text, text.summary), docs[d].meta)
             /\ Embed(d, text)
             /\ Record("set_summary", "summary_set", d)
             /\ UNCHANGED <<cases, proposals, writes, maker>>

(* VaultDocumentMetadataService.update: one transaction, refused unless the *)
(* caller names the revision the note is at.  Nothing is embedded.         *)
UpdateMetadata(d, m) ==
    /\ d \in Readable
    /\ Rewrite(d, docs[d].text, m)
    /\ Record("update_metadata", "updated", d)
    /\ UNCHANGED <<vectors, cases, proposals, writes, req, maker>>

-----------------------------------------------------------------------------
(* Amendment proposals.                                                    *)

(* _update_request: the note as the change would leave it.                 *)
Amended(row, change) ==
    CASE change.kind = "replacement" -> [text |-> change.text, meta |-> change.meta]
      [] change.kind = "body_diff" -> [text |-> [row.text EXCEPT !.body = change.body],
                                       meta |-> row.meta]
      [] change.kind = "metadata" -> [text |-> row.text, meta |-> change.meta]

(* propose, refused unless the caller names the note's revision.  "seen"   *)
(* is history: the content the author looked at.                           *)
Propose(p, d, change) ==
    /\ p \notin DOMAIN proposals
    /\ d \in Readable
    /\ proposals' = With(proposals, p,
          [doc |-> d, rev |-> docs[d].rev, change |-> change, state |-> "pending",
           applied |-> 0, seen |-> <<docs[d].text, docs[d].meta>>])
    /\ Record("amendment.propose", "pending", p)
    /\ UNCHANGED <<notes, cases, writes, req, maker, judged>>

(* The pending filter of the repository's decide.                          *)
Pending(p) == proposals[p].state = "pending"
Decide(p, state, applied) ==
    proposals' = [proposals EXCEPT ![p].state = state, ![p].applied = applied]

OnBaseLateMutant(p) == AtRevision(proposals[p].doc, proposals[p].rev + 1)
OnBase(p) == AtRevision(proposals[p].doc, proposals[p].rev)

(* _accept, first transaction, without the lock.                           *)
Accept(r, p) ==
    /\ req[r] = Idle
    /\ p \in DOMAIN proposals /\ Pending(p)
    /\ Goto(r, IF OnBase(p)
                 THEN [pc |-> "accept", proposal |-> p,
                       body |-> Amended(docs[proposals[p].doc], proposals[p].change)]
                 ELSE [pc |-> "stale", proposal |-> p])
    /\ UNCHANGED corpus

MarkStale(p) ==
    /\ Decide(p, "stale", 0)
    /\ Record("amendment.decide", "stale", p)
    /\ UNCHANGED <<notes, cases, writes, maker, judged>>

(* _settle_stale                                                           *)
SettleStale(r) ==
    /\ req[r].pc = "stale"
    /\ Finish(r)
    /\ LET p == req[r].proposal
       IN \/ ~Pending(p) /\ UNCHANGED corpus
          \/ Pending(p) /\ MarkStale(p)

(* The rest of _accept, and _settle_metadata_acceptance, which neither     *)
(* looks for duplicates nor embeds.                                        *)
SettleAcceptance(r) ==
    /\ req[r].pc = "accept"
    /\ Finish(r)
    /\ LET p == req[r].proposal
           d == proposals[p].doc
           e == req[r].body
           embeds == proposals[p].change.kind # "metadata"
           duplicate == embeds /\ Matches(e.text, d) # {}
       IN \/ /\ ~Pending(p) \/ (OnBase(p) /\ duplicate)
             /\ UNCHANGED corpus
          \/ Pending(p) /\ ~OnBase(p) /\ MarkStale(p)
          \/ /\ Pending(p) /\ OnBase(p) /\ ~duplicate
             /\ Rewrite(d, e.text, e.meta)
             /\ IF embeds THEN Embed(d, e.text) ELSE UNCHANGED vectors
             /\ Decide(p, "accepted", docs'[d].rev)
             /\ Record("amendment.decide", "accepted", p)
             /\ UNCHANGED <<cases, writes, maker>>

(* _reject                                                                 *)
Reject(p) ==
    /\ p \in DOMAIN proposals /\ Pending(p)
    /\ Decide(p, "rejected", 0)
    /\ Record("amendment.decide", "rejected", p)
    /\ UNCHANGED <<notes, cases, writes, req, maker, judged>>

-----------------------------------------------------------------------------
(* Removal, review and promotion.                                          *)

(* The repository's delete: vectors cascade, the ledger and the cases keep *)
(* their rows and lose the pointer, proposals are left as they are.        *)
Forget(f, d) == IF f = d THEN NoDoc ELSE f
Delete(d) ==
    /\ docs' = Without(docs, {d})
    /\ vectors' = Without(vectors, {d})
    /\ writes' = [k \in DOMAIN writes |-> [writes[k] EXCEPT !.doc = Forget(@, d)]]
    /\ judged' = judged \ {d}

(* count_retirement_blocking_review_references                             *)
UnderReviewMutant(d) ==
    \E x \in DOMAIN cases : cases[x].state = "pending" /\ d = cases[x].candidate
UnderReview(d) ==
    \E x \in DOMAIN cases : /\ cases[x].state = "pending"
                            /\ d = cases[x].candidate \/ d \in cases[x].evidence

(* VaultDocumentRetireService.retire                                       *)
Retire(d) ==
    /\ d \in Readable
    /\ ~UnderReview(d)
    /\ Delete(d)
    /\ cases' = [x \in DOMAIN cases |->
                    [cases[x] EXCEPT !.candidate = Forget(@, d)]]
    /\ Record("retire", "retired", d)
    /\ UNCHANGED <<proposals, req, maker>>

(* VaultReviewService.decide: an accepted candidate is published without   *)
(* asking the duplicate gate again, a rejected one is deleted.             *)
Publish(x) ==
    /\ x \in DOMAIN cases /\ cases[x].state = "pending"
    /\ cases' = [cases EXCEPT ![x].state = "accepted"]
    /\ docs' = [docs EXCEPT ![cases[x].candidate].status = "active"]
    /\ judged' = judged \cup {cases[x].candidate}
    /\ Record("review", "accepted", x)
    /\ UNCHANGED <<vectors, proposals, writes, req, maker>>

Discard(x) ==
    /\ x \in DOMAIN cases /\ cases[x].state = "pending"
    /\ Delete(cases[x].candidate)
    /\ cases' = [cases EXCEPT ![x].state = "rejected", ![x].candidate = NoDoc]
    /\ audit' = audit \cup {<<"review", "candidate_deleted", cases[x].candidate>>,
                            <<"review", "rejected", x>>}
    /\ UNCHANGED <<proposals, req, maker>>

(* VaultPromotionService.set_promotion_status: the folder follows the      *)
(* field, under a name that is free there.                                 *)
Promote(d, promo) ==
    /\ d \in Readable
    /\ docs[d].promo # promo
    /\ LET taken == PathsUnder(Folder(promo), d)
       IN docs' = [docs EXCEPT ![d].promo = promo,
                      ![d].path = ResolvePath(Folder(promo), docs[d].text.title, taken)]
    /\ Record("promote", promo, d)
    /\ UNCHANGED <<vectors, cases, proposals, writes, req, maker, judged>>

(* The embedding provider fails, a transaction rolls back or the process   *)
(* dies before the handler's next transaction.                             *)
Lose(r) ==
    /\ req[r] # Idle
    /\ Finish(r)
    /\ UNCHANGED corpus

Next ==
    \/ \E r \in Reqs :
        \/ \E c \in Contributions : Contribute(r, c)
        \/ \E d \in Ids : \/ SettleContribution(r, d)
                          \/ \E e \in Replacements : Update(r, d, e)
                          \/ \E s \in Additions, a \in Authors : SetSummary(r, d, s, a)
        \/ Restate(r) \/ RecordConflict(r) \/ SettleUpdate(r) \/ SettleSummary(r)
        \/ \E p \in ProposalIds : Accept(r, p)
        \/ SettleStale(r) \/ SettleAcceptance(r)
        \/ Lose(r)
    \/ \E d \in Ids :
        \/ \E m \in NewMetas : UpdateMetadata(d, m)
        \/ \E p \in ProposalIds, ch \in Changes : Propose(p, d, ch)
        \/ \E pr \in Promotions : Promote(d, pr)
        \/ Retire(d) \/ Publish(d) \/ Discard(d)
    \/ \E p \in ProposalIds : Reject(p)

Spec == Init /\ [][Next]_vars

-----------------------------------------------------------------------------
(* Properties.                                                             *)

Paths == [dir : {NotesDir, CandidatesDir}, slug : Titles, n : Nat \ {0}]
Row == [status : {"active", "flagged"}, rev : 1..MaxRev, text : Texts, meta : Metas,
        by : Authors, promo : Promotions \cup {"none"}, path : Paths]
Case == [state : {"pending", "accepted", "rejected"}, candidate : Ids \cup {NoDoc},
         evidence : SUBSET Ids]
Proposal == [doc : Ids, rev : 1..MaxRev, change : Changes, applied : 0..MaxRev,
             state : {"pending", "accepted", "rejected", "stale"}, seen : Texts \X Metas]
Write == [digest : Contributions, current : BOOLEAN,
          state : {"inserted", "flagged"}, doc : Ids \cup {NoDoc}]
Request ==
    {Idle}
    \cup [pc : {"contribute", "restate"}, body : Contributions]
    \cup [pc : {"conflict"}, key : Authors \X Keys]
    \cup [pc : {"update"}, doc : Ids, body : Replacements]
    \cup [pc : {"summary"}, doc : Ids, rev : 1..MaxRev, who : Authors, text : Texts]
    \cup [pc : {"accept"}, proposal : ProposalIds, body : Contents]
    \cup [pc : {"stale"}, proposal : ProposalIds]

TypeOK ==
    /\ docs \in [DOMAIN docs -> Row] /\ DOMAIN docs \subseteq DOMAIN maker
    /\ vectors \in [DOMAIN vectors -> Texts] /\ DOMAIN vectors \subseteq Ids
    /\ cases \in [DOMAIN cases -> Case] /\ DOMAIN cases \subseteq Ids
    /\ proposals \in [DOMAIN proposals -> Proposal] /\ DOMAIN proposals \subseteq ProposalIds
    /\ writes \in [DOMAIN writes -> Write] /\ DOMAIN writes \subseteq Authors \X Keys
    /\ maker \in [DOMAIN maker -> Authors \X Keys] /\ DOMAIN maker \subseteq Ids
    /\ judged \subseteq Ids
    /\ req \in [Reqs -> Request]

(* The stored vector always describes the text of the note it is stored    *)
(* for, although it was computed from a copy read before the lock.  If it  *)
(* did not, nothing would notice: the digest agrees with the vector.       *)
EmbeddingMatchesText ==
    DOMAIN vectors = DOMAIN docs /\ \A d \in DOMAIN docs : vectors[d] = docs[d].text

(* Two published notes say the same only if a reviewer let one of them     *)
(* stand: no interleaving of writers gets a duplicate past the gate.       *)
DuplicatesAreJudged ==
    \A d, e \in Readable :
        d # e /\ docs[d].text = docs[e].text => d \in judged \/ e \in judged

(* A note is flagged exactly while a review case is open on it: none is    *)
(* hidden with nobody to decide, and no case waits for a published note.   *)
FlaggedIffPending ==
    \A d \in Ids :
        (d \in DOMAIN docs /\ docs[d].status = "flagged")
          <=> \E x \in DOMAIN cases : cases[x].state = "pending" /\ cases[x].candidate = d

(* The notes a pending case was opened against are there, and published,   *)
(* for as long as it is pending.                                           *)
EvidenceStands ==
    \A x \in DOMAIN cases : cases[x].state = "pending" => cases[x].evidence \subseteq Readable

(* The gate: what is flagged is being judged, against what is there, and   *)
(* what is published twice was judged.                                     *)
GateHolds == DuplicatesAreJudged /\ FlaggedIffPending /\ EvidenceStands

(* A key makes one note, whatever is retried, raced or retired afterwards. *)
OneNotePerKey == \A d, e \in DOMAIN maker : maker[d] = maker[e] => d = e

(* The ledger tells the truth: it names the note its key made for as long  *)
(* as there is one, and no other.                                          *)
LedgerNamesItsNote ==
    /\ \A d \in DOMAIN docs : maker[d] \in DOMAIN writes /\ writes[maker[d]].doc = d
    /\ \A k \in DOMAIN writes : writes[k].doc # NoDoc => writes[k].doc \in DOMAIN docs

(* A note is gone exactly when an event says why: neither a removal nor    *)
(* the record of it is ever seen without the other.                        *)
GoneIsAudited ==
    \A d \in DOMAIN maker :
        d \notin DOMAIN docs <=> \/ <<"retire", "retired", d>> \in audit
                                \/ <<"review", "candidate_deleted", d>> \in audit

(* A replay is answered from the ledger for the body its key was used for  *)
(* and no other; an imported key, whose digest says nothing, is at least   *)
(* held to some body by the first replay, and for ever.                    *)
KeyAnswersOneBody ==
    \A c \in Contributions :
        <<"contribute", "replayed", c>> \in audit =>
            /\ Key(c) \in DOMAIN writes /\ writes[Key(c)].current
            /\ Key(c) \notin {Key(e) : e \in Legacy} => writes[Key(c)].digest = c

(* What the ledger and the events say of a note is true for ever.          *)
LedgerIsTrue ==
    OneNotePerKey /\ LedgerNamesItsNote /\ GoneIsAudited /\ KeyAnswersOneBody

(* A proposal is called stale only when it is: the note it was written for *)
(* is not at its revision and never will be again.                         *)
StaleIsTrue ==
    \A p \in DOMAIN proposals :
        proposals[p].state = "stale" /\ proposals[p].doc \in DOMAIN docs
            => docs[proposals[p].doc].rev # proposals[p].rev

(* Two proposals written for one revision are never both applied.          *)
OneAcceptedPerRevision ==
    \A p, q \in DOMAIN proposals :
        /\ p # q
        /\ proposals[p].state = "accepted" /\ proposals[q].state = "accepted"
        => <<proposals[p].doc, proposals[p].rev>> # <<proposals[q].doc, proposals[q].rev>>

(* No two notes have one vault_path, which the table declares unique, and  *)
(* a note is in the promotion folder exactly when it is a candidate.       *)
PathsAreNames ==
    /\ \A d, e \in DOMAIN docs : docs[d].path = docs[e].path => d = e
    /\ \A d \in DOMAIN docs : docs[d].path.dir = Folder(docs[d].promo)

(* Accepting a proposal changes the content its author saw, and nothing a  *)
(* later writer put there.                                                 *)
AcceptedOnItsBase ==
    [][\A p \in DOMAIN proposals :
          proposals[p].state = "pending" /\ proposals'[p].state = "accepted"
            => LET d == proposals[p].doc
               IN <<docs[d].text, docs[d].meta>> = proposals[p].seen]_vars

(* The corpus without handlers and embeddings; a proposal's base is the    *)
(* content of the revision it names.                                       *)
Serial == INSTANCE GovernedCorpus WITH
    Keys <- Authors \X Keys,
    notes <- [d \in DOMAIN docs |-> [live |-> docs[d].status = "active", by |-> docs[d].by,
                                     text |-> docs[d].text, meta |-> docs[d].meta]],
    seen <- DOMAIN maker,
    spent <- DOMAIN writes,
    proposals <- [p \in DOMAIN proposals |->
                    [doc |-> proposals[p].doc, base |-> proposals[p].seen,
                     change |-> proposals[p].change, state |-> proposals[p].state]]

(* Every handler, spread over its transactions, has the effect of one      *)
(* write of GovernedCorpus at one instant.                                 *)
ImplementsSerial == [][Serial!Next]_(Serial!vars)

=============================================================================
