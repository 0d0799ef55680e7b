---------------------------- MODULE VaultCompile ----------------------------
(***************************************************************************)
(* Compile runs: VaultCompileService of app/vault/service.py, the compile  *)
(* repositories of repository.py, and the governed writers of notes that   *)
(* the planner watches.                                                    *)
(*                                                                         *)
(* plan opens a run and says which pages are out of date and which notes   *)
(* have none; the compiling agent, outside the service, reads the notes    *)
(* and sends pages and refusals back; finish or fail settles the run.      *)
(*                                                                         *)
(* What the planner compares are timestamps: updated_at is the instant the *)
(* writer's transaction BEGAN, before it waited for the corpus lock,       *)
(* compiled_at the instant the run's did, and a refusal carries the        *)
(* clock of the application before its transaction.  A stamp is therefore  *)
(* taken by one action and committed by a later one.  One clock serves all *)
(* of them, and no two stamps are equal.                                   *)
(*                                                                         *)
(* A handler acts for the principal that opened the run: the others are    *)
(* refused before anything is written.                                     *)
(*                                                                         *)
(* A definition named ...Mutant is a way the one it precedes could be      *)
(* wrong; nothing refers to it.                                            *)
(***************************************************************************)
EXTENDS Integers, FiniteSets

CONSTANTS
    Notes,      \* vault_documents.id of the notes
    Existing,   \* the notes there were before any run
    Pages,      \* and of the wiki pages
    Runs,       \* vault_compile_runs.id
    Reqs,       \* requests in flight
    AllPages,   \* what plan may be asked for: a subset of BOOLEAN
    MaxRev,     \* bound: the last content revision explored
    MaxTime     \* bound: the last stamp explored

(* Notes and pages are rows of one table: an id is of one or the other.    *)
ASSUME CompileAssumption ==
    /\ Existing \subseteq Notes /\ AllPages \subseteq BOOLEAN
    /\ Notes \cap Pages = {}
    /\ MaxRev \in Nat \ {0} /\ MaxTime \in Nat

VARIABLES
    notes,      \* notes: id -> revision, status, updated_at, compile_declined_at
    pages,      \* wiki pages: id -> source_ids, compile_run_id, compiled_at
    runs,       \* vault_compile_runs: id -> state, started_at
    now,        \* the next stamp
    req,        \* the handlers
    gone,       \* history: notes deleted
    basis,      \* history: page -> the revisions it was written from
    refused,    \* history: declined note -> the revision that was declined
    inflight,   \* history: run -> notes being written when it was opened
    unseen,     \* history: notes declined before their last change was read
    todo        \* history: run -> what it was offered and has not dealt with, while
                \* it is the only run, no page was written between the reads of its
                \* plan, and no note has changed since it began

vars == <<notes, pages, runs, now, req, gone, basis, refused, inflight, unseen, todo>>
tables == <<notes, pages, runs>>
history == <<gone, basis, refused, inflight, unseen, todo>>

-----------------------------------------------------------------------------
Idle == [pc |-> "idle"]
Goto(r, q) == req' = [req EXCEPT ![r] = q]
Finish(r) == Goto(r, Idle)

Without(f, S) == [x \in DOMAIN f \ S |-> f[x]]
With(f, x, y) == [z \in DOMAIN f \cup {x} |-> IF z = x THEN y ELSE f[z]]

Never == -1
Running == {run \in DOMAIN runs : runs[run].state = "running"}
Active(n) == n \in DOMAIN notes /\ notes[n].status = "active"

(* NoteCompileState.declined                                               *)
DeclinedMutant(n) == notes[n].declined # Never
Declined(n) == notes[n].declined # Never /\ notes[n].updated <= notes[n].declined

(* _plan_items: the pages to write again, and the notes that have none.    *)
Sources(f, p) == f[p].sources \cap DOMAIN notes
Missing(f, p) == f[p].sources # Sources(f, p)
Flagged(f, p) == \E n \in Sources(f, p) : ~Active(n)
Moved(f, p) == \E n \in Sources(f, p) : notes[n].updated > f[p].compiled
Covered(f) == UNION {f[p].sources : p \in DOMAIN f}
StalePages(f, all) ==
    {p \in DOMAIN f : all \/ Missing(f, p) \/ Flagged(f, p) \/ Moved(f, p)}
NewSources(f, all) ==
    {n \in DOMAIN notes \ Covered(f) : Active(n) /\ (all \/ ~Declined(n))}
PlanItems(f, all) == StalePages(f, all) \cup NewSources(f, all)

(* The notes some transaction is about to write.                           *)
BeingWritten == {req[r].note : r \in {q \in Reqs : req[q].pc = "write"}}

Init ==
    /\ notes = [n \in Existing |-> [rev |-> 1, status |-> "active", updated |-> Never,
                                    declined |-> Never]]
    /\ pages = << >> /\ runs = << >> /\ now = 0
    /\ req = [r \in Reqs |-> Idle]
    /\ gone = {} /\ basis = << >> /\ refused = << >>
    /\ inflight = << >> /\ unseen = {} /\ todo = << >>

Stamp == now < MaxTime /\ now' = now + 1

-----------------------------------------------------------------------------
(* The governed writers of notes.                                          *)

(* BEGIN, which is what func.now() will say, then the corpus lock.         *)
BeginWrite(r, n) ==
    /\ req[r] = Idle
    /\ n \notin gone
    /\ Stamp
    /\ Goto(r, [pc |-> "write", note |-> n, at |-> now])
    /\ UNCHANGED <<tables, history>>

Disturb == todo' = << >>

(* insert, or replace_content and set_summary: an update moves updated_at  *)
(* and leaves the refusal, which the planner then disregards.              *)
Write(r, status) ==
    /\ req[r].pc = "write"
    /\ Finish(r)
    /\ LET n == req[r].note
       IN \/ n \in gone /\ UNCHANGED <<notes, todo>>
          \/ /\ n \notin gone /\ n \notin DOMAIN notes
             /\ notes' = With(notes, n, [rev |-> 1, status |-> status, updated |-> req[r].at,
                                         declined |-> Never])
             /\ Disturb
          \/ /\ Active(n) /\ status = "active" /\ notes[n].rev < MaxRev
             /\ notes' = [notes EXCEPT ![n].rev = @ + 1, ![n].updated = req[r].at]
             /\ Disturb
    /\ UNCHANGED <<pages, runs, now, gone, basis, refused, inflight, unseen>>

(* set_status, when a review case is accepted: no timestamp moves.         *)
Publish(n) ==
    /\ n \in DOMAIN notes /\ ~Active(n)
    /\ notes' = [notes EXCEPT ![n].status = "active"]
    /\ Disturb
    /\ UNCHANGED <<pages, runs, now, req, gone, basis, refused, inflight, unseen>>

(* A note is retired, or rejected by its reviewer; source_ids keep its id. *)
Remove(n) ==
    /\ n \in DOMAIN notes
    /\ notes' = Without(notes, {n})
    /\ gone' = gone \cup {n}
    /\ refused' = Without(refused, {n})
    /\ unseen' = unseen \ {n}
    /\ Disturb
    /\ UNCHANGED <<pages, runs, now, req, basis, inflight>>

-----------------------------------------------------------------------------
(* The compile run.                                                        *)

BeginPlan(r, run) ==
    /\ req[r] = Idle
    /\ run \notin DOMAIN runs /\ \A q \in Reqs : req[q].pc = "plan" => req[q].run # run
    /\ Stamp
    /\ Goto(r, [pc |-> "plan", run |-> run, at |-> now, listed |-> {}])
    /\ inflight' = With(inflight, run, BeingWritten)
    /\ UNCHANGED <<tables, gone, basis, refused, unseen, todo>>

(* plan takes no corpus lock: list_pages and note_states see the corpus at *)
(* two instants.  The pages read wait in "listed".                         *)
ListPages(r) ==
    /\ req[r].pc = "plan" /\ req[r].listed = {}
    /\ req' = [req EXCEPT ![r].listed = {pages}]
    /\ UNCHANGED <<tables, now, history>>

(* note_states and the run's row: what commits between the two might as    *)
(* well commit after both.  started_at is the transaction's stamp.         *)
Plan(r, all) ==
    /\ req[r].pc = "plan"
    /\ Finish(r)
    /\ \E seen \in req[r].listed :
         LET run == req[r].run
             undisturbed == /\ Running = {} /\ seen = pages
                            /\ \A n \in DOMAIN notes : notes[n].updated < req[r].at
         IN /\ runs' = With(runs, run, [state |-> "running", started |-> req[r].at])
            /\ todo' = IF undisturbed THEN [x \in {run} |-> PlanItems(seen, all)] ELSE << >>
    /\ UNCHANGED <<notes, pages, now, gone, basis, refused, inflight, unseen>>

(* The agent reads its notes and sends the page: the first transaction of  *)
(* write_page refuses nothing that the second does not refuse again.  p is *)
(* the page to replace, or a new one.                                      *)
Reading(S) == [n \in S |-> notes[n].rev]
BeginPage(r, run, p, S) ==
    /\ req[r] = Idle
    /\ run \in Running
    /\ S # {} /\ \A n \in S : Active(n)
    /\ Goto(r, [pc |-> "page", run |-> run, page |-> p, fresh |-> p \notin DOMAIN pages,
                from |-> Reading(S)])
    /\ UNCHANGED <<tables, now, history>>

(* A page dealt with is one written from notes that stand, with none of    *)
(* its notes left out.                                                     *)
Done(p, S) ==
    IF \A n \in S : Active(n) THEN {p} \cup S ELSE {}
LeftOut(p, S) == IF p \in DOMAIN pages THEN pages[p].sources \ S ELSE {}

(* write_page, second transaction, under the corpus lock.                  *)
StillOpenMutant(run) == TRUE
StillOpen(run) == run \in Running
AllThere(S) == S \subseteq DOMAIN notes
CompiledAtMutant(run) == now
CompiledAt(run) == runs[run].started
WritePage(r) ==
    /\ req[r].pc = "page"
    /\ Finish(r)
    /\ LET q == req[r]
           S == DOMAIN q.from
       IN \/ ~(StillOpen(q.run) /\ AllThere(S)) /\ UNCHANGED <<tables, history>>
          \/ /\ StillOpen(q.run) /\ AllThere(S)
             /\ q.fresh => q.page \notin DOMAIN pages
             /\ pages' = With(pages, q.page, [sources |-> S, run |-> q.run,
                                              compiled |-> CompiledAt(q.run)])
             /\ basis' = With(basis, q.page, q.from)
             /\ todo' = [x \in DOMAIN todo |->
                            (todo[x] \ Done(q.page, S)) \cup LeftOut(q.page, S)]
             /\ UNCHANGED <<notes, runs, gone, refused, inflight, unseen>>
    /\ UNCHANGED now

(* The agent reads the notes it will refuse.                               *)
BeginDecline(r, run, D) ==
    /\ req[r] = Idle
    /\ run \in Running
    /\ D # {} /\ \A n \in D : Active(n)
    /\ Goto(r, [pc |-> "refuse", run |-> run, from |-> Reading(D)])
    /\ UNCHANGED <<tables, now, history>>

(* decline takes its stamp before its transaction.                         *)
StampDecline(r) ==
    /\ req[r].pc = "refuse"
    /\ Stamp
    /\ LET from == req[r].from
       IN Goto(r, [pc |-> "decline", run |-> req[r].run, from |-> from, at |-> now,
                   behind |-> {n \in DOMAIN from : \/ n \in BeingWritten \/ ~Active(n)
                                                   \/ notes[n].rev # from[n]}])
    /\ UNCHANGED <<tables, history>>

(* decline_notes: all of them, or none.                                    *)
Decline(r) ==
    /\ req[r].pc = "decline"
    /\ Finish(r)
    /\ LET q == req[r]
           D == DOMAIN q.from
       IN \/ ~(StillOpen(q.run) /\ AllThere(D)) /\ UNCHANGED <<tables, history>>
          \/ /\ StillOpen(q.run) /\ AllThere(D)
             /\ notes' = [n \in DOMAIN notes |->
                            IF n \in D THEN [notes[n] EXCEPT !.declined = q.at] ELSE notes[n]]
             /\ refused' = [n \in DOMAIN refused \cup D |->
                              IF n \in D THEN q.from[n] ELSE refused[n]]
             /\ unseen' = (unseen \ D) \cup q.behind
             /\ todo' = [x \in DOMAIN todo |-> todo[x] \ D]
             /\ UNCHANGED <<pages, runs, gone, basis, inflight>>
    /\ UNCHANGED now

(* finish and fail: settle only a run that is still running.  What the run *)
(* wrote stays, whichever it is.                                           *)
Settle(run, state) ==
    IF run \in Running THEN [runs EXCEPT ![run].state = state] ELSE runs
Close(run, state) ==
    /\ run \in DOMAIN runs
    /\ runs' = Settle(run, state)
    /\ UNCHANGED <<notes, pages, now, req, history>>

(* The provider fails, the transaction rolls back or the process dies.     *)
Lose(r) ==
    /\ req[r] # Idle
    /\ Finish(r)
    /\ UNCHANGED <<tables, now, history>>

Next ==
    \/ \E r \in Reqs :
        \/ \E n \in Notes : BeginWrite(r, n)
        \/ \E status \in {"active", "flagged"} : Write(r, status)
        \/ \E run \in Runs : \/ BeginPlan(r, run)
                             \/ \E p \in Pages, S \in SUBSET Notes : BeginPage(r, run, p, S)
                             \/ \E D \in SUBSET Notes : BeginDecline(r, run, D)
        \/ ListPages(r)
        \/ \E all \in AllPages : Plan(r, all)
        \/ WritePage(r) \/ StampDecline(r) \/ Decline(r)
        \/ Lose(r)
    \/ \E n \in Notes : Publish(n) \/ Remove(n)
    \/ \E run \in Runs : Close(run, "succeeded") \/ Close(run, "failed")

Spec == Init /\ [][Next]_vars

-----------------------------------------------------------------------------
(* Properties.                                                             *)

Stamps == 0..MaxTime
Note == [rev : 1..MaxRev, status : {"active", "flagged"}, updated : Stamps \cup {Never},
         declined : Stamps \cup {Never}]
Page == [sources : SUBSET Notes, run : Runs, compiled : Stamps]
Run == [state : {"running", "succeeded", "failed"}, started : Stamps]
PageTables == UNION {[S -> Page] : S \in SUBSET Pages}
Revisions == UNION {[S -> 1..MaxRev] : S \in SUBSET Notes}
Request ==
    {Idle}
    \cup [pc : {"write"}, note : Notes, at : Stamps]
    \cup [pc : {"plan"}, run : Runs, at : Stamps, listed : SUBSET PageTables]
    \cup [pc : {"page"}, run : Runs, page : Pages, fresh : BOOLEAN, from : Revisions]
    \cup [pc : {"refuse"}, run : Runs, from : Revisions]
    \cup [pc : {"decline"}, run : Runs, at : Stamps, from : Revisions, behind : SUBSET Notes]

(* Rows have their columns, every page names a run that exists (the        *)
(* foreign key of compile_run_id), and a page's stamp is its run's.        *)
TypeOK ==
    /\ notes \in [DOMAIN notes -> Note] /\ DOMAIN notes \subseteq Notes \ gone
    /\ pages \in [DOMAIN pages -> Page] /\ DOMAIN pages \subseteq Pages
    /\ runs \in [DOMAIN runs -> Run] /\ DOMAIN runs \subseteq Runs
    /\ now \in Stamps
    /\ req \in [Reqs -> Request]
    /\ \A p \in DOMAIN pages : /\ pages[p].run \in DOMAIN runs
                               /\ pages[p].compiled = runs[pages[p].run].started

(* A page is as good as its notes: they are there, they stand, and they    *)
(* say what the page was written from.                                     *)
OutOfDate(p) == {n \in pages[p].sources :
                    ~Active(n) \/ notes[n].rev # basis[p][n]}

(* No change is lost to the planner, however slowly its writer commits:    *)
(* a page that is out of date is offered by a plan that reads the tables   *)
(* as they are, and so is a note without a page whose present text nobody  *)
(* declined, flagged and published notes included.  The exceptions are changes whose writer was  *)
(* at work when the run was opened, or when the refusal was stamped: their *)
(* stamp is older than the judgement that never saw them.                  *)
NothingIsForgotten ==
    /\ \A p \in DOMAIN pages \ StalePages(pages, FALSE) : OutOfDate(p) \subseteq inflight[pages[p].run]
    /\ \A n \in DOMAIN notes \ (Covered(pages) \cup NewSources(pages, FALSE)) :
          Active(n) => /\ n \in DOMAIN refused
                       /\ refused[n] # notes[n].rev => n \in unseen

(* A run that has dealt with all it was offered, by a page or a refusal,   *)
(* leaves nothing to offer until a note changes: compiling comes to an     *)
(* end.  A plan that another run wrote a page under is set right by a      *)
(* later one.                                                              *)
RunsConverge == \A run \in DOMAIN todo : todo[run] = {} => PlanItems(pages, FALSE) = {}

(* A plan offers what is out of date, and in the end nothing else.         *)
PlansAreExact == NothingIsForgotten /\ RunsConverge

(* The outcome a run has reported is final: no page or refusal is added to *)
(* it, however long the embedding took, and no second finish overturns it; *)
(* and the notes a page names are there when it is written.                *)
SettledIsClosed ==
    [][/\ \A run \in DOMAIN runs \ Running :
            /\ runs'[run] = runs[run]
            /\ \A p \in DOMAIN pages' :
                  pages'[p].run = run => p \in DOMAIN pages /\ pages'[p] = pages[p]
       /\ \A p \in DOMAIN pages' :
            (p \notin DOMAIN pages \/ pages'[p] # pages[p])
                => pages'[p].sources \subseteq DOMAIN notes
      ]_vars

=============================================================================
