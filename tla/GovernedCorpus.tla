--------------------------- MODULE GovernedCorpus ---------------------------
(***************************************************************************)
(* What the vault promises its contributors and reviewers: a corpus of     *)
(* notes in which every governed write happens at one instant, decided by  *)
(* the corpus of that instant.  There are no embeddings, no handlers and   *)
(* no stale reads here; VaultCorpus has them all and implements this.      *)
(***************************************************************************)
EXTENDS Integers

CONSTANTS Ids, ProposalIds, Keys, Texts, Summaries, NoSummary, Metas, Changes,
          Amended(_, _)  \* the content of a note as a change would leave it

VARIABLES
    notes,      \* id -> [live, text, meta, by]; live when it is published
    seen,       \* every id ever given to a note
    spent,      \* the idempotency keys used
    proposals   \* id -> [doc, base, change, state]

vars == <<notes, seen, spent, proposals>>

Drop(d) == [x \in DOMAIN notes \ {d} |-> notes[x]]
Put(f, x, y) == [z \in DOMAIN f \cup {x} |-> IF z = x THEN y ELSE f[z]]
Base(d) == <<notes[d].text, notes[d].meta>>

(* A published note other than d that already says this.                   *)
Taken(text, d) == \E x \in DOMAIN notes \ {d} : notes[x].live /\ notes[x].text = text

(* One note per key; published unless the corpus already says it.          *)
Contribute(d, k, text, meta, by) ==
    /\ d \notin seen /\ k \notin spent
    /\ seen' = seen \cup {d} /\ spent' = spent \cup {k}
    /\ notes' = Put(notes, d, [live |-> ~Taken(text, d), text |-> text, meta |-> meta,
                               by |-> by])
    /\ UNCHANGED proposals

SetContent(d, text, meta) ==
    /\ d \in DOMAIN notes /\ notes[d].live
    /\ notes' = [notes EXCEPT ![d].text = text, ![d].meta = meta]
    /\ UNCHANGED <<seen, spent>>

Replace(d, text, meta) ==
    SetContent(d, text, meta) /\ ~Taken(text, d) /\ UNCHANGED proposals

AddSummary(d, s) ==
    LET text == [notes[d].text EXCEPT !.summary = s]
    IN /\ SetContent(d, text, notes[d].meta)
       /\ notes[d].text.summary = NoSummary
       /\ ~Taken(text, d)
       /\ UNCHANGED proposals

Reclassify(d, meta) == SetContent(d, notes[d].text, meta) /\ UNCHANGED proposals

(* A proposal is bound to the content its author saw ...                   *)
Propose(p, d, change) ==
    /\ p \notin DOMAIN proposals
    /\ d \in DOMAIN notes /\ notes[d].live
    /\ proposals' = Put(proposals, p, [doc |-> d, base |-> Base(d), change |-> change,
                                       state |-> "pending"])
    /\ UNCHANGED <<notes, seen, spent>>

(* ... and accepting it applies the change to exactly that content.        *)
Accept(p) ==
    LET d == proposals[p].doc
        new == Amended(notes[d], proposals[p].change)
    IN /\ p \in DOMAIN proposals /\ proposals[p].state = "pending"
       /\ d \in DOMAIN notes /\ Base(d) = proposals[p].base
       /\ SetContent(d, new.text, new.meta)
       /\ new.text # notes[d].text => ~Taken(new.text, d)
       /\ proposals' = [proposals EXCEPT ![p].state = "accepted"]

Close(p, state) ==
    /\ p \in DOMAIN proposals /\ proposals[p].state = "pending"
    /\ proposals' = [proposals EXCEPT ![p].state = state]
    /\ UNCHANGED <<notes, seen, spent>>

Endorse(d) ==
    /\ d \in DOMAIN notes /\ ~notes[d].live
    /\ notes' = [notes EXCEPT ![d].live = TRUE]
    /\ UNCHANGED <<seen, spent, proposals>>

(* A note retired, or a flagged one a reviewer turned down.                *)
Remove(d) ==
    /\ d \in DOMAIN notes
    /\ notes' = Drop(d)
    /\ UNCHANGED <<seen, spent, proposals>>

Next ==
    \/ \E d \in Ids :
        \/ \E k \in Keys, t \in Texts, m \in Metas : Contribute(d, k, t, m, k[1])
        \/ \E t \in Texts, m \in Metas : Replace(d, t, m)
        \/ \E s \in Summaries : AddSummary(d, s)
        \/ \E m \in Metas : Reclassify(d, m)
        \/ \E p \in ProposalIds, ch \in Changes : Propose(p, d, ch)
        \/ Endorse(d) \/ Remove(d)
    \/ \E p \in ProposalIds : Accept(p) \/ \E s \in {"rejected", "stale"} : Close(p, s)

=============================================================================
