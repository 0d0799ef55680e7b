--------------------------- MODULE MCVaultRepairs ---------------------------
(* Values for the constants of VaultRepairs.                               *)
EXTENDS VaultRepairs, TLC

CONSTANTS page, note, twin, other, first, second, third, fourth, former, bare, t, u, v, w

OneClass == {{note, twin, former}}
Edges == {<< >>, <<note>>}

Imported(title, refs, kept) ==
    [rev |-> 1, text |-> 1, title |-> title, slug |-> title, summary |-> NoSummary,
     refs |-> refs, kept |-> kept, file |-> IF title = u THEN "old" ELSE NoFile]

(* A page that cites a note by its title and by the id it used to have,    *)
(* with nothing kept yet, or a list of an earlier day; or the note was     *)
(* imported twice.                                                         *)
Cites(kept) == (page :> Imported(u, <<t, former>>, kept)) @@ (note :> Imported(t, << >>, {}))
Finds == {Cites({}), Cites({<<u>>}), Cites({}) @@ twin :> Imported(t, << >>, {})}

(* Two more pages: the first cites its sibling, whatever is named t, and,  *)
(* in Related, the old id of the note and a bare slug; the second the old  *)
(* id of the note, as a source.                                            *)
Batch == "a" :> [title |-> v, related |-> <<w, t, former, bare>>, sources |-> << >>]
           @@ "b" :> [title |-> w, related |-> << >>, sources |-> <<former>>]

Pairs == {"a" :> first @@ "b" :> second, "a" :> third @@ "b" :> fourth}

Interchangeable == Permutations(Reqs)

(* Governed writers make at most this many changes.                        *)
CONSTANT MaxChanges
Changes ==
    Cardinality(DOMAIN said \ (Reserved \cup {page, note, twin}))
        + Cardinality(DOMAIN said \ DOMAIN docs)
        + FoldSet(LAMBDA d, n : docs[d].rev - 1 + n, 0, DOMAIN docs)

(* Imports meet governed writers and each other, over a corpus that keeps  *)
(* nothing yet, and one change is made; so do the other repairs.  What     *)
(* imports alone meet: the note takes the title one of the pages has.  A   *)
(* note imported twice is a matter for the remap and for imports, a list   *)
(* kept earlier for the remap and the resolver.                            *)
At(stages) == \E r \in Reqs : req[r].pc \in stages
Importing == At({"import"})
Repairing == At({"remap", "resolve", "author", "apply"})
Retitled == {d \in DOMAIN docs : docs[d].title # docs[d].slug}
InScope ==
    /\ Importing \/ Reserved \cap DOMAIN said # {} =>
          /\ ~Repairing /\ Changes <= 1
          /\ page \in DOMAIN docs => docs[page].refs = <<t, former>> /\ docs[page].kept = {}
    /\ twin \in DOMAIN said => Changes <= 1 /\ ~At({"resolve", "author", "apply", "amend"})
    /\ page \in DOMAIN docs /\ <<u>> \in docs[page].kept => ~At({"author", "apply"})
    /\ Retitled # {} => /\ Retitled = {note} /\ docs[note].title = w /\ docs[note].summary = 0
                        /\ docs[note].refs = << >> /\ ~Repairing /\ Changes <= 1
    /\ other \in DOMAIN docs => \/ docs[other].title = t
                                \/ docs[other].title = w /\ ~Repairing
SmallNext == Next /\ Changes' <= MaxChanges /\ InScope'
SmallSpec == Init /\ [][SmallNext]_vars

=============================================================================
