---------------------------- MODULE MCVaultWalks ----------------------------
(* Values for the constants of VaultWalks.                                 *)
EXTENDS VaultWalks

CONSTANTS
    MaxStrays   \* bound: files that are wrong when an export starts

Found(path, title, updated) ==
    [path |-> path, title |-> title, labels |-> {"x"}, created |-> 0, updated |-> updated,
     status |-> "active"]

(* Two notes, all the same or but for a title; and a note and a page.      *)
Alike == {[n \in 1..2 |-> Found(<<AgentNotes, 1, n>>, IF n = odd THEN 2 ELSE 1, 0)] : odd \in 1..3}
Mixed == {[n \in 1..2 |-> Found(<<n + 1, 1, n>>, 1, 0)]}
Both == Alike \cup Mixed

(* The second note cites itself, the first one and the third.              *)
Citing == [n \in Notes |-> IF n = 2 THEN {1, 2, 3} ELSE {}]

(* A path of the agents' and one of the humans'.                           *)
HandMade == {<<AgentNotes, 1, 2>>, <<Human, 1, 1>>}

(* One note was inserted, deleted, moved, judged or replaced since.        *)
OneWrite(d, row) ==
    docs[d] \in {[row EXCEPT !.path = docs[d].path], [row EXCEPT !.status = docs[d].status],
                 [docs[d] EXCEPT !.path = row.path, !.status = row.status]}
Near(rows) ==
    LET both == DOMAIN docs \cap DOMAIN rows
        moved == {d \in both : docs[d] # rows[d]}
    IN /\ Cardinality(moved \cup ((DOMAIN docs \cup DOMAIN rows) \ both)) <= 1
       /\ \A d \in moved : OneWrite(d, rows[d])
       /\ \A d \in DOMAIN docs \ both :
             /\ docs[d].updated = docs[d].created /\ docs[d].status = "active"
             /\ docs[d].path[1] # Candidates /\ docs[d].path[2] = docs[d].title

Strays ==
    LET right == Expected(Exported(docs))
    IN {p \in DOMAIN tree : p \in DOMAIN right => tree[p] # right[p]}

(* Either a client walks the listing of the two, or they are exported      *)
(* again and again; and in the course of it one of them is written.        *)
Walks ==
    /\ run = Idle /\ tree = << >>
    /\ \E rows \in Alike : Near(rows)
    /\ \A r \in Readers : reader[r] # Idle =>
          /\ Cardinality(reader[r].touched \cup (DOMAIN docs \ reader[r].began)) <= 1
          /\ reader[r].under \in {ReadablePrefixes, {AgentNotes}, {Private}}
          /\ reader[r].under # ReadablePrefixes \/ reader[r].labels # {} => reader[r].sort = "path"
Exports ==
    /\ \A r \in Readers : reader[r] = Idle
    /\ now = 0
    /\ \E rows \in Mixed : Near(rows)
    /\ DOMAIN docs \subseteq 1..3 /\ 3 \in DOMAIN docs => docs[3].path[1] = AgentNotes
    /\ \A d \in DOMAIN docs : /\ docs[d].labels = {"x"} /\ docs[d].status = "active"
                             /\ docs[d].title = 1
    /\ \A p \in DOMAIN tree : tree[p] = ByHand => p \in HandMade
    /\ run = Idle => Cardinality(Strays) <= MaxStrays
InScope == Walks \/ Exports

SmallNext == Next /\ InScope'
SmallSpec == Init /\ [][SmallNext]_vars

=============================================================================
