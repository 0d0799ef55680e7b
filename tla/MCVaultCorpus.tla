--------------------------- MODULE MCVaultCorpus ---------------------------
(* Values for the constants of VaultCorpus.                                *)
EXTENDS VaultCorpus, TLC

Text(title, body, summary) == [title |-> title, body |-> body, summary |-> summary]
Short == Text("t", "b1", NoSummary)    \* a note without a summary
Full == Text("t", "b1", "s")           \* the same note with its summary
Other == Text("t", "b2", NoSummary)    \* another note under the same title
Renamed == Text("u", "b2", NoSummary)  \* and under another title

Post(by, key, text) == [by |-> by, key |-> key, text |-> text, meta |-> "m0"]
Edit(text, meta) == [text |-> text, meta |-> meta]

Imported == {Post("ann", "k0", Short)}
Amendments ==
    {[kind |-> "replacement", text |-> Renamed, meta |-> "m1"],
     [kind |-> "body_diff", body |-> "b2"],
     [kind |-> "metadata", meta |-> "m2"]}

(* Every scope begins with one imported note.  Its key is used again with  *)
(* either body, and two keys are used for the same text, one of them with  *)
(* another body as well; or another note joins it and every writer of      *)
(* content is at work; or two proposals for it race each other and every   *)
(* other writer; or notes take its title, in either folder.                *)
Scopes ==
    [keys |-> [posts |-> {Post("ann", "k0", Short), Post("ann", "k0", Other),
                          Post("ann", "k1", Short), Post("ann", "k1", Other),
                          Post("bob", "k1", Short)},
               edits |-> {}, changes |-> {}, notes |-> 3, proposals |-> 0, busy |-> 2,
               ops |-> {"contribute", "conflict", "replay", "retire", "review"}],
     edits |-> [posts |-> {Post("ann", "k0", Short), Post("bob", "k2", Full)},
                edits |-> {Edit(Full, "m0")}, changes |-> {"replacement", "body_diff"},
                notes |-> 2, proposals |-> 1, busy |-> 2,
                ops |-> {"contribute", "retire", "review", "update", "set_summary",
                         "amendment.propose", "amendment.decide"}],
     proposals |-> [posts |-> {Post("ann", "k0", Short)},
                    edits |-> {Edit(Full, "m0")}, changes |-> {"replacement", "metadata"},
                    notes |-> 1, proposals |-> 2, busy |-> 2,
                    ops |-> {"retire", "update", "set_summary", "update_metadata",
                             "amendment.propose", "amendment.decide"}],
     paths |-> [posts |-> {Post("ann", "k0", Short), Post("ann", "k2", Other),
                           Post("bob", "k2", Full)},
                edits |-> {Edit(Text("u", "b1", NoSummary), "m0")}, changes |-> {},
                notes |-> 3, proposals |-> 0, busy |-> 1,
                ops |-> {"contribute", "retire", "review", "update", "promote"}]]

Posts == UNION {Scopes[s].posts : s \in DOMAIN Scopes}
Edits == UNION {Scopes[s].edits : s \in DOMAIN Scopes}

VARIABLE scope

(* What has been done, and what is being done.  A key is replayed in the   *)
(* first scope, and in the others when there is nothing else left to do.   *)
Doing(pc) == {r \in Reqs : req[r].pc = pc}
Ops ==
    {IF a[2] = "replayed" THEN "replay" ELSE a[1] : a \in audit}
      \cup {"conflict" : r \in Doing("conflict")} \cup {"replay" : r \in Doing("restate")}
      \cup {"set_summary" : r \in Doing("summary")}
InScope(s) ==
    /\ {req[r].body : r \in Doing("contribute") \cup Doing("restate")}
          \cup {writes[k].digest : k \in DOMAIN writes} \subseteq s.posts
    /\ {req[r].body : r \in Doing("update")} \subseteq s.edits
    /\ {proposals[p].change.kind : p \in DOMAIN proposals} \subseteq s.changes
    /\ Ops \subseteq s.ops \cup IF docs = << >> THEN {"replay"} ELSE {}
    /\ Cardinality(DOMAIN maker) <= s.notes
    /\ Cardinality(DOMAIN proposals) <= s.proposals
    /\ Cardinality({r \in Reqs : req[r] # Idle}) <= s.busy

ScopedInit == Init /\ scope \in DOMAIN Scopes
ScopedNext == Next /\ UNCHANGED scope /\ InScope(Scopes[scope])'
ScopedSpec == ScopedInit /\ [][ScopedNext]_<<vars, scope>>

(* ImplementsSerial, where every writer of content is at work.             *)
EditsAreSerial == [][scope = "edits" => Serial!Next]_(Serial!vars)

Interchangeable == Permutations(Reqs) \cup Permutations(Ids) \cup Permutations(ProposalIds)

=============================================================================
