------------------------------ MODULE MCScores ------------------------------
(* Values for the constants of Scores.                                     *)
EXTENDS Scores, TLC

Mode(sort, strategy, tier, claimedOnly) ==
    [sort |-> sort, strategy |-> strategy, tier |-> tier, ceiling |-> 3,
     claimedOnly |-> claimedOnly]

(* Cumulative boards fed by raw increments, and by runs.                   *)
RawIncrements == Mode("DESC", "cumulative", 0, FALSE)
RunIncrements == Mode("DESC", "cumulative", 2, FALSE)

(* Best boards: raw with the lowest winning, for the validated runs of     *)
(* claimed accounts, and for recomputed runs with the highest winning.     *)
RawBest == Mode("ASC", "best", 0, FALSE)
ClaimedBest == Mode("ASC", "best", 1, TRUE)
RunBest == Mode("DESC", "best", 2, FALSE)

Run(log, claim, replay) == [log |-> log, claim |-> claim, replay |-> replay]
TwoRuns == {Run(TRUE, 2, 1), Run(TRUE, 4, 3)}

(* Three scopes.  Increments under retries for as long as keys are kept    *)
(* and longer; a best board over midnight and the end of the week; and     *)
(* runs on boards that keep their configuration, that the operator         *)
(* tightens or opens, or whose strategy and order he changes.              *)
Scopes ==
    [increments |-> [modes |-> {{RawIncrements}}, kinds |-> {"raw"}, claims |-> {1, 2},
                     keys |-> 1, days |-> 2],
     best |-> [modes |-> {{RawBest}}, kinds |-> {"raw"}, claims |-> {1, 2},
               keys |-> 0, days |-> 2],
     runs |-> [modes |-> {{RunIncrements}, {RawBest, ClaimedBest}, {RunBest, RawIncrements}},
               kinds |-> {"raw", "run"}, claims |-> {1, 2, 4}, keys |-> 2, days |-> 0]]
Boards == UNION {Scopes[s].modes : s \in DOMAIN Scopes}

VARIABLE scope

Submitted == {req[r].sub : r \in {q \in Reqs : req[q] # Idle}}
InScope(s) ==
    /\ day <= s.days
    /\ \A m \in Modes : \E H \in s.modes : past[m] \subseteq H
    /\ \A sub \in Submitted :
          /\ sub.kind \in s.kinds /\ sub.body.claim \in s.claims
          /\ scope = "runs" /\ sub.kind = "raw" => sub.body.claim = 1
    /\ Cardinality(({sub.key : sub \in Submitted} \cup {k[3] : k \in DOMAIN markers}
                      \cup {e.key : e \in ledger}) \ {NoKey}) <= s.keys
    /\ scope = "best" => guests = users /\ pruning = {}

ScopedInit == Init /\ scope \in DOMAIN Scopes
ScopedNext == Next /\ UNCHANGED scope /\ InScope(Scopes[scope])'
ScopedSpec == ScopedInit /\ [][ScopedNext]_<<vars, scope>>

Interchangeable == Permutations(Reqs) \cup Permutations(Keys)

=============================================================================
