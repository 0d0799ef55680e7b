----------------------------- MODULE MCAccounts -----------------------------
(* Symmetry for the runs of Accounts.                                      *)
EXTENDS Accounts, TLC

Interchangeable == Permutations(Reqs) \cup Permutations(Tokens)
                     \cup Permutations(Ids) \cup Permutations(Emails)

=============================================================================
