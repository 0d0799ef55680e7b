--------------------------- MODULE MCVaultCompile ---------------------------
(* Values for the constants of VaultCompile.                               *)
EXTENDS VaultCompile, TLC

Incremental == {FALSE}
Interchangeable == Permutations(Runs) \cup Permutations(Reqs)

(* Two notes and one run, or one note and two runs.                        *)
Known == DOMAIN notes \cup gone \cup BeingWritten
Small == Cardinality(Known) + Cardinality(DOMAIN inflight) <= 3
SmallNext == Next /\ Small'
SmallSpec == Init /\ [][SmallNext]_vars

=============================================================================
