--------------------------- MODULE MCVaultConsole ---------------------------
(* Values for the constants of VaultConsole.                               *)
EXTENDS VaultConsole, TLC

Interchangeable == Permutations(Tabs) \cup Permutations(Calls) \cup Permutations(Clients)

=============================================================================
