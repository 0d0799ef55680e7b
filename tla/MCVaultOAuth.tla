---------------------------- MODULE MCVaultOAuth ----------------------------
(* Values for the constants of VaultOAuth.                                 *)
EXTENDS VaultOAuth, TLC

(* All there is to hold, and less than that.                               *)
Consents == {{}, {"read"}}

Interchangeable == Permutations(Reqs) \cup Permutations(Nonces)
                     \cup Permutations(Families) \cup Permutations(Tokens)

=============================================================================
