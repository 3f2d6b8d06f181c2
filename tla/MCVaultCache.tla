----------------------------- MODULE MCVaultCache -----------------------------
(* VaultCache for TLC: interchangeable files, handlers and texts. *)
EXTENDS VaultCache, TLC

Symmetry == Permutations(File) \cup Permutations(Client) \cup Permutations(Text)
=============================================================================
