-------------------------- MODULE MCDeletionRequests --------------------------
(* DeletionRequests for TLC: clients are interchangeable, and so are ordinary *)
(* memories.                                                                  *)
EXTENDS DeletionRequests, TLC

Symmetry == Permutations(Bucket \ (Letter \cup Test)) \cup Permutations(Client)
=============================================================================
