--------------------------- MODULE MCScarcityQuotas ---------------------------
(* ScarcityQuotas for TLC: buckets and clients are interchangeable. *)
EXTENDS ScarcityQuotas, TLC

Symmetry == Permutations(Bucket) \cup Permutations(Client)
=============================================================================
