------------------------ MODULE MCEmbeddingMigration ------------------------
(* EmbeddingMigration for TLC: texts and requests are interchangeable, and so *)
(* are memories that may change.                                              *)
EXTENDS EmbeddingMigration, TLC
Symmetry == Permutations(Text) \cup Permutations(Job) \cup Permutations(Changing)
=============================================================================
