-------------------------- MODULE MCEmbeddingOutbox --------------------------
(* Small instances of EmbeddingOutbox for TLC. *)
EXTENDS EmbeddingOutbox, TLC

\* Request handlers, workers and texts are interchangeable.  (A run with
\* temporal properties does not use this.)
Symmetry == Permutations(Client) \cup Permutations(Worker) \cup Permutations(Body \ {Empty})
=============================================================================
