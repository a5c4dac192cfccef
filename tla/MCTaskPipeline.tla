-------------------------- MODULE MCTaskPipeline --------------------------
(* Model values and symmetry for checking TaskPipeline. *)
EXTENDS TaskPipeline, TLC

Symmetry == Permutations(Tasks) \cup Permutations(Posts) \cup Permutations(Workers)

=============================================================================
