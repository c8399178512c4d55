---------------------- MODULE MCPostgresTaskRepository ----------------------
(* Instances of PostgresTaskRepository for TLC. *)
EXTENDS PostgresTaskRepository, TLC

Symmetry == Permutations(Workers) \cup Permutations(Tasks)
=============================================================================
