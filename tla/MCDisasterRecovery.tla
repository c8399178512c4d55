------------------------- MODULE MCDisasterRecovery -------------------------
(* The model-checked instance of DisasterRecovery.                         *)
EXTENDS DisasterRecovery, TLC
Symmetry == Permutations(Tasks) \cup Permutations(Checkpoints)
=============================================================================
