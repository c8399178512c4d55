-------------------------- MODULE MCClusterRecovery --------------------------
(* Instances of ClusterRecovery for TLC. *)
EXTENDS ClusterRecovery, TLC

ClusterSymmetry == Permutations(Workers) \cup Permutations(Nodes)
=============================================================================
