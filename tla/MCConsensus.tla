---------------------------- MODULE MCConsensus ----------------------------
(* The model-checked instance of Consensus.                                *)
EXTENDS Consensus, TLC
Symmetry == Permutations(Nodes) \cup Permutations(Resources)
Majorities == {Nodes}
============================================================================
