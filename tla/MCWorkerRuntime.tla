--------------------------- MODULE MCWorkerRuntime ---------------------------
(* Instances of WorkerRuntime for TLC. *)
EXTENDS WorkerRuntime, TLC

PipelineSymmetry == Permutations(Workers) \cup Permutations(Tasks)
=============================================================================
