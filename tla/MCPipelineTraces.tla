-------------------------- MODULE MCPipelineTraces --------------------------
(* Instances of PipelineTraces for TLC. *)
EXTENDS PipelineTraces, TLC

\* Callers are interchangeable (safety runs only).
CallerSymmetry == Permutations(Callers)
=============================================================================
