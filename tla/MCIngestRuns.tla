---------------------------- MODULE MCIngestRuns ----------------------------
(* Model-checking instance of IngestRuns. *)
EXTENDS IngestRuns, TLC

Symmetry == Permutations(Process) \union Permutations(Artifact)
=============================================================================
