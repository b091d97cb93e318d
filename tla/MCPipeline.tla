----------------------------- MODULE MCPipeline -----------------------------
(* Instances of Pipeline for TLC. *)
EXTENDS Pipeline, TLC

\* Workers and clients are interchangeable; ids of rows are not.
Symmetry == Permutations(Workers) \cup Permutations(Clients) \cup Permutations(KWorkers)
            \cup Permutations(Docs)
=============================================================================
