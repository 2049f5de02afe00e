-------------------------- MODULE MCAnalysisLease --------------------------
(* TLC instances of AnalysisLease: threads and requests are interchangeable. *)
EXTENDS AnalysisLease, TLC

Symmetry == Permutations(Workers) \cup Permutations(Clients)
=============================================================================
