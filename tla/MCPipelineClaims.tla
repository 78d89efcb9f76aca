-------------------------- MODULE MCPipelineClaims --------------------------
(* Instances of PipelineClaims for TLC: tasks, workers, lease ids and        *)
(* handlers are interchangeable.                                             *)
EXTENDS PipelineClaims, TLC

Symmetry == Permutations(Tasks) \cup Permutations(Workers)
            \cup Permutations(Leases) \cup Permutations(Calls)

=============================================================================
