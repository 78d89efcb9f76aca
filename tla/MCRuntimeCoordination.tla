----------------------- MODULE MCRuntimeCoordination -----------------------
(***************************************************************************)
(* Values for model checking RuntimeCoordination.                          *)
(***************************************************************************)
EXTENDS RuntimeCoordination, TLC

CONSTANT Foreign  \* the requests made by a second principal

MCPrincipalOf == [r \in Request |-> IF r \in Foreign THEN "core" ELSE "bench"]

\* Requests are interchangeable within a principal, callers, hosts,
\* residencies and recovery workers are interchangeable throughout.
Symmetry == Permutations(Client) \cup Permutations(Request \ Foreign)
            \cup Permutations(Host) \cup Permutations(ResidencyKey)
            \cup Permutations(Owner)
=============================================================================
