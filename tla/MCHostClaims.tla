---------------------------- MODULE MCHostClaims ----------------------------
(* Instances of HostClaims for TLC. Claim generations and release calls are  *)
(* interchangeable; the liveness run uses no symmetry.                       *)
EXTENDS HostClaims, TLC

CallSymmetry == Permutations(Batches) \cup Permutations(Releasers)
=============================================================================
