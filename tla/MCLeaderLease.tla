---------------------------- MODULE MCLeaderLease ----------------------------
(***************************************************************************)
(* Values for model checking LeaderLease.                                  *)
(***************************************************************************)
EXTENDS LeaderLease, TLC

\* Processes and the ticks of a process are interchangeable.
Symmetry == Permutations(Process) \cup Permutations(Tick)
=============================================================================
