----------------------------- MODULE MCIngestJobs -----------------------------
(***************************************************************************)
(* Values for model checking IngestJobs.                                   *)
(***************************************************************************)
EXTENDS IngestJobs, TLC

\* Jobs and files are interchangeable.
Symmetry == Permutations(Job) \cup Permutations(File)
=============================================================================
