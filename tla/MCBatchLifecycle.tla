-------------------------- MODULE MCBatchLifecycle --------------------------
(***************************************************************************)
(* Small instances of BatchLifecycle: a few cells, a run and its resumes,  *)
(* one request at a time.                                                  *)
(***************************************************************************)
EXTENDS BatchLifecycle

CONSTANT c1
=============================================================================
