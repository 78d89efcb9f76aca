---------------------------- MODULE MCRagDocument ----------------------------
(***************************************************************************)
(* Values for model checking RagDocument: a text of three chunks and one   *)
(* of two, so that a replacement grows or shrinks the document.            *)
(***************************************************************************)
EXTENDS RagDocument, TLC

CONSTANTS i1, i2, long, short

MCRevision == {long, short}
MCChunkCount == long :> 3 @@ short :> 2

Symmetry == Permutations(Ingest)
=============================================================================
