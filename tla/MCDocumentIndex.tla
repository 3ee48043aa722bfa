-------------------------- MODULE MCDocumentIndex --------------------------
(* Small instances of DocumentIndex: a text of three chunks, which takes two
   batches, and one with nothing to index. *)
EXTENDS DocumentIndex, TLC

CONSTANTS report, blank, t1, t2, t3

SmallChunks == (report :> <<t1, t2, t3>>) @@ (blank :> << >>)
=============================================================================
