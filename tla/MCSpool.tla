------------------------------ MODULE MCSpool ------------------------------
(* Batch ids are interchangeable: rows are only ever told      *)
(* apart by their stamps, and stamps of rows in the table are distinct.    *)
EXTENDS SpoolFifo, TLC

Symmetry == Permutations(Batches)
=============================================================================
