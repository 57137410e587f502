-------------------------- MODULE MCBatchProcessor --------------------------
(* One batch, that meets crashes, cancellations, deletions, late and lost statements. *)
EXTENDS BatchProcessor

CONSTANTS b1

MCBatch == {b1}
=============================================================================
