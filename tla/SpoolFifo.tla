----------------------------- MODULE SpoolFifo -----------------------------
(***************************************************************************)
(* The refinement mapping from the spool of one daemon to BoundedFifo.     *)
(***************************************************************************)
EXTENDS Spool

(* The rows with status 'queued' in the order of created_at: each comes    *)
(* after as many as are older.                                             *)
QueueInOrder ==
  [i \in 1..Cardinality(Queued) |->
     CHOOSE b \in Queued : Cardinality({c \in Queued : stamp[c] < stamp[b]}) = i - 1]

Fifo == INSTANCE BoundedFifo
  WITH Items <- Batches,
       Capacity <- MaxQueued,
       queue <- QueueInOrder,
       held <- {b \in Batches : status[b] = "processing"},
       delivered <- ingested,
       dropped <- {b \in Batches : status[b] = "dropped"},
       passed <- skipped

(* The spool of a daemon that is alone, with its crashes, its failing      *)
(* statements and its drop policy, is a bounded FIFO queue with            *)
(* at-most-once delivery.                                                  *)
ImplementsFifo == Fifo!FifoSpec
=============================================================================
