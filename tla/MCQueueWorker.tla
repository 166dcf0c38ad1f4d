--------------------------- MODULE MCQueueWorker ---------------------------
(* Values of the constants of QueueWorker for TLC. *)
EXTENDS QueueWorker, TLC

WorkerSymmetry == Permutations(Workers) \cup Permutations(Messages)
=============================================================================
