--------------------------- MODULE MCQueueService ---------------------------
(* Values of the constants of QueueService for TLC. *)
EXTENDS QueueService, TLC

RequestSymmetry == Permutations(Requests)
=============================================================================
