------------------------ MODULE MCMongoQueueClient ------------------------
(* Values of the constants of MongoQueueClient for TLC. *)
EXTENDS MongoQueueClient, TLC

CallSymmetry == Permutations(Messages) \cup Permutations(Consumers)
=============================================================================
