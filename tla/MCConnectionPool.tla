------------------------- MODULE MCConnectionPool -------------------------
(* Values of the constants of ConnectionPool for TLC. *)
EXTENDS ConnectionPool, TLC

CallerSymmetry == Permutations(Callers) \cup Permutations(Backends)
=============================================================================
