-------------------------- MODULE MCConnectionPool --------------------------
(* Small instances of ConnectionPool for TLC.                               *)
EXTENDS ConnectionPool, TLC

CONSTANTS t1, t2

Symmetry == Permutations(Threads)
=============================================================================
