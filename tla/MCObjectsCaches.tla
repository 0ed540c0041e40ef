--------------------------- MODULE MCObjectsCaches ---------------------------
(* ObjectsCaches with one key, as keys do not touch each other.            *)
EXTENDS ObjectsCaches, TLC

CONSTANTS t1, t2, o1, o2, k1

Interchangeable == Permutations({t1, t2}) \cup Permutations({o1, o2})

=============================================================================
