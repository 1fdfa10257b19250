--------------------------- MODULE MCDurableQueue ---------------------------
(* Small instances of DurableQueue for TLC. *)
EXTENDS DurableQueue, TLC

CONSTANTS p1, p2, c1, c2

\* The goroutines of one kind are interchangeable.
Symmetry == Permutations(Producers) \cup Permutations(Consumers)
=============================================================================
