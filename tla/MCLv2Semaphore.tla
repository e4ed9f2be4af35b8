--------------------------- MODULE MCLv2Semaphore ---------------------------
(* Lv2Semaphore with three threads of two priorities. *)
EXTENDS Lv2SemaphoreRefinement, TLC

CONSTANTS t1, t2, t3

MCThreads == {t1, t2, t3}
MCPrio == [t \in Threads |-> IF t = t1 THEN 1 ELSE 2]
MCCounts == {0, 1, 2}

\* t2 and t3 have the same priority.
Symmetry == Permutations({t2, t3})

=============================================================================
