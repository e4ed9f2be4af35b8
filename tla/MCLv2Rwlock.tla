---------------------------- MODULE MCLv2Rwlock -----------------------------
(***************************************************************************)
(* Small instances of Lv2Rwlock: three threads, t1 less urgent than the    *)
(* others, so that a priority queue reorders them and equal priorities     *)
(* occur as well.                                                          *)
(***************************************************************************)
EXTENDS Lv2Rwlock, TLC

CONSTANTS t1, t2, t3

MCThreads == {t1, t2, t3}
MCPrio == [t \in MCThreads |-> IF t = t1 THEN 2 ELSE 1]

\* The threads of equal priority are interchangeable.
Symmetry == Permutations({t2, t3})

=============================================================================
