------------------------------ MODULE MCLv2Cond -----------------------------
(***************************************************************************)
(* Small instances of Lv2Cond: three threads, t1 more urgent than the      *)
(* others, one mutex and one condition variable.                           *)
(***************************************************************************)
EXTENDS Lv2Cond, TLC

CONSTANTS t1, t2, t3

MCThreads == {t1, t2, t3}
MCPrio == [t \in MCThreads |-> IF t = t1 THEN 1 ELSE 2]

\* The threads of equal priority are interchangeable.
Symmetry == Permutations({t2, t3})

\* Two threads are enough for every step with a savestate.
SavestateThreads == {t1, t2}
SavestatePrio == [t \in SavestateThreads |-> 1]

=============================================================================
