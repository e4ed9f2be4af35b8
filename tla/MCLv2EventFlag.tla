--------------------------- MODULE MCLv2EventFlag ---------------------------
(***************************************************************************)
(* Small instances of Lv2EventFlag.  The requests are an AND that clears   *)
(* its bits, which depends on old bits and consumes what others wait for,  *)
(* and an OR that clears the whole pattern, which ends the loop of set     *)
(* early.  The instance with three bits adds an OR that clears nothing.    *)
(***************************************************************************)
EXTENDS Lv2EventFlag, TLC

CONSTANTS t1, t2, t3, t4, t5, b1, b2, b3

Request(b, all, clear) == [bits |-> b, all |-> all, clear |-> clear]

\* Two bits.
MCThreads == {t1, t2, t3}
MCPrio == [t \in MCThreads |-> IF t = t1 THEN 2 ELSE 1]
MCBits == {b1, b2}
MCRequests == {Request({b1, b2}, TRUE, "bits"), Request({b1}, FALSE, "all")}
MCInitArgs == {{b2}}
MCSetArgs == {{b1}}
MCClearArgs == {{}}
Symmetry == Permutations({t2, t3})

(***************************************************************************)
(* A savestate is made while two threads use the flag: the third has been  *)
(* stopped in guest code, and stays there until they repeat their calls.   *)
(* No timeout comes in between.                                            *)
(***************************************************************************)
TwoInSavestate ==
  /\ stopped # {} => t1 \in stopped
  /\ stopped # {} \/ (\E t \in {t2, t3} : pc[t] = "again") =>
       pc[t1] = "idle" /\ \A t \in {t2, t3} : pc[t] \notin {"resched", "recheck"}

\* Three bits, three waiters, one thread that sets and one that clears.
AtomicThreads == {t1, t2, t3, t4, t5}
AtomicPrio == [t \in AtomicThreads |-> 1]
AtomicBits == {b1, b2, b3}
AtomicRequests == {Request({b1, b2}, TRUE, "bits"), Request({b2}, FALSE, "all"),
                   Request({b3}, FALSE, "no")}
AtomicInitArgs == {{b1}}
AtomicSetArgs == {{b2, b3}}
AtomicClearArgs == {{b2, b3}}
AtomicRoles ==
  /\ \A t \in {t1, t2, t3} : call[t].name \in {"none", "wait"}
  /\ call[t4].name \in {"none", "set"} /\ call[t5].name = "none"

=============================================================================
