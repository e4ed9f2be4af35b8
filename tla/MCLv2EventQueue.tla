--------------------------- MODULE MCLv2EventQueue --------------------------
(***************************************************************************)
(* Small instances of Lv2EventQueue: three threads, one of them less       *)
(* urgent than the others, so that a send can wait for its receiver.       *)
(***************************************************************************)
EXTENDS Lv2EventQueue, TLC

CONSTANTS t1, t2, t3, e1, e2

MCThreads == {t1, t2, t3}
MCPrio == [t \in MCThreads |-> IF t = t1 THEN 2 ELSE 1]
MCEvents == {e1, e2}
Symmetry == Permutations({t2, t3}) \union Permutations(MCEvents)

(***************************************************************************)
(* While a savestate is made, the port is there, at most one receive with  *)
(* a timeout is under way, and no sender is stopped between the two parts  *)
(* of a send, which is the subject of SentOnce.                            *)
(***************************************************************************)
PlainSavestate ==
  /\ stopped # {} => port
  /\ stopped # {} => \A t, u \in MCThreads : call[t].timed /\ call[u].timed => t = u
  /\ \A t \in MCThreads : pc[t] = "again" => ~call[t].delivered

=============================================================================
