----------------------------- MODULE MCLv2Sched -----------------------------
(***************************************************************************)
(* The instance of Lv2Sched for TLC: two urgent and two less urgent        *)
(* threads on two hardware threads, the value of ppu_threads that          *)
(* rpcs3/Emu/system_config.h sets.  One thread waits with timeouts and the *)
(* priority of another one changes.                                        *)
(***************************************************************************)
EXTENDS Lv2Sched, TLC

CONSTANTS t1, t2, t3, t4

MCPrios == {1, 2}
MCInitPrio == (t1 :> 1) @@ (t2 :> 1) @@ (t3 :> 2) @@ (t4 :> 2)
MCInitQueue == <<t1, t2, t3, t4>>

=============================================================================
