----------------------- MODULE Lv2SemaphoreRefinement -----------------------
(***************************************************************************)
(* The LV2 semaphore implements the abstract one of module Semaphore.      *)
(***************************************************************************)
EXTENDS Lv2Semaphore

\* The order in which the threads of a sleep queue came.
Arrival(q) ==
  {p \in Queued(q) \X Queued(q) :
     \E i, j \in DOMAIN q : i < j /\ p = <<q[i], q[j]>>}

\* Refinement mapping: the waiters that a post in progress owes a wake-up
\* have their permit already.
pending == INSTANCE Semaphore WITH
             avail <- 0, waiting <- Queued(sq), older <- Arrival(sq), granted <- {}
abstractWaiting == Queued(sq) \ pending!First(Queued(sq), Arrival(sq), owed)
available == IF val > 0 THEN val ELSE 0
abstractOlder == pending!Among(abstractWaiting, Arrival(sq))
abstractGranted == {t \in Threads : InWaitLoop(t) /\ t \notin abstractWaiting}
S == INSTANCE Semaphore WITH
       avail <- available, waiting <- abstractWaiting, older <- abstractOlder,
       granted <- abstractGranted

\* The system calls implement the abstract semaphore.
ImplementsSemaphore == S!Spec

=============================================================================
