----------------------------- MODULE Semaphore ------------------------------
(***************************************************************************)
(* What a counting semaphore promises to the threads that use it; the      *)
(* system calls of module Lv2Semaphore implement it.                       *)
(*                                                                         *)
(* A permit is never idle while a thread waits for one: a post hands its   *)
(* permits, in one step, to the waiters that the protocol puts first, and  *)
(* only what is left becomes available.  A thread that waits leaves with a *)
(* permit or by its timeout, and never loses a permit it was given.        *)
(***************************************************************************)
EXTENDS Integers, FiniteSets

CONSTANTS Threads, Prio, Protocol, MaxVal, Counts

VARIABLES exists,   \* a semaphore is there to be used
          avail,    \* the permits that nobody has
          waiting,  \* the threads that wait
          older,    \* <<t, u>>: the waiter t came before the waiter u
          granted   \* threads that were given a permit and have not returned

vars == <<exists, avail, waiting, older, granted>>

\* The pairs of an order that are about the threads of W.
Among(W, order) == order \intersect (W \X W)

\* The protocol prefers the waiter t to the waiter u.
Before(order, t, u) ==
  \/ Protocol = "SYS_SYNC_FIFO" /\ <<t, u>> \in order
  \/ /\ Protocol = "SYS_SYNC_PRIORITY"
     /\ \/ Prio[t] < Prio[u]
        \/ Prio[t] = Prio[u] /\ <<t, u>> \in order

\* The n waiters of W that the protocol prefers, all if there are fewer.
First(W, order, n) ==
  {t \in W : Cardinality({u \in W : Before(order, u, t)}) < n}

Init ==
  /\ exists = TRUE
  /\ avail \in 0 .. MaxVal
  /\ waiting = {}
  /\ older = {}
  /\ granted = {}

Acquire(t) ==
  /\ exists
  /\ t \notin waiting \union granted
  /\ avail > 0
  /\ avail' = avail - 1
  /\ UNCHANGED <<exists, waiting, older, granted>>

Block(t) ==
  /\ exists
  /\ t \notin waiting \union granted
  /\ avail = 0
  /\ waiting' = waiting \union {t}
  /\ older' = older \union (waiting \X {t})
  /\ UNCHANGED <<exists, avail, granted>>

Post(n) ==
  LET S == First(waiting, older, n)
  IN /\ avail' = avail + n - Cardinality(S)
     /\ avail' <= MaxVal
     /\ waiting' = waiting \ S
     /\ older' = Among(waiting', older)
     /\ granted' = granted \union S
     /\ UNCHANGED exists

Return(t) ==
  /\ t \in granted
  /\ granted' = granted \ {t}
  /\ UNCHANGED <<exists, avail, waiting, older>>

Timeout(t) ==
  /\ t \in waiting
  /\ waiting' = waiting \ {t}
  /\ older' = Among(waiting', older)
  /\ UNCHANGED <<exists, avail, granted>>

Destroy ==
  /\ exists
  /\ waiting = {}
  /\ exists' = FALSE
  /\ UNCHANGED <<avail, waiting, older, granted>>

Create ==
  /\ ~exists
  /\ granted = {}
  /\ exists' = TRUE
  /\ avail' \in 0 .. MaxVal
  /\ UNCHANGED <<waiting, older, granted>>

Next ==
  \/ \E t \in Threads :
       Acquire(t) \/ Block(t) \/ Return(t) \/ Timeout(t)
  \/ \E n \in Counts : n > 0 /\ Post(n)
  \/ Destroy \/ Create

Spec == Init /\ [][Next]_vars

=============================================================================
