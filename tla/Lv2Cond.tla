------------------------------- MODULE Lv2Cond ------------------------------
(***************************************************************************)
(* The LV2 condition variable, kernel/cellos/src/sys_cond.cpp, together    *)
(* with its mutex (module Lv2Mutex), which all of its operations change.   *)
(* A waiter sleeps in the queue of the condition variable; a signal gives  *)
(* it the mutex or moves it to the queue of the mutex, where it sleeps on. *)
(* A timeout moves it as well.  It leaves the wait loop as the owner of    *)
(* the mutex and puts back the recursion count.                            *)
(*                                                                         *)
(* The critical sections of the host mutex are single steps.  A signal     *)
(* that is put off because its caller was suspended (finished = false) has *)
(* done nothing yet and is left out with preemption.                       *)
(***************************************************************************)
EXTENDS Lv2Mutex

VARIABLES condExists,  \* the id is in the id manager
          csq,         \* lv2_cond::sq
          count,       \* the recursion count in the thread's sys_cond_wait
          sstate       \* optional_savestate_state: in which queue it slept

condOnly == <<condExists, csq, count, sstate>>
condVars == <<vars, condOnly>>

CondCalls == {"cond_wait", "cond_signal", "cond_signal_all", "cond_signal_to"}

\* Type invariant.
CondTypeOK ==
  /\ ThreadsTypeOK
  /\ exists \in BOOLEAN /\ condExists \in BOOLEAN
  /\ owner \in Threads \union {NoThread}
  /\ lock_count \in 0 .. MaxCount
  /\ sq \in Seq(Threads) /\ csq \in Seq(Threads)
  /\ pc \in [Threads -> Labels]
  /\ call \in [Threads -> [name : {"none", "lock", "unlock"} \union CondCalls,
                           timed : BOOLEAN]]
  /\ cancelSleep \in SUBSET Threads
  /\ held \in [Threads -> 0 .. MaxCount + 1]
  /\ count \in [Threads -> 0 .. MaxCount]
  /\ sstate \in [Threads -> {"none", "cond", "mutex"}]

CondInit ==
  /\ Init
  /\ condExists = TRUE
  /\ csq = <<>>
  /\ count = [t \in Threads |-> 0]
  /\ sstate = [t \in Threads |-> "none"]

-----------------------------------------------------------------------------
\* Mutant: the recursion count is forgotten.
RestoredNone(t) == 0

\* The recursion count of a thread that returns from sys_cond_wait.
Restored(t) == count[t]

\* Leave the wait loop: verify ownership, restore the recursive value.
EndCondWait(t) ==
  /\ owner = t      \* ensure, the program aborts if not
  /\ lock_count' = Restored(t)
  /\ count' = [count EXCEPT ![t] = 0]
  /\ Return(t, held[t])

\* Mutant: the waiter is queued although nobody owns the mutex.
GiveMutexNever(u, q) == sq' = q /\ UNCHANGED <<owner, run>>

\* try_own for a waiter, and awake if it owns the mutex now; q is the queue of
\* the mutex with the waiter.
GiveMutex(u, q) ==
  IF owner = NoThread
  THEN owner' = u /\ run' = awake({u}) /\ UNCHANGED sq
  ELSE sq' = q /\ UNCHANGED <<owner, run>>

\* A waiter in the queue has left for a savestate: so does the caller.
CondAgain(t, c) ==
  /\ stopped' = stopped \union {t}
  /\ Goto(t, "again")
  /\ call' = [call EXCEPT ![t] = c]
  /\ UNCHANGED held

CondEnters(t, c) == condExists /\ Enters(t, c)

(***************************************************************************)
(* sys_cond_wait: queue, unlock the mutex and sleep.  The recursion count  *)
(* is taken before the waiter that would own the mutex next is known.      *)
(***************************************************************************)
CondWait(t, timed) ==
  LET c == Call("cond_wait", timed)
  IN /\ CondEnters(t, c)
     /\ t \notin loading
     /\ owner = t /\ held[t] > 0
     /\ lock_count' = 0
     /\ \/ /\ ~NextIsAgain
           /\ csq' = emplace(csq, t)
           /\ count' = [count EXCEPT ![t] = lock_count]
           /\ reown
           /\ run' = [awake(NextOwner) EXCEPT ![t] = sleep(t)[t]]
           /\ cancelSleep' = cancelled(NextOwner)
           /\ Begin(t, c, "wait")
           /\ UNCHANGED stopped
        \/ /\ NextIsAgain
           /\ CondAgain(t, c)
           /\ UNCHANGED <<owner, sq, csq, run, cancelSleep, count>>
     /\ sstate' = [sstate EXCEPT ![t] = "none"]
     /\ UNCHANGED <<exists, condExists, signal, loading>>

\* After a load, by a thread that was saved as runnable: CELL_EPERM.
CondWaitPerm(t) ==
  /\ pc[t] = "again" /\ call[t].name = "cond_wait"
  /\ CanEnter(t) /\ t \notin loading
  /\ owner # t
  /\ Return(t, 0)
  /\ count' = [count EXCEPT ![t] = 0]
  /\ UNCHANGED <<exists, owner, lock_count, sq, threadVars, cancelSleep, condExists, csq, sstate>>

\* After a load, by a thread that was asleep: back to the queue it was in.
CondWaitLoaded(t) ==
  /\ pc[t] = "again" /\ call[t].name = "cond_wait"
  /\ CanEnter(t) /\ t \in loading
  /\ IF sstate[t] = "mutex"
     THEN /\ owner # NoThread      \* ensure, the program aborts if not
          /\ sq' = emplace(sq, t)
          /\ UNCHANGED csq
     ELSE csq' = emplace(csq, t) /\ UNCHANGED sq
  /\ run' = sleep(t)
  /\ loading' = slept(t)
  /\ sstate' = [sstate EXCEPT ![t] = "none"]
  /\ Continue(t, "wait")
  /\ UNCHANGED <<exists, owner, lock_count, signal, stopped, cancelSleep, condExists, count>>

\* cpu_flag::signal in the wait loop
CondWaitSignal(t) ==
  /\ call[t].name = "cond_wait"
  /\ WaitEnds(t)
  /\ EndCondWait(t)
  /\ UNCHANGED <<exists, owner, sq, cancelSleep, condExists, csq, sstate>>

CondWaitStopped(t) ==
  /\ call[t].name = "cond_wait"
  /\ pc[t] = "wait"
  /\ t \in stopped
  /\ IF t \in Queued(csq) \union Queued(sq)
     THEN /\ sstate' = [sstate EXCEPT ![t] = IF t \in Queued(sq) THEN "mutex" ELSE "cond"]
          /\ Continue(t, "again")
          /\ UNCHANGED <<lock_count, count>>
     ELSE EndCondWait(t) /\ UNCHANGED sstate
  /\ UNCHANGED <<exists, owner, sq, threadVars, cancelSleep, condExists, csq>>

\* Mutant: the thread does not look at the owner.
OwnsOrFreeAlways(t) == TRUE

\* The thread leaves the wait loop after its timeout: it was not in the queue
\* any more and is the owner, or it was and the mutex is free.
OwnsOrFree(t) == owner = IF t \in Queued(csq) THEN NoThread ELSE t

\* Mutant: the thread stays in the queue.
CancelledNot(t) == csq

\* The queue without the thread, if it is still there.
Cancelled(t) == IF t \in Queued(csq) THEN unqueue(csq, t) ELSE csq

\* The end of a timeout: leave the queue; own the mutex or sleep on in its
\* queue, without a timeout.
CondRecheck(t) ==
  /\ call[t].name = "cond_wait"
  /\ pc[t] = "recheck"
  /\ csq' = Cancelled(t)
  /\ IF OwnsOrFree(t)
     THEN /\ owner' = t
          /\ lock_count' = Restored(t)
          /\ count' = [count EXCEPT ![t] = 0]
          /\ Return(t, held[t])
          /\ UNCHANGED <<sq, run>>
     ELSE /\ sq' = IF t \in Queued(csq) THEN emplace(sq, t) ELSE sq
          /\ run' = sleep(t)
          /\ Begin(t, Call("cond_wait", FALSE), "wait")
          /\ UNCHANGED <<owner, lock_count, count>>
  /\ UNCHANGED <<exists, signal, stopped, loading, cancelSleep, condExists, sstate>>

-----------------------------------------------------------------------------
\* sys_cond_signal
CondSignal(t) ==
  LET c == Call("cond_signal", FALSE)
      i == schedule(csq)
  IN /\ CondEnters(t, c)
     /\ csq # <<>>
     /\ \/ /\ pc[csq[i]] # "again"
           /\ csq' = Unlink(csq, i)
           /\ GiveMutex(csq[i], emplace(sq, csq[i]))
           /\ Return(t, held[t])
           /\ UNCHANGED stopped
        \/ /\ pc[csq[i]] = "again"
           /\ CondAgain(t, c)
           /\ UNCHANGED <<owner, sq, csq, run>>
     /\ UNCHANGED <<exists, lock_count, signal, loading, cancelSleep, condExists, count, sstate>>

\* The orders of a queue with the most urgent thread first and the oldest among
\* equals: there is one.
ByPriority(q) ==
  {s \in [DOMAIN q -> Queued(q)] :
     /\ Queued(s) = Queued(q)
     /\ \A i, j \in DOMAIN q : i < j =>
          LET a == CHOOSE k \in DOMAIN q : q[k] = s[i]
              b == CHOOSE k \in DOMAIN q : q[k] = s[j]
          IN Prio[s[i]] < Prio[s[j]] \/ (Prio[s[i]] = Prio[s[j]] /\ a < b)}

\* sys_cond_signal_all: try_own for one after the other, by priority
CondSignalAll(t) ==
  LET c == Call("cond_signal_all", FALSE)
  IN /\ CondEnters(t, c)
     /\ csq # <<>>
     /\ \/ /\ \A u \in Queued(csq) : pc[u] # "again"
           /\ csq' = <<>>
           /\ \E s \in ByPriority(csq) :
                IF owner = NoThread
                THEN owner' = s[1] /\ run' = awake({s[1]}) /\ sq' = sq \o Tail(s)
                ELSE sq' = sq \o s /\ UNCHANGED <<owner, run>>
           /\ Return(t, held[t])
           /\ UNCHANGED stopped
        \/ /\ \E u \in Queued(csq) : pc[u] = "again"
           /\ CondAgain(t, c)
           /\ UNCHANGED <<owner, sq, csq, run>>
     /\ UNCHANGED <<exists, lock_count, signal, loading, cancelSleep, condExists, count, sstate>>

\* sys_cond_signal_to
CondSignalTo(t, u) ==
  LET c == Call("cond_signal_to", FALSE)
  IN /\ CondEnters(t, c)
     /\ u \in Queued(csq)
     /\ \/ /\ pc[u] # "again"
           /\ csq' = unqueue(csq, u)
           /\ GiveMutex(u, emplace(sq, u))
           /\ Return(t, held[t])
           /\ UNCHANGED stopped
        \/ /\ pc[u] = "again"
           /\ CondAgain(t, c)
           /\ UNCHANGED <<owner, sq, csq, run>>
     /\ UNCHANGED <<exists, lock_count, signal, loading, cancelSleep, condExists, count, sstate>>

\* After a load a signal may find nobody to wake, and signal_to not the thread
\* it is for: CELL_OK or CELL_EPERM.
CondSignalNobody(t) ==
  /\ pc[t] = "again" /\ call[t].name \in CondCalls \ {"cond_wait"}
  /\ CanEnter(t)
  /\ csq = <<>> \/ call[t].name = "cond_signal_to"
  /\ Return(t, held[t])
  /\ UNCHANGED <<exists, owner, lock_count, sq, threadVars, cancelSleep, condOnly>>

\* sys_cond_destroy, not while threads wait in its queue
CondDestroy(t) ==
  /\ condExists /\ Idle(t)
  /\ csq = <<>>
  /\ condExists' = FALSE
  /\ UNCHANGED <<vars, csq, count, sstate>>

\* sys_cond_create, once no thread refers to the previous one
CondCreate(t) ==
  /\ exists /\ ~condExists /\ Idle(t)
  /\ \A u \in Threads : call[u].name \notin CondCalls
  /\ condExists' = TRUE
  /\ UNCHANGED <<vars, csq, count, sstate>>

CondLoad == Load /\ csq' = <<>> /\ UNCHANGED <<condExists, count, sstate>>

-----------------------------------------------------------------------------
CondStep(t) ==
  \/ CondWaitSignal(t) \/ CondWaitStopped(t) \/ CondRecheck(t)
  \/ Step(t) /\ UNCHANGED condOnly

CondEnter(t) ==
  \/ \E timed \in BOOLEAN : CondWait(t, timed)
  \/ CondWaitPerm(t) \/ CondWaitLoaded(t)
  \/ CondSignal(t) \/ CondSignalAll(t) \/ \E u \in Threads : CondSignalTo(t, u)
  \/ CondSignalNobody(t) \/ CondDestroy(t) \/ CondCreate(t)

\* The mutex is not destroyed while it has a condition variable (cond_count).
MutexEnter(t) ==
  \/ \E timed \in BOOLEAN : Lock(t, timed)
  \/ TryLock(t) \/ Unlock(t)
  \/ ~condExists /\ Destroy(t)
  \/ Create(t)

CondNext ==
  \/ \E t \in Threads :
       CondStep(t) \/ CondEnter(t) \/ ((MutexEnter(t) \/ Schedule(t) \/ Stop(t)) /\ UNCHANGED condOnly)
  \/ CondLoad

CondSpec == CondInit /\ [][CondNext]_condVars

(***************************************************************************)
(* Fairness: the host runs every thread, the scheduler                     *)
(* gets round to every thread, and no thread keeps the mutex for ever.     *)
(***************************************************************************)
CondFairness ==
  \A t \in Threads :
    /\ WF_condVars(CondStep(t) \/ (Schedule(t) /\ UNCHANGED condOnly))
    /\ WF_condVars(Unlock(t) /\ UNCHANGED condOnly)
    /\ SF_condVars(Unlock(t) /\ lock_count = 0 /\ UNCHANGED condOnly)

CondFairSpec == CondSpec /\ CondFairness

-----------------------------------------------------------------------------
CondWaiting(t) == call[t].name = "cond_wait" /\ InWaitLoop(t)

\* The thread was given the mutex in sys_cond_wait and does not know yet.
CondGranted(t) == CondWaiting(t) /\ t \notin Queued(sq) \union Queued(csq)

\* The threads that believe they hold the mutex, or are about to.
Holders ==
  {t \in Threads : \/ held[t] > 0 /\ call[t].name # "cond_wait"
                   \/ Granted(t) \/ CondGranted(t)}

(***************************************************************************)
(* Mutual exclusion across wait, signal and timeout: the owner is the only *)
(* thread that may return from lock or sys_cond_wait.                      *)
(***************************************************************************)
CondOwnerMatchesHolder == Holders = {owner} \ {NoThread}

\* A thread waits in at most one place of one queue, whoever moves it.
OneQueue ==
  /\ NoDuplicates(sq) /\ NoDuplicates(csq)
  /\ Queued(sq) \intersect Queued(csq) = {}

(***************************************************************************)
(* No wake-up is lost: a thread that was handed the mutex is awake, or it  *)
(* has queued in sys_mutex_lock, has not gone to sleep yet and will find   *)
(* its sleep cancelled.                                                    *)
(***************************************************************************)
NoLostWakeup ==
  \A t \in Threads : Granted(t) \/ CondGranted(t) =>
    /\ pc[t] = "wait" => run[t] # "asleep"
    /\ pc[t] = "lock_sleep" => t \in cancelSleep

(***************************************************************************)
(* The recursion count follows its thread: a thread that waits gets back   *)
(* what it had, and nobody else sees it.                                   *)
(***************************************************************************)
CountRestored ==
  /\ \A t \in Threads : CondWaiting(t) => count[t] + 1 = held[t]
  /\ owner # NoThread =>
       lock_count + 1 = (IF Granted(owner) \/ CondGranted(owner) THEN 1 ELSE held[owner])

(***************************************************************************)
(* A thread that waits for the mutex gets out: because it has locked it,   *)
(* or because its wait on the condition variable was signalled or is over; *)
(* if whoever holds the mutex unlocks it and no more urgent thread wants   *)
(* it.                                                                     *)
(***************************************************************************)
WaitReturns ==
  \A t \in Threads : Urgent(t) =>
    InWaitLoop(t) /\ (t \notin Queued(csq) \/ call[t].timed) ~> ~InWaitLoop(t)

(***************************************************************************)
(* A thread that slept in the queue of the mutex, in sys_mutex_lock or     *)
(* after a signal (sys_cond.cpp:371, "Mutex sleep"), finds the mutex taken *)
(* after a load, and not by itself: it sleeps again, so that g_to_sleep    *)
(* empties and the scheduler can start.                                    *)
(***************************************************************************)
LoadedMutexSleeps ==
  \A t \in loading :
    call[t].name = "lock" \/ sstate[t] = "mutex" => exists /\ owner \notin {NoThread, t}

=============================================================================
