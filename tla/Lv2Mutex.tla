------------------------------ MODULE Lv2Mutex ------------------------------
(***************************************************************************)
(* The LV2 mutex, kernel/cellos/src/sys_mutex.cpp and its header, used by  *)
(* PPU threads that unlock only what they have locked.                     *)
(*                                                                         *)
(* owner and sq share one 16-byte word that is changed by compare-and-swap *)
(* only.  A thread that finds the mutex taken queues itself with one such  *)
(* step and goes to sleep with another, without the host mutex: an unlock  *)
(* in between hands it the mutex while it is still running.  awake then    *)
(* leaves a mark in cancel_sleep, which the sleep that follows obeys.      *)
(*                                                                         *)
(* The critical sections of the host mutex are single steps.  held is not  *)
(* a variable of the program: it is how many times the system calls have   *)
(* told the thread that it has locked the mutex.                           *)
(*                                                                         *)
(* The mutex is checked together with its condition variable: Lv2Cond has  *)
(* the next-state relation of both, and the properties.                    *)
(***************************************************************************)
EXTENDS Lv2Obj

CONSTANTS Recursive,  \* SYS_SYNC_RECURSIVE
          MaxCount    \* the limit of lock_count, 0xffffffff in the code

ASSUME MutexAssumption == Recursive \in BOOLEAN /\ MaxCount \in Nat

VARIABLES exists,        \* the id is in the id manager
          owner,         \* control_data_t::owner
          lock_count,    \* lv2_mutex::lock_count, the locks after the first
          sq,            \* control_data_t::sq
          call,          \* the system call and whether it has a timeout
          cancelSleep,   \* threads with cancel_sleep = 2
          held           \* what each thread was told

threadVars == <<run, signal, stopped, loading>>
vars == <<exists, owner, lock_count, sq, threadVars, pc, call, cancelSleep, held>>

Call(name, timed) == [name |-> name, timed |-> timed]
NoCall == Call("none", FALSE)

Labels == WaitLabels \union {"lock_own", "lock_sleep", "unlock_reown"}

Init ==
  /\ ThreadsInit
  /\ exists = TRUE
  /\ owner = NoThread
  /\ lock_count = 0
  /\ sq = <<>>
  /\ call = [t \in Threads |-> NoCall]
  /\ cancelSleep = {}
  /\ held = [t \in Threads |-> 0]

-----------------------------------------------------------------------------
\* The system call ends and has told the thread that it holds n locks.
Return(t, n) ==
  /\ Goto(t, "idle")
  /\ call' = [call EXCEPT ![t] = NoCall]
  /\ held' = [held EXCEPT ![t] = n]

Continue(t, label) == Goto(t, label) /\ UNCHANGED <<call, held>>

Enters(t, c) ==
  /\ exists
  /\ CanEnter(t)
  /\ pc[t] = "idle" \/ (pc[t] = "again" /\ call[t] = c)

Begin(t, c, label) == Goto(t, label) /\ call' = [call EXCEPT ![t] = c] /\ UNCHANGED held

\* Operations that run inside an idm callback, which withdraw excludes.
InCallback(t) == pc[t] \in {"lock_own", "lock_sleep", "unlock_reown"}

\* A recursive lock, unless it is CELL_EKRESOURCE.
CanRecurse(t) == owner = t /\ Recursive /\ lock_count < MaxCount

\* try_lock: the mutex is free, or it is recursive and the thread's own
try_lock(t) ==
  \/ /\ owner = NoThread
     /\ owner' = t
     /\ UNCHANGED lock_count
  \/ /\ CanRecurse(t)
     /\ lock_count' = lock_count + 1
     /\ UNCHANGED owner

\* try_own: take the mutex or queue for it
try_own(t) ==
  IF owner = NoThread
  THEN owner' = t /\ UNCHANGED sq
  ELSE sq' = emplace(sq, t) /\ UNCHANGED owner

\* The waiter that reown finds has left for a savestate.
NextIsAgain == sq # <<>> /\ pc[sq[schedule(sq)]] = "again"

\* reown: hand the mutex to the next waiter, if any
reown ==
  IF sq = <<>>
  THEN owner' = NoThread /\ UNCHANGED sq
  ELSE owner' = sq[schedule(sq)] /\ sq' = Unlink(sq, schedule(sq))

\* The threads that reown hands the mutex to.
NextOwner == IF sq = <<>> THEN {} ELSE {sq[schedule(sq)]}

\* Mutant: a thread that still runs is not told.
cancelledNever(S) == cancelSleep

\* What awake does to cancel_sleep of threads that still run.
cancelled(S) == cancelSleep \union {u \in S : pc[u] = "lock_sleep"}

-----------------------------------------------------------------------------
\* sys_mutex_lock: try_lock
Lock(t, timed) ==
  /\ Enters(t, Call("lock", timed))
  /\ \/ try_lock(t) /\ Return(t, held[t] + 1)
     \/ /\ owner \notin {NoThread, t}
        /\ Begin(t, Call("lock", timed), "lock_own")
        /\ UNCHANGED <<owner, lock_count>>
  /\ UNCHANGED <<exists, sq, threadVars, cancelSleep>>

LockOwn(t) ==
  /\ pc[t] = "lock_own"
  /\ try_own(t)
  /\ IF owner' = t THEN Return(t, 1) ELSE Continue(t, "lock_sleep")
  /\ UNCHANGED <<exists, lock_count, threadVars, cancelSleep>>

\* sleep.  A cancelled one is a short yield: the thread leaves the scheduler's
\* queue, and the check_state at the end of the system call puts it back.
LockSleep(t) ==
  /\ pc[t] = "lock_sleep"
  /\ run' = sleep(t)
  /\ loading' = slept(t)
  /\ cancelSleep' = cancelSleep \ {t}
  /\ Continue(t, IF t \in cancelSleep THEN "resched" ELSE "wait")
  /\ UNCHANGED <<exists, owner, lock_count, sq, signal, stopped>>

\* sys_mutex_trylock
TryLock(t) ==
  /\ exists /\ Idle(t)
  /\ try_lock(t)
  /\ held' = [held EXCEPT ![t] = @ + 1]
  /\ UNCHANGED <<exists, sq, threadVars, pc, call, cancelSleep>>

\* cpu_flag::signal in the wait loop: CELL_OK
WaitSignal(t) ==
  /\ call[t].name = "lock"
  /\ WaitEnds(t)
  /\ Return(t, 1)
  /\ UNCHANGED <<exists, owner, lock_count, sq, cancelSleep>>

WaitStopped(t) ==
  /\ call[t].name = "lock"
  /\ pc[t] = "wait"
  /\ t \in stopped
  /\ IF t \in Queued(sq) THEN Continue(t, "again") ELSE Return(t, 1)
  /\ UNCHANGED <<exists, owner, lock_count, sq, threadVars, cancelSleep>>

WaitTimeout(t) ==
  /\ call[t].timed
  /\ wait_timeout(t)
  /\ UNCHANGED <<exists, owner, lock_count, sq, call, cancelSleep, held>>

CheckState(t) ==
  /\ cpu_sleep(t) \/ check_state(t)
  /\ UNCHANGED <<exists, owner, lock_count, sq, call, cancelSleep, held>>

\* CELL_ETIMEDOUT, or CELL_OK if the mutex was handed over.
RecheckResult(t) == IF t \in Queued(sq) THEN 0 ELSE 1

\* The end of a timeout, or of a sleep that was cancelled.
Recheck(t) ==
  /\ call[t].name = "lock"
  /\ pc[t] = "recheck"
  /\ sq' = IF t \in Queued(sq) THEN unqueue(sq, t) ELSE sq
  /\ Return(t, RecheckResult(t))
  /\ UNCHANGED <<exists, owner, lock_count, threadVars, cancelSleep>>

\* lock_count after the unlock of a recursive lock.
Unlocked == lock_count - 1

\* sys_mutex_unlock: try_unlock
Unlock(t) ==
  /\ Enters(t, Call("unlock", FALSE))
  /\ held[t] > 0 /\ owner = t
  /\ \/ /\ lock_count > 0
        /\ lock_count' = Unlocked
        /\ Return(t, held[t] - 1)
        /\ UNCHANGED owner
     \/ /\ lock_count = 0 /\ sq = <<>>
        /\ owner' = NoThread
        /\ Return(t, 0)
        /\ UNCHANGED lock_count
     \/ /\ lock_count = 0 /\ sq # <<>>
        /\ Begin(t, Call("unlock", FALSE), "unlock_reown")
        /\ UNCHANGED <<owner, lock_count>>
  /\ UNCHANGED <<exists, sq, threadVars, cancelSleep>>

\* Waiters were seen: hand the mutex over, unless the next one has left.
UnlockReown(t) ==
  /\ pc[t] = "unlock_reown"
  /\ \/ /\ ~NextIsAgain
        /\ reown
        /\ run' = awake(NextOwner)
        /\ cancelSleep' = cancelled(NextOwner)
        /\ Return(t, 0)
        /\ UNCHANGED stopped
     \/ /\ NextIsAgain
        /\ stopped' = stopped \union {t}
        /\ Continue(t, "again")
        /\ UNCHANGED <<owner, sq, run, cancelSleep>>
  /\ UNCHANGED <<exists, lock_count, signal, loading>>

\* sys_mutex_destroy, not with an owner
Destroy(t) ==
  /\ exists /\ Idle(t)
  /\ ~ \E u \in Threads : InCallback(u)
  /\ owner = NoThread
  /\ exists' = FALSE
  /\ UNCHANGED <<owner, lock_count, sq, threadVars, pc, call, cancelSleep, held>>

\* sys_mutex_create, once no thread refers to the previous mutex
Create(t) ==
  /\ ~exists /\ Idle(t)
  /\ \A u \in Threads : pc[u] = "idle"
  /\ exists' = TRUE
  /\ UNCHANGED <<owner, lock_count, sq, threadVars, pc, call, cancelSleep, held>>

Schedule(t) ==
  schedule_all(t) /\ UNCHANGED <<exists, owner, lock_count, sq, call, cancelSleep, held>>

Stop(t) == stop(t) /\ UNCHANGED <<exists, owner, lock_count, sq, call, cancelSleep, held>>

\* Mutant: a mutex is loaded without its owner.
savedFree == NoThread

\* lv2_mutex::save
saved == owner

\* The constructor that loads a mutex; its queue fills up again.
Load ==
  /\ load
  /\ owner' = saved
  /\ sq' = <<>>
  /\ UNCHANGED <<exists, lock_count, call, cancelSleep, held>>

-----------------------------------------------------------------------------
\* The steps of a thread in a system call.
Step(t) ==
  \/ LockOwn(t) \/ LockSleep(t) \/ WaitSignal(t) \/ WaitStopped(t) \/ WaitTimeout(t)
  \/ CheckState(t) \/ Recheck(t) \/ UnlockReown(t)

-----------------------------------------------------------------------------
\* The thread was handed the mutex while it waited and does not know yet.
Granted(t) ==
  call[t].name = "lock" /\ (InWaitLoop(t) \/ pc[t] = "lock_sleep") /\ t \notin Queued(sq)

\* Nobody waits for a free mutex: it is handed over, not released.
WaitersHaveOwner == sq # <<>> => owner # NoThread

=============================================================================
