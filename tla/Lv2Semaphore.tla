---------------------------- MODULE Lv2Semaphore ----------------------------
(***************************************************************************)
(* The LV2 counting semaphore, kernel/cellos/src/sys_semaphore.cpp, used   *)
(* by a set of PPU threads.                                                *)
(*                                                                         *)
(* val is the number of permits, or minus the number of waiters.  wait and *)
(* post first try a compare-and-swap on a value they loaded, and take the  *)
(* host mutex only when that fails; trywait never takes it.  A step of the *)
(* model is one atomic operation on val or one critical section of the     *)
(* mutex, except that the critical section of post is split after the      *)
(* update of val, because waits and posts that need no mutex run between   *)
(* that update and the wake-ups.                                           *)
(*                                                                         *)
(* Savestates: the threads are stopped one by one; a thread that is still  *)
(* queued, or a post that finds such a thread in the queue, leaves its     *)
(* system call with cpu_flag::again.  Load rebuilds the semaphore from     *)
(* what save wrote, and the calls that were left run again: first those of *)
(* the threads that were asleep, and the scheduler does not start before   *)
(* all of them sleep again.  The order in which they queue again is left   *)
(* open (under SYS_SYNC_PRIORITY the code keeps their order tags).         *)
(*                                                                         *)
(* A call that only returns an error (CELL_ESRCH on a destroyed semaphore, *)
(* CELL_EBUSY from trywait or destroy, CELL_EINVAL) has no action.         *)
(***************************************************************************)
EXTENDS Lv2Obj

CONSTANTS MaxVal,      \* lv2_sema::max
          Counts       \* the counts that threads post

ASSUME SemaAssumption ==
  /\ MaxVal \in Nat \ {0}
  /\ Counts \subseteq Int

VARIABLES exists,   \* the id is in the id manager
          val,      \* lv2_sema::val
          sq,       \* lv2_sema::sq
          mutex,    \* the thread that holds lv2_sema::mutex between two steps
          toAwake,  \* g_to_awake of the thread that holds the mutex
          left,     \* to_awake - i in the wake-up loop of post
          call,     \* the system call and its argument, for cpu_flag::again
          old       \* the value of val that a compare-and-swap expects, else 0

objVars == <<exists, val, sq, mutex, toAwake, left>>
threadVars == <<run, signal, stopped, loading>>
vars == <<objVars, threadVars, pc, call, old>>

Wait(timed) == [name |-> "wait", timed |-> timed, count |-> 0]
Post(count) == [name |-> "post", timed |-> FALSE, count |-> count]
Calls == [name : {"wait", "post"}, timed : BOOLEAN, count : Counts \union {0}]

Labels == WaitLabels \union
  {"wait_cas", "wait_lock", "post_cas", "post_lock", "post_wake"}

\* Type invariant.
TypeOK ==
  /\ ThreadsTypeOK
  /\ exists \in BOOLEAN
  /\ val \in Int
  /\ sq \in Seq(Threads)
  /\ mutex \in Threads \union {NoThread}
  /\ toAwake \in SUBSET Threads
  /\ left \in Nat
  /\ pc \in [Threads -> Labels]
  /\ call \in [Threads -> Calls]
  /\ old \in [Threads -> Int]

Init ==
  /\ ThreadsInit
  /\ exists = TRUE
  /\ val \in 0 .. MaxVal
  /\ sq = <<>>
  /\ mutex = NoThread
  /\ toAwake = {}
  /\ left = 0
  /\ call = [t \in Threads |-> Wait(FALSE)]
  /\ old = [t \in Threads |-> 0]

-----------------------------------------------------------------------------
Return(t) ==
  /\ Goto(t, "idle")
  /\ call' = [call EXCEPT ![t] = Wait(FALSE)]

Enters(t, c) == CanEnter(t) /\ (pc[t] = "idle" \/ (pc[t] = "again" /\ call[t] = c))

\* wait and post run inside an idm::get callback up to their mutex or their
\* compare-and-swap, and withdraw excludes them.
InCallback(t) == pc[t] \in {"wait_cas", "wait_lock", "post_cas"}

\* The bound of both paths of post; val <= MaxVal, so nothing wraps.
Fits(count) == count <= MaxVal - val

FastPost(count) == val >= 0 /\ count > 0 /\ Fits(count)

\* The number of waiters that a post wakes.
to_awake(count) ==
  LET waiters == IF val < 0 THEN -val ELSE 0
  IN IF waiters < count THEN waiters ELSE count

\* Mutant: a timeout does not give its place back.
giveBackNothing == val

\* The update of val by a waiter that timed out.
giveBack == IF val < 0 THEN val + 1 ELSE val

-----------------------------------------------------------------------------
\* sys_semaphore_wait, the load of val
WaitLoad(t, timed) ==
  /\ exists
  /\ Enters(t, Wait(timed))
  /\ call' = [call EXCEPT ![t] = Wait(timed)]
  /\ old' = [old EXCEPT ![t] = IF val > 0 THEN val ELSE 0]
  /\ Goto(t, IF val > 0 THEN "wait_cas" ELSE "wait_lock")
  /\ UNCHANGED <<objVars, threadVars>>

WaitCas(t) ==
  /\ pc[t] = "wait_cas"
  /\ old' = [old EXCEPT ![t] = 0]
  /\ IF val = old[t]
     THEN val' = val - 1 /\ Return(t)
     ELSE Goto(t, "wait_lock") /\ UNCHANGED <<val, call>>
  /\ UNCHANGED <<exists, sq, mutex, toAwake, left, threadVars>>

\* The critical section of wait: take a permit or queue and sleep.
WaitLock(t) ==
  /\ pc[t] = "wait_lock"
  /\ mutex = NoThread
  /\ val' = val - 1
  /\ IF val <= 0
     THEN /\ run' = sleep(t)
          /\ loading' = slept(t)
          /\ sq' = emplace(sq, t)
          /\ Goto(t, "wait")
          /\ UNCHANGED call
     ELSE /\ Return(t)
          /\ UNCHANGED <<run, loading, sq>>
  /\ UNCHANGED <<exists, mutex, toAwake, left, old, stopped, signal>>

\* cpu_flag::signal in the wait loop: CELL_OK
WaitSignal(t) ==
  /\ WaitEnds(t)
  /\ Return(t)
  /\ UNCHANGED <<objVars, old>>

\* The wait loop sees a stop flag: a thread still queued will wait again,
\* any other has its permit.
WaitStopped(t) ==
  /\ pc[t] = "wait"
  /\ t \in stopped
  /\ mutex = NoThread
  /\ IF t \in Queued(sq)
     THEN Goto(t, "again") /\ UNCHANGED call
     ELSE Return(t)
  /\ UNCHANGED <<objVars, threadVars, old>>

WaitTimeout(t) ==
  /\ call[t].timed
  /\ wait_timeout(t)
  /\ UNCHANGED <<objVars, call, old>>

CheckState(t) ==
  /\ cpu_sleep(t) \/ check_state(t)
  /\ UNCHANGED <<objVars, call, old>>

\* The critical section after a timeout: CELL_ETIMEDOUT, unless a post was
\* faster and the thread has its permit.
Recheck(t) ==
  /\ pc[t] = "recheck"
  /\ mutex = NoThread
  /\ IF t \in Queued(sq)
     THEN sq' = unqueue(sq, t) /\ val' = giveBack
     ELSE UNCHANGED <<sq, val>>
  /\ Return(t)
  /\ UNCHANGED <<exists, mutex, toAwake, left, old, threadVars>>

\* sys_semaphore_trywait
TryWait(t) ==
  /\ exists
  /\ Idle(t)
  /\ val > 0
  /\ val' = val - 1
  /\ UNCHANGED <<exists, sq, mutex, toAwake, left, pc, call, old, threadVars>>

-----------------------------------------------------------------------------
\* sys_semaphore_post, the load of val
PostLoad(t, count) ==
  /\ exists
  /\ Enters(t, Post(count))
  /\ call' = [call EXCEPT ![t] = Post(count)]
  /\ old' = [old EXCEPT ![t] = IF FastPost(count) THEN val ELSE 0]
  /\ Goto(t, IF FastPost(count) THEN "post_cas" ELSE "post_lock")
  /\ UNCHANGED <<objVars, threadVars>>

PostCas(t) ==
  /\ pc[t] = "post_cas"
  /\ old' = [old EXCEPT ![t] = 0]
  /\ IF val = old[t]
     THEN val' = val + call[t].count /\ Return(t)
     ELSE Goto(t, "post_lock") /\ UNCHANGED <<val, call>>
  /\ UNCHANGED <<exists, sq, mutex, toAwake, left, threadVars>>

\* CELL_EINVAL, after the callback
PostInvalid(t) ==
  /\ pc[t] = "post_lock"
  /\ call[t].count <= 0
  /\ Return(t)
  /\ UNCHANGED <<objVars, threadVars, old>>

\* The critical section of post up to the update of val, or CELL_EBUSY.
PostLock(t) ==
  LET count == call[t].count
  IN /\ pc[t] = "post_lock"
     /\ count > 0
     /\ mutex = NoThread
     /\ ~ \E u \in Queued(sq) : pc[u] = "again"
     /\ IF Fits(count)
        THEN /\ val' = val + count
             /\ left' = to_awake(count)
        ELSE UNCHANGED <<val, left>>
     /\ IF left' > 0
        THEN mutex' = t /\ Goto(t, "post_wake") /\ UNCHANGED call
        ELSE Return(t) /\ UNCHANGED mutex
     /\ UNCHANGED <<exists, sq, toAwake, old, threadVars>>

\* A waiter has left for a savestate: the post leaves as well.
PostAgain(t) ==
  /\ pc[t] = "post_lock"
  /\ call[t].count > 0
  /\ mutex = NoThread
  /\ \E u \in Queued(sq) : pc[u] = "again"
  /\ Goto(t, "again")
  /\ stopped' = stopped \union {t}
  /\ UNCHANGED <<objVars, call, old, run, signal, loading>>

\* One turn of the wake-up loop.
PostWake(t) ==
  /\ pc[t] = "post_wake"
  /\ left > 0
  /\ toAwake' = append(toAwake, sq[schedule(sq)])
  /\ sq' = Unlink(sq, schedule(sq))
  /\ left' = left - 1
  /\ UNCHANGED <<exists, val, mutex, pc, call, old, threadVars>>

\* awake_all, and the mutex is released.
PostAwakeAll(t) ==
  /\ pc[t] = "post_wake"
  /\ left = 0
  /\ run' = awake(toAwake)
  /\ toAwake' = {}
  /\ mutex' = NoThread
  /\ Return(t)
  /\ UNCHANGED <<exists, val, sq, left, old, signal, stopped, loading>>

-----------------------------------------------------------------------------
\* sys_semaphore_destroy, not with waiters
Destroy(t) ==
  /\ exists
  /\ Idle(t)
  /\ ~ \E u \in Threads : InCallback(u)
  /\ val >= 0
  /\ exists' = FALSE
  /\ UNCHANGED <<val, sq, mutex, toAwake, left, pc, call, old, threadVars>>

\* sys_semaphore_create, once no thread refers to the previous semaphore
Create(t) ==
  /\ ~exists
  /\ Idle(t)
  /\ \A u \in Threads : pc[u] = "idle"
  /\ exists' = TRUE
  /\ val' \in 0 .. MaxVal
  /\ UNCHANGED <<sq, mutex, toAwake, left, pc, call, old, threadVars>>

-----------------------------------------------------------------------------
\* The scheduler runs an enqueued thread; a savestate is made.
Schedule(t) == schedule_all(t) /\ UNCHANGED <<objVars, call, old>>

Stop(t) == stop(t) /\ UNCHANGED <<objVars, call, old>>

\* Mutant: the waiters are saved as permits.
savedSign == IF val < 0 THEN -val ELSE val

\* What save writes for val: the waiters come back by themselves.
saved == IF val < 0 THEN 0 ELSE val

\* lv2_sema::save and the constructor that loads it.
Load ==
  /\ load
  /\ val' = saved
  /\ sq' = <<>>
  /\ UNCHANGED <<exists, mutex, toAwake, left, call, old>>

-----------------------------------------------------------------------------
\* The steps of a thread in a system call.
Step(t) ==
  \/ WaitCas(t) \/ WaitLock(t) \/ WaitSignal(t) \/ WaitStopped(t)
  \/ WaitTimeout(t) \/ CheckState(t) \/ Recheck(t)
  \/ PostCas(t) \/ PostInvalid(t) \/ PostLock(t) \/ PostAgain(t)
  \/ PostWake(t) \/ PostAwakeAll(t)

Enter(t) ==
  \/ \E timed \in BOOLEAN : WaitLoad(t, timed)
  \/ \E count \in Counts : PostLoad(t, count)
  \/ TryWait(t) \/ Destroy(t) \/ Create(t)

Next ==
  \/ \E t \in Threads : Step(t) \/ Enter(t) \/ Schedule(t) \/ Stop(t)
  \/ Load

Spec == Init /\ [][Next]_vars

(***************************************************************************)
(* Fairness: the host runs every thread and grants its mutex to a thread   *)
(* that keeps asking for it (so Step is strongly fair); a timeout comes;   *)
(* the wait loop looks for the stop flag before it waits again; the PPU    *)
(* scheduler gets round to every thread that is ready; a load goes on.     *)
(***************************************************************************)
Fairness ==
  /\ \A t \in Threads :
       /\ SF_vars(Step(t)) /\ SF_vars(WaitStopped(t))
       /\ WF_vars(Schedule(t)) /\ WF_vars(t \in loading /\ Enter(t))
  /\ WF_vars(Load)

FairSpec == Spec /\ Fairness

-----------------------------------------------------------------------------
\* Threads that will be woken by the post that holds the mutex.
owed == IF mutex = NoThread THEN 0 ELSE left

(***************************************************************************)
(* The counter and the sleep queue agree: minus val waiters are queued,    *)
(* and besides them those that a post in progress is about to wake.  So    *)
(* the ensure() of the wake-up loop (a waiter is found) and of a timeout   *)
(* (val was negative) hold, destroy cannot strand a waiter, and a permit   *)
(* is never idle while a thread waits.                                     *)
(***************************************************************************)
QueueMatchesValue ==
  /\ val <= MaxVal
  /\ Len(sq) = (IF val < 0 THEN -val ELSE 0) + owed

(***************************************************************************)
(* A thread in the wait loop that a post has unqueued is awake, or in the  *)
(* list of threads that the post is about to awake: no wake-up is lost to  *)
(* a timeout or to another post.                                           *)
(***************************************************************************)
NoLostWakeup ==
  \A t \in Threads :
    InWaitLoop(t) /\ t \notin Queued(sq) => run[t] # "asleep" \/ t \in toAwake

(***************************************************************************)
(* sleep never fails ("sleep() failed (signaled)"): no thread carries      *)
(* cpu_flag::signal out of a wait, even if a post and the timeout met.     *)
(***************************************************************************)
SleepNotSignaled ==
  \A t \in Threads : t \in signal => InWaitLoop(t) \/ t \in stopped

(***************************************************************************)
(* After a load the threads that were asleep find no permit, so that each  *)
(* of them sleeps again and the scheduler can start (g_to_sleep empties).  *)
(***************************************************************************)
LoadedThreadsSleep ==
  \A t \in loading : exists /\ val <= 0 /\ call[t].name = "wait"

(***************************************************************************)
(* The inductive invariant behind the four properties above: who holds the *)
(* mutex, where a queued thread can be, what a compare-and-swap may rely   *)
(* on, which threads the scheduler may have where, and what a load that is *)
(* not complete looks like.                                                *)
(***************************************************************************)
MutexInv ==
  /\ \A t \in Threads : pc[t] = "post_wake" <=> mutex = t
  /\ mutex = NoThread => left = 0 /\ toAwake = {}

QueueInv ==
  /\ NoDuplicates(sq) /\ Queued(sq) \intersect toAwake = {}
  /\ \A t \in Threads : t \in Queued(sq) \union toAwake =>
       \/ pc[t] = "wait" /\ run[t] = "asleep"
       \/ pc[t] \in {"resched", "recheck"}
       \/ t \in stopped /\ pc[t] \in {"wait", "again", "idle"}
  /\ \A t \in Threads :
       pc[t] = "again" /\ run[t] = "asleep" => t \in Queued(sq) \union toAwake

CasInv ==
  /\ val < 0 => exists
  /\ \A t \in Threads :
       /\ InCallback(t) => exists
       /\ pc[t] = "wait_cas" => old[t] > 0
       /\ pc[t] = "post_cas" => /\ old[t] >= 0
                                /\ call[t].count > 0
                                /\ old[t] + call[t].count <= MaxVal

ThreadInv ==
  \A t \in Threads :
    /\ t \in signal => run[t] = "running"
    /\ run[t] = "asleep" => pc[t] \in {"wait", "resched", "again"}
    /\ run[t] = "ready" => InWaitLoop(t) \/ t \in stopped
    /\ pc[t] = "recheck" => run[t] = "running" /\ t \notin signal
    /\ \/ InWaitLoop(t) \/ pc[t] \in {"wait_cas", "wait_lock"}
       \/ pc[t] = "again" /\ run[t] = "asleep"
       => call[t].name = "wait"

LoadingInv ==
  loading # {} =>
    /\ stopped = {} /\ signal = {} /\ exists /\ val <= 0
    /\ \A t \in Threads :
         \/ pc[t] = "idle" /\ t \notin loading
         \/ pc[t] \in {"again", "wait_lock"}
         \/ pc[t] \in {"wait", "resched"} /\ run[t] # "running" /\ t \notin loading
    /\ \A t \in Threads : pc[t] = "wait_lock" => t \in loading
    /\ \A t \in loading : call[t].name = "wait"

IndInv ==
  /\ TypeOK /\ QueueMatchesValue /\ NoLostWakeup /\ SleepNotSignaled
  /\ MutexInv /\ QueueInv /\ CasInv /\ ThreadInv /\ LoadingInv

\* A thread that a post has unqueued returns from its wait.
GrantedReturns ==
  \A t \in Threads : InWaitLoop(t) /\ t \notin Queued(sq) ~> ~InWaitLoop(t)

\* After a load every thread that was asleep sleeps again and the scheduler
\* starts.
LoadCompletes == loading # {} ~> loading = {}

=============================================================================
