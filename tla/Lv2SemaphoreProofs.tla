------------------------- MODULE Lv2SemaphoreProofs -------------------------
(***************************************************************************)
(* The invariants of the LV2 semaphore, for any number of threads, any     *)
(* maximum and any counts: IndInv is inductive and implies                 *)
(* QueueMatchesValue, NoLostWakeup, SleepNotSignaled, LoadedThreadsSleep.  *)
(* One lemma per action shows that the action preserves each conjunct.     *)
(*                                                                         *)
(* The second half shows that the system calls implement the abstract      *)
(* semaphore of module Semaphore: one lemma per action names the abstract  *)
(* step, or shows that nothing abstract changes.                           *)
(***************************************************************************)
EXTENDS Lv2SemaphoreRefinement, Lv2ObjProofs, FiniteSetTheorems

\* The backend of every leaf that does not name another one.
USE ZenonT(30)

\* What the proofs use of the constants.
LEMMA Constants == /\ MaxVal \in Nat \ {0} /\ Counts \subseteq Int
                   /\ NoThread \notin Threads
  BY SemaAssumption, Lv2Assumption DEF SemaAssumption, Lv2Assumption

\* The semaphore starts in the invariant.
LEMMA InitInv == Init => IndInv
<1> SUFFICES ASSUME Init PROVE IndInv
  OBVIOUS
<1> USE Constants DEF Init, ThreadsInit
<1>1. TypeOK
  BY SMT DEF TypeOK, ThreadsTypeOK, Calls, Labels, WaitLabels, RunStates, Wait
<1>2. QueueMatchesValue
  BY SMT DEF QueueMatchesValue, owed
<1>3. Queued(sq) = {} /\ NoDuplicates(sq)
  BY SMT DEF Queued, NoDuplicates
<1>4. NoLostWakeup /\ SleepNotSignaled /\ MutexInv /\ CasInv /\ LoadingInv
  BY DEF NoLostWakeup, SleepNotSignaled, MutexInv, CasInv, LoadingInv, InWaitLoop,
         InCallback
<1>5. QueueInv
  BY <1>3 DEF QueueInv, NoDuplicates
<1>6. ThreadInv
  BY DEF ThreadInv, InWaitLoop
<1>7. QED
  BY <1>1, <1>2, <1>4, <1>5, <1>6 DEF IndInv

\* Where a thread is after a step, and that its variables keep their types.
LEMMA GotoType ==
  ASSUME TypeOK, NEW t \in Threads, NEW l \in Labels, Goto(t, l)
  PROVE  pc' \in [Threads -> Labels]
  BY DEF TypeOK, Goto

\* Leaving a call keeps the types.
LEMMA ReturnType ==
  ASSUME TypeOK, NEW t \in Threads, Return(t)
  PROVE  /\ pc' \in [Threads -> Labels]
         /\ call' \in [Threads -> Calls]
<1>1. call' \in [Threads -> Calls]
  BY DEF TypeOK, Return, Calls, Wait
<1>2. "idle" \in Labels /\ Goto(t, "idle")
  BY DEF Return, Labels, WaitLabels
<1>3. QED
  BY <1>1, <1>2, GotoType

\* The count of a call is a number.
LEMMA CallCount ==
  ASSUME TypeOK, NEW t \in Threads
  PROVE  call[t].count \in Int
<1>1. call[t] \in Calls
  BY DEF TypeOK
<1>2. call[t].count \in Counts \union {0}
  BY <1>1 DEF Calls
<1>3. Counts \union {0} \subseteq Int
  BY Constants, SMT
<1>4. QED
  BY <1>2, <1>3

\* wait loads val.
LEMMA WaitLoadInv ==
  ASSUME IndInv, NEW t \in Threads, NEW timed \in BOOLEAN, WaitLoad(t, timed)
  PROVE  IndInv'
<1> USE Constants DEF IndInv, objVars, threadVars, WaitLoad, Goto, Wait, Enters, CanEnter
<1>1. TypeOK'
  BY SMT DEF TypeOK, ThreadsTypeOK, Calls, Labels, WaitLabels, RunStates, Wait, Post
<1>2. QueueMatchesValue'
  BY DEF QueueMatchesValue, owed, TypeOK
<1>3. NoLostWakeup'
  BY DEF NoLostWakeup, InWaitLoop, TypeOK, ThreadsTypeOK
<1>4. SleepNotSignaled'
  BY DEF SleepNotSignaled, InWaitLoop, TypeOK, ThreadsTypeOK
<1>5. MutexInv'
  BY DEF MutexInv, TypeOK
<1>6. QueueInv'
  BY DEF QueueInv, TypeOK, ThreadsTypeOK
<1>7. CasInv'
  BY DEF CasInv, InCallback, TypeOK
<1>8. ThreadInv'
  BY DEF ThreadInv, InWaitLoop, TypeOK, ThreadsTypeOK, QueueInv
<1>9. LoadingInv'
  BY SMT DEF LoadingInv, TypeOK, ThreadsTypeOK
<1>10. QED
  BY <1>1, <1>2, <1>3, <1>4, <1>5, <1>6, <1>7, <1>8, <1>9

\* The compare-and-swap of wait.
LEMMA WaitCasInv ==
  ASSUME IndInv, NEW t \in Threads, WaitCas(t)
  PROVE  IndInv'
<1> USE Constants DEF IndInv, objVars, threadVars, WaitCas
<1>1. TypeOK'
  <2>1. CASE val = old[t]
    <3>1. val' = val - 1 /\ Return(t)
      BY <2>1
    <3>2. QED
      BY <3>1, ReturnType, SMT DEF TypeOK, ThreadsTypeOK, Labels, WaitLabels, RunStates
  <2>2. CASE val # old[t]
    <3>1. Goto(t, "wait_lock") /\ UNCHANGED <<val, call>>
      BY <2>2
    <3>2. QED
      BY <3>1, GotoType, SMT DEF TypeOK, ThreadsTypeOK, Labels, WaitLabels, RunStates
  <2>3. QED
    BY <2>1, <2>2
<1>2. QueueMatchesValue'
  BY SMT DEF QueueMatchesValue, owed, TypeOK, Return, Goto, Wait, CasInv
<1>3. NoLostWakeup'
  BY DEF NoLostWakeup, InWaitLoop, TypeOK, ThreadsTypeOK, Return, Goto, Wait
<1>4. SleepNotSignaled'
  BY DEF SleepNotSignaled, InWaitLoop, TypeOK, ThreadsTypeOK, Return, Goto, Wait
<1>5. MutexInv'
  BY DEF MutexInv, TypeOK, Return, Goto, Wait
<1>6. QueueInv'
  BY DEF QueueInv, TypeOK, ThreadsTypeOK, Return, Goto, Wait
<1>7. CasInv'
  BY DEF CasInv, InCallback, TypeOK, Return, Goto, Wait
<1>8. ThreadInv'
  <2>1. CASE val = old[t]
    BY <2>1, SMT DEF ThreadInv, InWaitLoop, TypeOK, ThreadsTypeOK, Return, Goto, Wait
  <2>2. CASE val # old[t]
    BY <2>2 DEF ThreadInv, InWaitLoop, TypeOK, ThreadsTypeOK, Return, Goto, Wait
  <2>3. QED
    BY <2>1, <2>2
<1>9. LoadingInv'
  BY DEF LoadingInv, TypeOK, ThreadsTypeOK, Return, Goto, Wait
<1>10. QED
  BY <1>1, <1>2, <1>3, <1>4, <1>5, <1>6, <1>7, <1>8, <1>9

\* wait takes the mutex, takes a permit or queues itself.
LEMMA WaitLockInv ==
  ASSUME IndInv, NEW t \in Threads, WaitLock(t)
  PROVE  IndInv'
<1> USE Constants DEF IndInv, objVars, threadVars
<1>a. /\ sq \in Seq(Threads) /\ val \in Int /\ Len(sq) \in Nat
      /\ mutex = NoThread /\ toAwake = {} /\ left = 0 /\ t \notin Queued(sq)
      /\ NoDuplicates(sq)
  <2>1. mutex = NoThread /\ toAwake = {} /\ left = 0 /\ sq \in Seq(Threads) /\ val \in Int
    BY DEF MutexInv, TypeOK, WaitLock
  <2>2. NoDuplicates(sq) /\ t \notin Queued(sq)
    BY DEF QueueInv, WaitLock
  <2>3. QED
    BY <2>1, <2>2, SMT
<1>b. /\ emplace(sq, t) \in Seq(Threads)
      /\ Len(emplace(sq, t)) = Len(sq) + 1
      /\ Queued(emplace(sq, t)) = Queued(sq) \union {t}
      /\ NoDuplicates(emplace(sq, t))
  BY <1>a, EmplaceQueue
<1>c. /\ pc[t] = "wait_lock" /\ val' = val - 1
      /\ UNCHANGED <<exists, mutex, toAwake, left, old, stopped, signal>>
  BY DEF WaitLock
<1>1. CASE val <= 0
  <2>a. /\ sq' = emplace(sq, t) /\ loading' = loading \ {t} /\ call' = call
        /\ Goto(t, "wait") /\ run' = sleep(t)
    BY <1>1 DEF WaitLock, slept
  <2>b. /\ pc' \in [Threads -> Labels]
        /\ pc'[t] = "wait" /\ \A u \in Threads : u # t => pc'[u] = pc[u]
    <3>1. "wait" \in Labels
      BY DEF Labels, WaitLabels
    <3>2. QED
      BY <2>a, <3>1, GotoType DEF TypeOK, Goto
  <2>c. /\ run' \in [Threads -> RunStates]
        /\ \A u \in Threads : u # t => run'[u] = run[u]
        /\ t \notin signal => run'[t] = "asleep"
        /\ t \in signal => run'[t] = run[t] /\ t \in stopped
    <3>1. run \in [Threads -> RunStates] /\ (t \in signal => t \in stopped)
      BY <1>c DEF TypeOK, ThreadsTypeOK, SleepNotSignaled, InWaitLoop
    <3>2. CASE t \in signal
      BY <2>a, <3>1, <3>2 DEF sleep
    <3>3. CASE t \notin signal
      BY <2>a, <3>1, <3>3 DEF sleep, RunStates
    <3>4. QED
      BY <3>2, <3>3
  <2>1. TypeOK'
    BY <1>a, <1>b, <1>c, <2>a, <2>b, <2>c, SMT DEF TypeOK, ThreadsTypeOK
  <2>2. QueueMatchesValue'
    <3>1. Len(sq) = -val
      BY <1>1, <1>a, SMT DEF QueueMatchesValue, owed
    <3>2. Len(sq') = -val' /\ val' < 0 /\ owed' = 0
      BY <1>1, <1>a, <1>b, <1>c, <2>a, <3>1, SMT DEF owed
    <3>3. QED
      BY <1>a, <1>c, <3>2, SMT DEF QueueMatchesValue
  <2>3. NoLostWakeup'
    BY <1>a, <1>b, <1>c, <2>a, <2>b, <2>c DEF NoLostWakeup, InWaitLoop
  <2>4. SleepNotSignaled'
    BY <1>c, <2>b DEF SleepNotSignaled, InWaitLoop
  <2>5. MutexInv'
    BY <1>c, <2>b DEF MutexInv
  <2>6. QueueInv'
    BY <1>a, <1>b, <1>c, <2>a, <2>b, <2>c DEF QueueInv
  <2>7. CasInv'
    BY <1>1, <1>a, <1>c, <2>a, <2>b DEF CasInv, InCallback
  <2>8. ThreadInv'
    <3>1. call[t].name = "wait"
      BY <1>c DEF ThreadInv
    <3>2. QED
      BY <1>c, <2>a, <2>b, <2>c, <3>1, SMT DEF ThreadInv, InWaitLoop
  <2>9. LoadingInv'
    BY <1>1, <1>a, <1>c, <2>a, <2>b, <2>c, SMT DEF LoadingInv
  <2>10. QED
    BY <2>1, <2>2, <2>3, <2>4, <2>5, <2>6, <2>7, <2>8, <2>9
<1>2. CASE ~(val <= 0)
  <2>a. Return(t) /\ UNCHANGED <<run, loading, sq>>
    BY <1>2 DEF WaitLock
  <2>1. TypeOK'
    BY <1>a, <1>c, <2>a, ReturnType, SMT DEF TypeOK, ThreadsTypeOK
  <2> USE DEF Return, Goto, Wait
  <2>2. QueueMatchesValue'
    BY <1>2, <1>a, <1>c, <2>a, SMT DEF QueueMatchesValue, owed
  <2>3. NoLostWakeup'
    BY <1>c, <2>a DEF NoLostWakeup, InWaitLoop, TypeOK
  <2>4. SleepNotSignaled'
    BY <1>c, <2>a DEF SleepNotSignaled, InWaitLoop, TypeOK
  <2>5. MutexInv'
    BY <1>c, <2>a DEF MutexInv, TypeOK
  <2>6. QueueInv'
    BY <1>a, <1>c, <2>a DEF QueueInv, TypeOK
  <2>7. CasInv'
    BY <1>2, <1>a, <1>c, <2>a DEF CasInv, InCallback, TypeOK
  <2>8. ThreadInv'
    BY <1>c, <2>a DEF ThreadInv, InWaitLoop, TypeOK
  <2>9. LoadingInv'
    BY <1>2, <1>a, <1>c, <2>a DEF LoadingInv, TypeOK
  <2>10. QED
    BY <2>1, <2>2, <2>3, <2>4, <2>5, <2>6, <2>7, <2>8, <2>9
<1>3. QED
  BY <1>1, <1>2

\* The wait loop sees its signal.
LEMMA WaitSignalInv ==
  ASSUME IndInv, NEW t \in Threads, WaitSignal(t)
  PROVE  IndInv'
<1> USE Constants DEF IndInv, objVars, threadVars, WaitSignal, WaitEnds, Return, Goto, Wait
<1>1. TypeOK'
  BY DEF TypeOK, ThreadsTypeOK, Calls, Labels, WaitLabels, RunStates, Wait, Post
<1>2. QueueMatchesValue'
  BY DEF QueueMatchesValue, owed, TypeOK
<1>3. NoLostWakeup'
  BY DEF NoLostWakeup, InWaitLoop, TypeOK, ThreadsTypeOK
<1>4. SleepNotSignaled'
  BY DEF SleepNotSignaled, InWaitLoop, TypeOK, ThreadsTypeOK
<1>5. MutexInv'
  BY DEF MutexInv, TypeOK
<1>6. QueueInv'
  BY DEF QueueInv, TypeOK, ThreadsTypeOK, ThreadInv
<1>7. CasInv'
  BY DEF CasInv, InCallback, TypeOK
<1>8. ThreadInv'
  BY DEF ThreadInv, InWaitLoop, TypeOK, ThreadsTypeOK
<1>9. LoadingInv'
  BY DEF LoadingInv, TypeOK, ThreadsTypeOK
<1>10. QED
  BY <1>1, <1>2, <1>3, <1>4, <1>5, <1>6, <1>7, <1>8, <1>9

\* The wait loop is stopped for a savestate.
LEMMA WaitStoppedInv ==
  ASSUME IndInv, NEW t \in Threads, WaitStopped(t)
  PROVE  IndInv'
<1> USE Constants DEF IndInv, objVars, threadVars, WaitStopped
<1>1. TypeOK'
  <2>1. CASE t \in Queued(sq)
    <3>1. Goto(t, "again") /\ UNCHANGED call
      BY <2>1
    <3>2. QED
      BY <3>1, GotoType DEF TypeOK, ThreadsTypeOK, Labels, WaitLabels, RunStates
  <2>2. CASE t \notin Queued(sq)
    <3>1. Return(t)
      BY <2>2
    <3>2. QED
      BY <3>1, ReturnType DEF TypeOK, ThreadsTypeOK, Labels, WaitLabels, RunStates
  <2>3. QED
    BY <2>1, <2>2
<1>2. QueueMatchesValue'
  BY DEF QueueMatchesValue, owed, TypeOK, Return, Goto, Wait
<1>3. NoLostWakeup'
  BY DEF NoLostWakeup, InWaitLoop, TypeOK, ThreadsTypeOK, Return, Goto, Wait
<1>4. SleepNotSignaled'
  BY DEF SleepNotSignaled, InWaitLoop, TypeOK, ThreadsTypeOK, Return, Goto, Wait
<1>5. MutexInv'
  BY DEF MutexInv, TypeOK, Return, Goto, Wait
<1>6. QueueInv'
  BY DEF QueueInv, TypeOK, ThreadsTypeOK, Return, Goto, Wait
<1>7. CasInv'
  BY DEF CasInv, InCallback, TypeOK, Return, Goto, Wait
<1>8. ThreadInv'
  <2>1. CASE t \in Queued(sq)
    BY <2>1 DEF ThreadInv, InWaitLoop, TypeOK, ThreadsTypeOK, Return, Goto, Wait, NoLostWakeup, MutexInv
  <2>2. CASE t \notin Queued(sq)
    BY <2>2, SMT DEF ThreadInv, InWaitLoop, TypeOK, ThreadsTypeOK, Return, Goto, Wait, NoLostWakeup, MutexInv
  <2>3. QED
    BY <2>1, <2>2
<1>9. LoadingInv'
  BY DEF LoadingInv, TypeOK, ThreadsTypeOK, Return, Goto, Wait
<1>10. QED
  BY <1>1, <1>2, <1>3, <1>4, <1>5, <1>6, <1>7, <1>8, <1>9

\* The wait loop times out, and the thread awakes itself.
LEMMA WaitTimeoutInv ==
  ASSUME IndInv, NEW t \in Threads, WaitTimeout(t)
  PROVE  IndInv'
<1> USE Constants DEF IndInv, objVars, threadVars, WaitTimeout, wait_timeout, Goto
<1>1. TypeOK'
  BY DEF TypeOK, ThreadsTypeOK, Calls, Labels, WaitLabels, RunStates, Wait, Post
<1>2. QueueMatchesValue'
  BY DEF QueueMatchesValue, owed, TypeOK
<1>3. NoLostWakeup'
  BY DEF NoLostWakeup, InWaitLoop, TypeOK, ThreadsTypeOK
<1>4. SleepNotSignaled'
  BY DEF SleepNotSignaled, InWaitLoop, TypeOK, ThreadsTypeOK
<1>5. MutexInv'
  BY DEF MutexInv, TypeOK
<1>6. QueueInv'
  BY DEF QueueInv, TypeOK, ThreadsTypeOK
<1>7. CasInv'
  BY DEF CasInv, InCallback, TypeOK
<1>8. ThreadInv'
  BY DEF ThreadInv, InWaitLoop, TypeOK, ThreadsTypeOK
<1>9. LoadingInv'
  BY DEF LoadingInv, TypeOK, ThreadsTypeOK
<1>10. QED
  BY <1>1, <1>2, <1>3, <1>4, <1>5, <1>6, <1>7, <1>8, <1>9

\* The thread goes on once it is scheduled.
LEMMA CheckStateInv ==
  ASSUME IndInv, NEW t \in Threads, CheckState(t)
  PROVE  IndInv'
<1> USE Constants DEF IndInv, objVars, threadVars, CheckState, awake, Goto, unsignal
<1>1. TypeOK'
  <2>1. CASE cpu_sleep(t)
    BY <2>1 DEF cpu_sleep, TypeOK, ThreadsTypeOK, Calls, Labels, WaitLabels, RunStates, Wait, Post
  <2>2. CASE check_state(t)
    BY <2>2 DEF check_state, TypeOK, ThreadsTypeOK, Calls, Labels, WaitLabels, RunStates, Wait, Post
  <2>3. QED
    BY <2>1, <2>2
<1>2. QueueMatchesValue'
  <2>1. CASE cpu_sleep(t)
    BY <2>1 DEF cpu_sleep, QueueMatchesValue, owed, TypeOK
  <2>2. CASE check_state(t)
    BY <2>2 DEF check_state, QueueMatchesValue, owed, TypeOK
  <2>3. QED
    BY <2>1, <2>2
<1>3. NoLostWakeup'
  <2>1. CASE cpu_sleep(t)
    BY <2>1 DEF cpu_sleep, NoLostWakeup, InWaitLoop, TypeOK, ThreadsTypeOK
  <2>2. CASE check_state(t)
    BY <2>2 DEF check_state, NoLostWakeup, InWaitLoop, TypeOK, ThreadsTypeOK
  <2>3. QED
    BY <2>1, <2>2
<1>4. SleepNotSignaled'
  <2>1. CASE cpu_sleep(t)
    BY <2>1 DEF cpu_sleep, SleepNotSignaled, InWaitLoop, TypeOK, ThreadsTypeOK
  <2>2. CASE check_state(t)
    BY <2>2 DEF check_state, SleepNotSignaled, InWaitLoop, TypeOK, ThreadsTypeOK
  <2>3. QED
    BY <2>1, <2>2
<1>5. MutexInv'
  <2>1. CASE cpu_sleep(t)
    BY <2>1 DEF cpu_sleep, MutexInv, TypeOK
  <2>2. CASE check_state(t)
    BY <2>2 DEF check_state, MutexInv, TypeOK
  <2>3. QED
    BY <2>1, <2>2
<1>6. QueueInv'
  <2>1. CASE cpu_sleep(t)
    BY <2>1 DEF cpu_sleep, QueueInv, TypeOK, ThreadsTypeOK
  <2>2. CASE check_state(t)
    BY <2>2 DEF check_state, QueueInv, TypeOK, ThreadsTypeOK
  <2>3. QED
    BY <2>1, <2>2
<1>7. CasInv'
  <2>1. CASE cpu_sleep(t)
    BY <2>1 DEF cpu_sleep, CasInv, InCallback, TypeOK
  <2>2. CASE check_state(t)
    BY <2>2 DEF check_state, CasInv, InCallback, TypeOK
  <2>3. QED
    BY <2>1, <2>2
<1>8. ThreadInv'
  <2>1. CASE cpu_sleep(t)
    BY <2>1 DEF cpu_sleep, ThreadInv, InWaitLoop, TypeOK, ThreadsTypeOK
  <2>2. CASE check_state(t)
    BY <2>2 DEF check_state, ThreadInv, InWaitLoop, TypeOK, ThreadsTypeOK
  <2>3. QED
    BY <2>1, <2>2
<1>9. LoadingInv'
  <2>1. CASE cpu_sleep(t)
    BY <2>1 DEF cpu_sleep, LoadingInv, TypeOK, ThreadsTypeOK
  <2>2. CASE check_state(t)
    BY <2>2 DEF check_state, LoadingInv, TypeOK, ThreadsTypeOK
  <2>3. QED
    BY <2>1, <2>2
<1>10. QED
  BY <1>1, <1>2, <1>3, <1>4, <1>5, <1>6, <1>7, <1>8, <1>9

\* After a timeout the thread looks whether it is still queued.
LEMMA RecheckInv ==
  ASSUME IndInv, NEW t \in Threads, Recheck(t)
  PROVE  IndInv'
<1> USE Constants DEF IndInv, objVars, threadVars, Recheck, Return, Goto, Wait, giveBack
<1>a. /\ sq \in Seq(Threads) /\ val \in Int
      /\ mutex = NoThread /\ toAwake = {} /\ left = 0
      /\ NoDuplicates(sq) /\ t \notin signal /\ run[t] = "running"
  <2>1. mutex = NoThread /\ toAwake = {} /\ left = 0 /\ sq \in Seq(Threads) /\ val \in Int
    BY DEF MutexInv, TypeOK
  <2>2. NoDuplicates(sq) /\ t \notin signal /\ run[t] = "running"
    BY DEF QueueInv, ThreadInv
  <2>3. QED
    BY <2>1, <2>2
<1>b. t \in Queued(sq) =>
        /\ unqueue(sq, t) \in Seq(Threads)
        /\ Len(unqueue(sq, t)) = Len(sq) - 1
        /\ Queued(unqueue(sq, t)) \subseteq Queued(sq)
        /\ Queued(sq) \subseteq Queued(unqueue(sq, t)) \union {t}
        /\ NoDuplicates(unqueue(sq, t))
        /\ t \notin Queued(unqueue(sq, t))
  BY <1>a, UnqueueQueue
<1>c. Len(sq) = (IF val < 0 THEN -val ELSE 0)
  BY <1>a, SMT DEF QueueMatchesValue, owed
<1>1. TypeOK'
  <2>1. CASE t \in Queued(sq)
    BY <2>1, <1>a, <1>b, SMT DEF TypeOK, ThreadsTypeOK, Calls, Labels, WaitLabels, RunStates, Wait, Post
  <2>2. CASE t \notin Queued(sq)
    BY <2>2, <1>a, <1>b DEF TypeOK, ThreadsTypeOK, Calls, Labels, WaitLabels, RunStates, Wait, Post
  <2>3. QED
    BY <2>1, <2>2
<1>2. QueueMatchesValue'
  <2>1. CASE t \in Queued(sq)
    BY <2>1, <1>a, <1>b, <1>c, SMT DEF QueueMatchesValue, owed, TypeOK
  <2>2. CASE t \notin Queued(sq)
    BY <2>2, <1>a, <1>b, <1>c DEF QueueMatchesValue, owed, TypeOK
  <2>3. QED
    BY <2>1, <2>2
<1>3. NoLostWakeup'
  <2>1. CASE t \in Queued(sq)
    BY <2>1, <1>a, <1>b DEF NoLostWakeup, InWaitLoop, TypeOK, ThreadsTypeOK
  <2>2. CASE t \notin Queued(sq)
    BY <2>2, <1>a, <1>b DEF NoLostWakeup, InWaitLoop, TypeOK, ThreadsTypeOK
  <2>3. QED
    BY <2>1, <2>2
<1>4. SleepNotSignaled'
  BY <1>a DEF SleepNotSignaled, InWaitLoop, TypeOK, ThreadsTypeOK
<1>5. MutexInv'
  BY DEF MutexInv, TypeOK
<1>6. QueueInv'
  <2>1. CASE t \in Queued(sq)
    BY <2>1, <1>a, <1>b, <1>c DEF QueueInv, TypeOK, ThreadsTypeOK
  <2>2. CASE t \notin Queued(sq)
    BY <2>2, <1>a, <1>b, <1>c DEF QueueInv, TypeOK, ThreadsTypeOK
  <2>3. QED
    BY <2>1, <2>2
<1>7. CasInv'
  BY DEF CasInv, InCallback, TypeOK
<1>8. ThreadInv'
  BY DEF ThreadInv, InWaitLoop, TypeOK, ThreadsTypeOK
<1>9. LoadingInv'
  BY DEF LoadingInv, TypeOK, ThreadsTypeOK
<1>10. QED
  BY <1>1, <1>2, <1>3, <1>4, <1>5, <1>6, <1>7, <1>8, <1>9

\* trywait.
LEMMA TryWaitInv ==
  ASSUME IndInv, NEW t \in Threads, TryWait(t)
  PROVE  IndInv'
<1> USE Constants DEF IndInv, objVars, threadVars, TryWait, Idle
<1>1. TypeOK'
  BY SMT DEF TypeOK, ThreadsTypeOK, Calls, Labels, WaitLabels, RunStates, Wait, Post
<1>2. QueueMatchesValue'
  BY SMT DEF QueueMatchesValue, owed, TypeOK
<1>3. NoLostWakeup'
  BY DEF NoLostWakeup, InWaitLoop, TypeOK, ThreadsTypeOK
<1>4. SleepNotSignaled'
  BY DEF SleepNotSignaled, InWaitLoop, TypeOK, ThreadsTypeOK
<1>5. MutexInv'
  BY DEF MutexInv, TypeOK
<1>6. QueueInv'
  BY DEF QueueInv, TypeOK, ThreadsTypeOK
<1>7. CasInv'
  BY DEF CasInv, InCallback, TypeOK
<1>8. ThreadInv'
  BY DEF ThreadInv, InWaitLoop, TypeOK, ThreadsTypeOK
<1>9. LoadingInv'
  BY DEF LoadingInv, TypeOK, ThreadsTypeOK
<1>10. QED
  BY <1>1, <1>2, <1>3, <1>4, <1>5, <1>6, <1>7, <1>8, <1>9

\* post loads val.
LEMMA PostLoadInv ==
  ASSUME IndInv, NEW t \in Threads, NEW count \in Counts, PostLoad(t, count)
  PROVE  IndInv'
<1> USE Constants DEF IndInv, objVars, threadVars, PostLoad, Goto, Post, Enters, CanEnter, FastPost, Fits
<1>1. TypeOK'
  BY SMT DEF TypeOK, ThreadsTypeOK, Calls, Labels, WaitLabels, RunStates, Wait, Post
<1>2. QueueMatchesValue'
  BY DEF QueueMatchesValue, owed, TypeOK
<1>3. NoLostWakeup'
  BY DEF NoLostWakeup, InWaitLoop, TypeOK, ThreadsTypeOK
<1>4. SleepNotSignaled'
  BY DEF SleepNotSignaled, InWaitLoop, TypeOK, ThreadsTypeOK
<1>5. MutexInv'
  BY DEF MutexInv, TypeOK
<1>6. QueueInv'
  BY DEF QueueInv, TypeOK, ThreadsTypeOK
<1>7. CasInv'
  BY SMT DEF CasInv, InCallback, TypeOK
<1>8. ThreadInv'
  BY SMT DEF ThreadInv, InWaitLoop, TypeOK, ThreadsTypeOK
<1>9. LoadingInv'
  BY SMTT(30) DEF LoadingInv, TypeOK, ThreadsTypeOK
<1>10. QED
  BY <1>1, <1>2, <1>3, <1>4, <1>5, <1>6, <1>7, <1>8, <1>9

\* The compare-and-swap of post.
LEMMA PostCasInv ==
  ASSUME IndInv, NEW t \in Threads, PostCas(t)
  PROVE  IndInv'
<1> USE Constants DEF IndInv, objVars, threadVars, PostCas
<1>a. call[t].count \in Int /\ val \in Int /\ MaxVal \in Nat /\ Len(sq) \in Nat
  BY CallCount, SMT DEF TypeOK
<1>1. TypeOK'
  <2>1. CASE val = old[t]
    <3>1. val' = val + call[t].count /\ call[t].count \in Int /\ Return(t)
      BY <2>1, CallCount DEF TypeOK
    <3>2. pc' \in [Threads -> Labels] /\ call' \in [Threads -> Calls]
      BY ONLY <3>1, TypeOK, t \in Threads, ReturnType, Zenon
    <3>3. val' \in Int /\ old' \in [Threads -> Int]
      BY <3>1, <1>a, SMT DEF TypeOK
    <3>4. ThreadsTypeOK'
      BY DEF TypeOK, ThreadsTypeOK
    <3>5. UNCHANGED <<exists, sq, mutex, toAwake, left>>
      OBVIOUS
    <3>6. QED
      BY ONLY TypeOK, <3>2, <3>3, <3>4, <3>5, Zenon DEF TypeOK
  <2>2. CASE val # old[t]
    <3>1. Goto(t, "post_lock") /\ UNCHANGED <<val, call>>
      BY <2>2
    <3>2. pc' \in [Threads -> Labels]
      BY <3>1, GotoType DEF Labels
    <3>3. old' \in [Threads -> Int]
      BY SMT DEF TypeOK
    <3>4. ThreadsTypeOK'
      BY DEF TypeOK, ThreadsTypeOK
    <3>5. UNCHANGED <<exists, sq, mutex, toAwake, left>>
      OBVIOUS
    <3>6. QED
      BY ONLY TypeOK, <3>1, <3>2, <3>3, <3>4, <3>5, Zenon DEF TypeOK
  <2>3. QED
    BY <2>1, <2>2
<1>2. QueueMatchesValue'
  <2>1. val' = val \/ (val >= 0 /\ val' >= 0 /\ val' <= MaxVal)
    <3>1. old[t] >= 0 /\ call[t].count > 0 /\ old[t] + call[t].count <= MaxVal
      BY DEF CasInv
    <3>2. CASE val = old[t]
      <4>1. val' = val + call[t].count
        BY <3>2
      <4>2. QED
        BY ONLY <4>1, <3>1, <3>2, <1>a, SMT
    <3>3. CASE val # old[t]
      BY <3>3
    <3>4. QED
      BY <3>2, <3>3
  <2>2. QED
    BY <2>1, <1>a, SMT DEF QueueMatchesValue, owed, TypeOK
<1>3. NoLostWakeup'
  BY DEF NoLostWakeup, InWaitLoop, TypeOK, ThreadsTypeOK, Return, Goto, Wait
<1>4. SleepNotSignaled'
  BY DEF SleepNotSignaled, InWaitLoop, TypeOK, ThreadsTypeOK, Return, Goto, Wait
<1>5. MutexInv'
  BY DEF MutexInv, TypeOK, Return, Goto, Wait
<1>6. QueueInv'
  BY DEF QueueInv, TypeOK, ThreadsTypeOK, Return, Goto, Wait
<1>7. CasInv'
  BY DEF CasInv, InCallback, TypeOK, Return, Goto, Wait
<1>8. ThreadInv'
  <2>1. CASE val = old[t]
    <3>1. /\ \A u \in Threads : u # t => pc'[u] = pc[u] /\ call'[u] = call[u]
          /\ pc[t] = "post_cas" /\ pc'[t] = "idle"
      BY <2>1 DEF TypeOK, Return, Goto
    <3>2. UNCHANGED <<run, signal, stopped>>
      OBVIOUS
    <3>3. QED
      BY ONLY <3>1, <3>2, ThreadInv, t \in Threads, Zenon DEF ThreadInv, InWaitLoop
  <2>2. CASE val # old[t]
    BY <2>2 DEF ThreadInv, InWaitLoop, TypeOK, ThreadsTypeOK, Return, Goto, Wait
  <2>3. QED
    BY <2>1, <2>2
<1>9. LoadingInv'
  BY DEF LoadingInv, TypeOK, ThreadsTypeOK, Return, Goto, Wait
<1>10. QED
  BY <1>1, <1>2, <1>3, <1>4, <1>5, <1>6, <1>7, <1>8, <1>9

\* post refuses a count that is not positive.
LEMMA PostInvalidInv ==
  ASSUME IndInv, NEW t \in Threads, PostInvalid(t)
  PROVE  IndInv'
<1> USE Constants DEF IndInv, objVars, threadVars, PostInvalid, Return, Goto, Wait
<1>1. TypeOK'
  BY DEF TypeOK, ThreadsTypeOK, Calls, Labels, WaitLabels, RunStates, Wait, Post
<1>2. QueueMatchesValue'
  BY DEF QueueMatchesValue, owed, TypeOK
<1>3. NoLostWakeup'
  BY DEF NoLostWakeup, InWaitLoop, TypeOK, ThreadsTypeOK
<1>4. SleepNotSignaled'
  BY DEF SleepNotSignaled, InWaitLoop, TypeOK, ThreadsTypeOK
<1>5. MutexInv'
  BY DEF MutexInv, TypeOK
<1>6. QueueInv'
  BY DEF QueueInv, TypeOK, ThreadsTypeOK
<1>7. CasInv'
  BY DEF CasInv, InCallback, TypeOK
<1>8. ThreadInv'
  BY DEF ThreadInv, InWaitLoop, TypeOK, ThreadsTypeOK
<1>9. LoadingInv'
  BY DEF LoadingInv, TypeOK, ThreadsTypeOK
<1>10. QED
  BY <1>1, <1>2, <1>3, <1>4, <1>5, <1>6, <1>7, <1>8, <1>9

\* What PostLock adds to val and what it takes from the waiters.
LEMMA WakeCount ==
  ASSUME NEW v \in Int, NEW c \in Nat, NEW w, NEW k,
         w = (IF v < 0 THEN -v ELSE 0), k = (IF w < c THEN w ELSE c)
  PROVE  k \in Nat /\ w = (IF v + c < 0 THEN -(v + c) ELSE 0) + k
<1>1. CASE v < 0
  BY <1>1, SMT
<1>2. CASE ~(v < 0)
  BY <1>2, SMT
<1>3. QED
  BY <1>1, <1>2

\* post takes the mutex and adds to val.
LEMMA PostLockInv ==
  ASSUME IndInv, NEW t \in Threads, PostLock(t)
  PROVE  IndInv'
<1> USE Constants DEF IndInv, objVars, threadVars
<1> DEFINE c == call[t].count
<1>a. /\ c \in Nat /\ val \in Int /\ left = 0 /\ mutex = NoThread /\ toAwake = {}
      /\ pc[t] = "post_lock" /\ UNCHANGED <<exists, sq, toAwake, old, threadVars>>
  BY CallCount, SMT DEF TypeOK, MutexInv, PostLock
<1>b. /\ val' \in Int /\ val' <= MaxVal /\ (val' < 0 => val < 0)
      /\ val < 0 \/ val' >= val
      /\ left' \in Nat /\ Len(sq) = (IF val' < 0 THEN -val' ELSE 0) + left'
  <2>1. val <= MaxVal /\ Len(sq) = (IF val < 0 THEN -val ELSE 0)
    BY <1>a, SMT DEF QueueMatchesValue, owed
  <2>2. CASE Fits(c)
    <3>1. val' = val + c /\ left' = to_awake(c)
      BY <2>2 DEF PostLock
    <3>2. val + c <= MaxVal
      BY <2>2, <1>a, SMT DEF Fits
    <3>3. /\ to_awake(c) \in Nat
          /\ Len(sq) = (IF val + c < 0 THEN -(val + c) ELSE 0) + to_awake(c)
      <4> HIDE DEF c
      <4>1. QED
        BY <1>a, <2>1, WakeCount, SMT DEF to_awake
    <3> HIDE DEF c
    <3>4. QED
      BY <1>a, <3>1, <3>2, <3>3, SMT
  <2>3. CASE ~Fits(c)
    <3>1. val' = val /\ left' = left
      BY <2>3 DEF PostLock
    <3>2. QED
      BY <1>a, <2>1, <3>1, SMT
  <2>4. QED
    BY <2>2, <2>3
<1>c. CASE left' > 0
  <2>a. mutex' = t /\ Goto(t, "post_wake") /\ call' = call
    BY <1>c DEF PostLock
  <2>b. pc' \in [Threads -> Labels] /\ pc'[t] = "post_wake"
        /\ \A u \in Threads : u # t => pc'[u] = pc[u]
    BY <2>a DEF Goto, TypeOK, Labels
  <2>1. TypeOK'
    BY <1>a, <1>b, <2>a, <2>b DEF TypeOK, ThreadsTypeOK
  <2>2. QueueMatchesValue'
    BY <1>a, <1>b, <2>a DEF QueueMatchesValue, owed
  <2>3. NoLostWakeup' /\ SleepNotSignaled' /\ ThreadInv'
    BY <1>a, <2>a, <2>b DEF NoLostWakeup, SleepNotSignaled, ThreadInv, InWaitLoop
  <2>4. MutexInv' /\ QueueInv'
    BY <1>a, <2>a, <2>b DEF MutexInv, QueueInv
  <2>5. CasInv'
    BY <1>a, <1>b, <2>a, <2>b DEF CasInv, InCallback
  <2>6. LoadingInv'
    BY <1>a, <2>a, <2>b DEF LoadingInv
  <2>7. QED
    BY <2>1, <2>2, <2>3, <2>4, <2>5, <2>6
<1>d. CASE left' = 0
  <2>a. mutex' = mutex /\ Return(t)
    BY <1>d, SMT DEF PostLock
  <2>b. /\ pc' \in [Threads -> Labels] /\ pc'[t] = "idle"
        /\ \A u \in Threads : u # t => pc'[u] = pc[u]
        /\ call' \in [Threads -> Calls]
        /\ \A u \in Threads : u # t => call'[u] = call[u]
    BY <2>a, ReturnType DEF Return, Goto, TypeOK
  <2>1. TypeOK'
    BY <1>a, <1>b, <2>a, <2>b DEF TypeOK, ThreadsTypeOK
  <2>2. QueueMatchesValue'
    BY <1>a, <1>b, <1>d, <2>a DEF QueueMatchesValue, owed
  <2>3. NoLostWakeup' /\ SleepNotSignaled' /\ ThreadInv'
    BY <1>a, <2>a, <2>b DEF NoLostWakeup, SleepNotSignaled, ThreadInv, InWaitLoop
  <2>4. MutexInv' /\ QueueInv'
    BY <1>a, <1>d, <2>a, <2>b DEF MutexInv, QueueInv
  <2>5. CasInv'
    BY <1>a, <1>b, <2>a, <2>b DEF CasInv, InCallback
  <2>6. LoadingInv'
    BY <1>a, <2>a, <2>b DEF LoadingInv
  <2>7. QED
    BY <2>1, <2>2, <2>3, <2>4, <2>5, <2>6
<1>e. QED
  BY <1>b, <1>c, <1>d, SMT

\* post meets a waiter that has left for a savestate.
LEMMA PostAgainInv ==
  ASSUME IndInv, NEW t \in Threads, PostAgain(t)
  PROVE  IndInv'
<1> USE Constants DEF IndInv, objVars, threadVars, PostAgain, Goto
<1>1. TypeOK'
  BY DEF TypeOK, ThreadsTypeOK, Calls, Labels, WaitLabels, RunStates, Wait, Post
<1>2. QueueMatchesValue'
  BY DEF QueueMatchesValue, owed, TypeOK
<1>3. NoLostWakeup'
  BY DEF NoLostWakeup, InWaitLoop, TypeOK, ThreadsTypeOK
<1>4. SleepNotSignaled'
  BY DEF SleepNotSignaled, InWaitLoop, TypeOK, ThreadsTypeOK
<1>5. MutexInv'
  BY DEF MutexInv, TypeOK
<1>6. QueueInv'
  BY DEF QueueInv, TypeOK, ThreadsTypeOK, ThreadInv
<1>7. CasInv'
  BY DEF CasInv, InCallback, TypeOK
<1>8. ThreadInv'
  BY DEF ThreadInv, InWaitLoop, TypeOK, ThreadsTypeOK
<1>9. LoadingInv'
  BY DEF LoadingInv, TypeOK, ThreadsTypeOK
<1>10. QED
  BY <1>1, <1>2, <1>3, <1>4, <1>5, <1>6, <1>7, <1>8, <1>9

\* post takes one waiter off the queue.
LEMMA PostWakeInv ==
  ASSUME IndInv, NEW t \in Threads, PostWake(t)
  PROVE  IndInv'
<1> USE Constants DEF IndInv, objVars, threadVars, PostWake, append
<1>a. /\ sq \in Seq(Threads) /\ mutex = t /\ left \in Nat /\ left > 0
      /\ Len(sq) > 0 /\ NoDuplicates(sq)
  <2>1. sq \in Seq(Threads) /\ left \in Nat /\ val \in Int /\ left > 0
    BY DEF TypeOK
  <2>2. mutex = t /\ mutex # NoThread
    BY DEF MutexInv
  <2>3. Len(sq) > 0
    BY <2>1, <2>2, SMT DEF QueueMatchesValue, owed
  <2>4. QED
    BY <2>1, <2>2, <2>3 DEF QueueInv
<1>b. schedule(sq) \in DOMAIN sq
  BY <1>a, ScheduleInQueue
<1> DEFINE w == sq[schedule(sq)]
           r == Unlink(sq, schedule(sq))
<1>c. /\ r \in Seq(Threads)
      /\ Len(r) = Len(sq) - 1
      /\ Queued(r) \subseteq Queued(sq)
      /\ Queued(sq) \subseteq Queued(r) \union {w}
      /\ w \in Threads /\ w \in Queued(sq)
      /\ NoDuplicates(r) /\ w \notin Queued(r)
  BY <1>a, <1>b, UnlinkQueue DEF Queued
<1>d. sq' = r /\ toAwake' = toAwake \union {w}
  OBVIOUS
<1> HIDE DEF w, r
<1>e. /\ left > 0 /\ left' = left - 1 /\ mutex = t /\ mutex # NoThread
      /\ UNCHANGED <<exists, val, mutex, pc, call, old, run, signal, stopped, loading>>
  BY DEF MutexInv
<1>1. TypeOK'
  BY ONLY TypeOK, <1>c, <1>d, <1>e, SMT DEF TypeOK, ThreadsTypeOK
<1>2. QueueMatchesValue'
  <2>1. val \in Int /\ left \in Nat /\ Len(sq) \in Nat
    BY ONLY TypeOK, SMT DEF TypeOK
  <2>2. Len(sq) = (IF val < 0 THEN -val ELSE 0) + left /\ val <= MaxVal
    BY <1>e DEF QueueMatchesValue, owed
  <2>3. Len(sq') = Len(sq) - 1
    BY ONLY <1>c, <1>d, Zenon
  <2>4. QED
    BY ONLY <1>e, <2>1, <2>2, <2>3, SMT DEF QueueMatchesValue, owed
<1>3. NoLostWakeup'
  BY <1>a, <1>c, <1>d DEF NoLostWakeup, InWaitLoop, TypeOK, ThreadsTypeOK
<1>4. SleepNotSignaled'
  BY DEF SleepNotSignaled, InWaitLoop, TypeOK, ThreadsTypeOK
<1>5. MutexInv'
  BY DEF MutexInv, TypeOK
<1>6. QueueInv'
  <2>1. NoDuplicates(sq')
    BY <1>a, <1>c, <1>d DEF QueueInv
  <2>2. ASSUME NEW u \in Threads, u \in Queued(sq') \union toAwake'
        PROVE  \/ pc'[u] = "wait" /\ run'[u] = "asleep"
               \/ pc'[u] \in {"resched", "recheck"}
               \/ u \in stopped' /\ pc'[u] \in {"wait", "again", "idle"}
    BY <2>2, <1>a, <1>c, <1>d DEF QueueInv, TypeOK, ThreadsTypeOK
  <2>3. ASSUME NEW u \in Threads, pc'[u] = "again", run'[u] = "asleep"
        PROVE  u \in Queued(sq') \union toAwake'
    BY <2>3, <1>a, <1>c, <1>d DEF QueueInv, TypeOK, ThreadsTypeOK
  <2>4. Queued(sq') \intersect toAwake' = {}
    BY <1>a, <1>c, <1>d DEF QueueInv
  <2>5. QED
    BY <2>1, <2>2, <2>3, <2>4 DEF QueueInv
<1>7. CasInv'
  BY DEF CasInv, InCallback, TypeOK
<1>8. ThreadInv'
  BY DEF ThreadInv, InWaitLoop, TypeOK, ThreadsTypeOK
<1>9. LoadingInv'
  BY DEF LoadingInv, TypeOK, ThreadsTypeOK
<1>10. QED
  BY <1>1, <1>2, <1>3, <1>4, <1>5, <1>6, <1>7, <1>8, <1>9

\* post awakes those it has taken off.
LEMMA PostAwakeAllInv ==
  ASSUME IndInv, NEW t \in Threads, PostAwakeAll(t)
  PROVE  IndInv'
<1> USE Constants DEF IndInv, objVars, threadVars, PostAwakeAll, Return, Goto, Wait, awake
<1>a. mutex = t
  BY DEF MutexInv
<1>1. TypeOK'
  BY DEF TypeOK, ThreadsTypeOK, Calls, Labels, WaitLabels, RunStates, Wait, Post
<1>2. QueueMatchesValue'
  BY DEF QueueMatchesValue, owed, TypeOK
<1>3. NoLostWakeup'
  BY DEF NoLostWakeup, InWaitLoop, TypeOK, ThreadsTypeOK
<1>4. SleepNotSignaled'
  BY DEF SleepNotSignaled, InWaitLoop, TypeOK, ThreadsTypeOK
<1>5. MutexInv'
  BY DEF MutexInv, TypeOK
<1>6. QueueInv'
  <2>1. NoDuplicates(sq')
    BY <1>a DEF QueueInv
  <2>2. ASSUME NEW u \in Threads, u \in Queued(sq') \union toAwake'
        PROVE  \/ pc'[u] = "wait" /\ run'[u] = "asleep"
               \/ pc'[u] \in {"resched", "recheck"}
               \/ u \in stopped' /\ pc'[u] \in {"wait", "again", "idle"}
    BY <2>2, <1>a DEF QueueInv, TypeOK, ThreadsTypeOK, RunStates
  <2>3. ASSUME NEW u \in Threads, pc'[u] = "again", run'[u] = "asleep"
        PROVE  u \in Queued(sq') \union toAwake'
    BY <2>3, <1>a DEF QueueInv, TypeOK, ThreadsTypeOK, RunStates
  <2>4. Queued(sq') \intersect toAwake' = {}
    BY <1>a DEF QueueInv
  <2>5. QED
    BY <2>1, <2>2, <2>3, <2>4 DEF QueueInv
<1>7. CasInv'
  BY DEF CasInv, InCallback, TypeOK
<1>8. ThreadInv'
  <2> SUFFICES ASSUME NEW u \in Threads
               PROVE  /\ u \in signal' => run'[u] = "running"
                      /\ run'[u] = "asleep" => pc'[u] \in {"wait", "resched", "again"}
                      /\ run'[u] = "ready" =>
                           pc'[u] \in {"wait", "resched", "recheck"} \/ u \in stopped'
                      /\ pc'[u] = "recheck" => run'[u] = "running" /\ u \notin signal'
                      /\ \/ pc'[u] \in {"wait", "resched", "recheck"}
                         \/ pc'[u] \in {"wait_cas", "wait_lock"}
                         \/ pc'[u] = "again" /\ run'[u] = "asleep"
                         => call'[u].name = "wait"
    BY DEF ThreadInv, InWaitLoop
  <2>1. /\ run'[u] = run[u] \/ (u \in toAwake /\ run[u] = "asleep" /\ run'[u] = "ready")
        /\ signal' = signal /\ stopped' = stopped
    OBVIOUS
  <2>2. CASE u = t
    <3>1. pc[u] = "post_wake" /\ pc'[u] = "idle"
      BY <2>2 DEF TypeOK
    <3>2. run'[u] = run[u]
      BY <2>1, <3>1 DEF ThreadInv
    <3>3. QED
      BY <2>1, <3>1, <3>2 DEF ThreadInv, InWaitLoop
  <2>3. CASE u # t
    <3>1. pc'[u] = pc[u] /\ call'[u] = call[u]
      BY <2>3 DEF TypeOK
    <3>2. CASE run'[u] = run[u]
      BY <2>1, <3>1, <3>2 DEF ThreadInv, InWaitLoop
    <3>3. CASE u \in toAwake /\ run[u] = "asleep" /\ run'[u] = "ready"
      <4>1. pc[u] \in {"wait", "resched"} \/ (u \in stopped /\ pc[u] = "again")
        BY <3>3 DEF ThreadInv, QueueInv
      <4>2. QED
        BY <2>1, <3>1, <3>3, <4>1 DEF ThreadInv, InWaitLoop
    <3>4. QED
      BY <2>1, <3>2, <3>3
  <2>4. QED
    BY <2>2, <2>3
<1>9. LoadingInv'
  BY DEF LoadingInv, TypeOK, ThreadsTypeOK
<1>10. QED
  BY <1>1, <1>2, <1>3, <1>4, <1>5, <1>6, <1>7, <1>8, <1>9

\* destroy, without waiters.
LEMMA DestroyInv ==
  ASSUME IndInv, NEW t \in Threads, Destroy(t)
  PROVE  IndInv'
<1> USE Constants DEF IndInv, objVars, threadVars, Destroy, Idle
<1>1. TypeOK'
  BY DEF TypeOK, ThreadsTypeOK, Calls, Labels, WaitLabels, RunStates, Wait, Post
<1>2. QueueMatchesValue'
  BY DEF QueueMatchesValue, owed, TypeOK
<1>3. NoLostWakeup'
  BY DEF NoLostWakeup, InWaitLoop, TypeOK, ThreadsTypeOK
<1>4. SleepNotSignaled'
  BY DEF SleepNotSignaled, InWaitLoop, TypeOK, ThreadsTypeOK
<1>5. MutexInv'
  BY DEF MutexInv, TypeOK
<1>6. QueueInv'
  BY DEF QueueInv, TypeOK, ThreadsTypeOK
<1>7. CasInv'
  BY SMT DEF CasInv, InCallback, TypeOK
<1>8. ThreadInv'
  BY DEF ThreadInv, InWaitLoop, TypeOK, ThreadsTypeOK
<1>9. LoadingInv'
  BY DEF LoadingInv, TypeOK, ThreadsTypeOK
<1>10. QED
  BY <1>1, <1>2, <1>3, <1>4, <1>5, <1>6, <1>7, <1>8, <1>9

\* create.
LEMMA CreateInv ==
  ASSUME IndInv, NEW t \in Threads, Create(t)
  PROVE  IndInv'
<1> USE Constants DEF IndInv, objVars, threadVars, Create, Idle
<1>1. TypeOK'
  BY SMT DEF TypeOK, ThreadsTypeOK, Calls, Labels, WaitLabels, RunStates, Wait, Post
<1>2. QueueMatchesValue'
  <2>1. val \in Int /\ val >= 0 /\ val' \in Int /\ val' >= 0 /\ val' <= MaxVal
    <3>1. val \in Int /\ (val < 0 => exists) /\ ~exists
      BY DEF TypeOK, CasInv
    <3>2. MaxVal \in Nat /\ val' \in 0 .. MaxVal
      OBVIOUS
    <3>3. QED
      BY ONLY <3>1, <3>2, SMT
  <2>2. /\ Len(sq) = (IF val < 0 THEN -val ELSE 0) + owed
        /\ Len(sq') = Len(sq) /\ owed' = owed
    BY DEF QueueMatchesValue, owed
  <2>3. ASSUME NEW n \in Int, n >= 0
        PROVE  (IF n < 0 THEN -n ELSE 0) = 0
    BY <2>3, SMT
  <2>4. QED
    BY <2>1, <2>2, <2>3 DEF QueueMatchesValue
<1>3. NoLostWakeup'
  BY DEF NoLostWakeup, InWaitLoop, TypeOK, ThreadsTypeOK
<1>4. SleepNotSignaled'
  BY DEF SleepNotSignaled, InWaitLoop, TypeOK, ThreadsTypeOK
<1>5. MutexInv'
  BY DEF MutexInv, TypeOK
<1>6. QueueInv'
  BY DEF QueueInv, TypeOK, ThreadsTypeOK
<1>7. CasInv'
  BY DEF CasInv, InCallback, TypeOK
<1>8. ThreadInv'
  BY DEF ThreadInv, InWaitLoop, TypeOK, ThreadsTypeOK
<1>9. LoadingInv'
  BY DEF LoadingInv, TypeOK, ThreadsTypeOK
<1>10. QED
  BY <1>1, <1>2, <1>3, <1>4, <1>5, <1>6, <1>7, <1>8, <1>9

\* The scheduler gives a thread the processor.
LEMMA ScheduleInv ==
  ASSUME IndInv, NEW t \in Threads, Schedule(t)
  PROVE  IndInv'
<1> USE Constants DEF IndInv, objVars, threadVars, Schedule, schedule_all
<1>1. TypeOK'
  BY DEF TypeOK, ThreadsTypeOK, Calls, Labels, WaitLabels, RunStates, Wait, Post
<1>2. QueueMatchesValue'
  BY DEF QueueMatchesValue, owed, TypeOK
<1>3. NoLostWakeup'
  BY DEF NoLostWakeup, InWaitLoop, TypeOK, ThreadsTypeOK
<1>4. SleepNotSignaled'
  BY DEF SleepNotSignaled, InWaitLoop, TypeOK, ThreadsTypeOK, ThreadInv
<1>5. MutexInv'
  BY DEF MutexInv, TypeOK
<1>6. QueueInv'
  BY DEF QueueInv, TypeOK, ThreadsTypeOK
<1>7. CasInv'
  BY DEF CasInv, InCallback, TypeOK
<1>8. ThreadInv'
  BY DEF ThreadInv, InWaitLoop, TypeOK, ThreadsTypeOK
<1>9. LoadingInv'
  BY DEF LoadingInv, TypeOK, ThreadsTypeOK
<1>10. QED
  BY <1>1, <1>2, <1>3, <1>4, <1>5, <1>6, <1>7, <1>8, <1>9

\* A savestate stops every thread.
LEMMA StopInv ==
  ASSUME IndInv, NEW t \in Threads, Stop(t)
  PROVE  IndInv'
<1> USE Constants DEF IndInv, objVars, threadVars, Stop, stop
<1>1. TypeOK'
  BY DEF TypeOK, ThreadsTypeOK, Calls, Labels, WaitLabels, RunStates, Wait, Post
<1>2. QueueMatchesValue'
  BY DEF QueueMatchesValue, owed, TypeOK
<1>3. NoLostWakeup'
  BY DEF NoLostWakeup, InWaitLoop, TypeOK, ThreadsTypeOK
<1>4. SleepNotSignaled'
  BY DEF SleepNotSignaled, InWaitLoop, TypeOK, ThreadsTypeOK
<1>5. MutexInv'
  BY DEF MutexInv, TypeOK
<1>6. QueueInv'
  BY DEF QueueInv, TypeOK, ThreadsTypeOK
<1>7. CasInv'
  BY DEF CasInv, InCallback, TypeOK
<1>8. ThreadInv'
  BY DEF ThreadInv, InWaitLoop, TypeOK, ThreadsTypeOK
<1>9. LoadingInv'
  BY DEF LoadingInv, TypeOK, ThreadsTypeOK
<1>10. QED
  BY <1>1, <1>2, <1>3, <1>4, <1>5, <1>6, <1>7, <1>8, <1>9

\* A savestate is loaded.
LEMMA LoadInv ==
  ASSUME IndInv, Load
  PROVE  IndInv'
<1> USE Constants DEF IndInv, objVars, threadVars, Load, load, saved
<1>a. mutex = NoThread /\ left = 0 /\ toAwake = {}
  BY DEF TypeOK, MutexInv
<1>b. Len(sq') = 0 /\ Queued(sq') = {} /\ NoDuplicates(sq')
  BY SMT DEF Queued, NoDuplicates
<1>c. Queued(sq) # {} => val < 0
  <2>1. val \in Int /\ sq \in Seq(Threads) /\ Len(sq) = (IF val < 0 THEN -val ELSE 0)
    BY <1>a, SMT DEF QueueMatchesValue, owed, TypeOK
  <2>2. Len(sq) = 0 => Queued(sq) = {}
    BY ONLY <2>1, SMT DEF Queued
  <2>3. QED
    BY ONLY <2>1, <2>2, Zenon
<1>1. TypeOK'
  BY SMT DEF TypeOK, ThreadsTypeOK, Calls, Labels, WaitLabels, RunStates, Wait, Post
<1>2. QueueMatchesValue'
  BY <1>a, <1>b, SMT DEF QueueMatchesValue, owed, TypeOK
<1>3. NoLostWakeup'
  BY DEF NoLostWakeup, InWaitLoop, TypeOK, ThreadsTypeOK
<1>4. SleepNotSignaled'
  BY DEF SleepNotSignaled, InWaitLoop, TypeOK, ThreadsTypeOK
<1>5. MutexInv'
  BY DEF MutexInv, TypeOK
<1>6. QueueInv'
  <2>1. NoDuplicates(sq')
    BY <1>a, <1>b DEF QueueInv
  <2>2. ASSUME NEW u \in Threads, u \in Queued(sq') \union toAwake'
        PROVE  \/ pc'[u] = "wait" /\ run'[u] = "asleep"
               \/ pc'[u] \in {"resched", "recheck"}
               \/ u \in stopped' /\ pc'[u] \in {"wait", "again", "idle"}
    BY <2>2, <1>a, <1>b DEF QueueInv, TypeOK, ThreadsTypeOK
  <2>3. ASSUME NEW u \in Threads, pc'[u] = "again", run'[u] = "asleep"
        PROVE  u \in Queued(sq') \union toAwake'
    BY <2>3, <1>a, <1>b DEF QueueInv, TypeOK, ThreadsTypeOK
  <2>4. Queued(sq') \intersect toAwake' = {}
    BY <1>a, <1>b DEF QueueInv
  <2>5. QED
    BY <2>1, <2>2, <2>3, <2>4 DEF QueueInv
<1>7. CasInv'
  BY DEF CasInv, InCallback, TypeOK
<1>8. ThreadInv'
  BY DEF ThreadInv, InWaitLoop, TypeOK, ThreadsTypeOK
<1>9. LoadingInv'
  <2> SUFFICES ASSUME loading' # {}
               PROVE  LoadingInv'
    BY DEF LoadingInv
  <2>1. PICK v \in Threads : pc[v] = "again" /\ run[v] = "asleep"
    OBVIOUS
  <2>2. v \in Queued(sq)
    BY <2>1, <1>a DEF QueueInv
  <2>3. exists /\ val < 0
    BY <2>2, <1>c DEF CasInv
  <2>4. exists' /\ val' <= 0 /\ stopped' = {} /\ signal' = {}
    BY <2>3, SMT DEF TypeOK
  <2>5. \A u \in Threads : pc'[u] = "again" \/ (pc'[u] = "idle" /\ u \notin loading')
    OBVIOUS
  <2>6. \A u \in loading' : u \in Threads /\ call'[u].name = "wait"
    BY DEF ThreadInv
  <2>7. QED
    BY ONLY <2>4, <2>5, <2>6, Zenon DEF LoadingInv
<1>10. QED
  BY <1>1, <1>2, <1>3, <1>4, <1>5, <1>6, <1>7, <1>8, <1>9

\* Every step preserves the invariant.
LEMMA NextInv == IndInv /\ [Next]_vars => IndInv'
<1> SUFFICES ASSUME IndInv, [Next]_vars PROVE IndInv'
  OBVIOUS
<1>1. ASSUME NEW t \in Threads, Step(t) PROVE IndInv'
  BY <1>1, WaitCasInv, WaitLockInv, WaitSignalInv, WaitStoppedInv, WaitTimeoutInv,
     CheckStateInv, RecheckInv, PostCasInv, PostInvalidInv,
     PostLockInv, PostAgainInv, PostWakeInv, PostAwakeAllInv DEF Step
<1>2. ASSUME NEW t \in Threads, Enter(t) PROVE IndInv'
  BY <1>2, WaitLoadInv, PostLoadInv, TryWaitInv, DestroyInv, CreateInv DEF Enter
<1>3. CASE UNCHANGED vars
  BY <1>3 DEF vars, objVars, threadVars, IndInv, TypeOK, ThreadsTypeOK, QueueMatchesValue, owed,
     NoLostWakeup, SleepNotSignaled, MutexInv, QueueInv, CasInv, ThreadInv,
     LoadingInv, InWaitLoop, InCallback
<1>4. QED
  BY <1>1, <1>2, <1>3, ScheduleInv, StopInv, LoadInv DEF Next

\* The invariant holds in every state of every behaviour.
THEOREM Invariance == Spec => []IndInv
  BY InitInv, NextInv, PTL DEF Spec

(***************************************************************************)
(* The range of val: it is never above the maximum, and never further      *)
(* below zero than there are threads to wait.                              *)
(***************************************************************************)
ValueInRange == -Cardinality(Threads) <= val /\ val <= MaxVal

\* A thread is queued once, so the queue is no longer than there are threads.
LEMMA QueueBounded ==
  ASSUME IsFiniteSet(Threads), NEW s \in Seq(Threads), NoDuplicates(s)
  PROVE  Cardinality(Threads) \in Nat /\ Len(s) <= Cardinality(Threads)
<1>1. Len(s) \in Nat /\ DOMAIN s = 1 .. Len(s) /\ s \in [1 .. Len(s) -> Threads]
  BY SMT
<1>2. s \in Injection(1 .. Len(s), Threads)
  BY <1>1 DEF NoDuplicates, Injection, IsInjective
<1>3. Cardinality(1 .. Len(s)) = Len(s)
  BY <1>1, FS_Interval, SMT
<1>4. Cardinality(1 .. Len(s)) <= Cardinality(Threads)
  BY <1>2, FS_Injection
<1>5. Cardinality(Threads) \in Nat
  BY FS_CardinalityType
<1>6. QED
  BY <1>3, <1>4, <1>5, SMT

(***************************************************************************)
(* The variables keep their types, and the 32 bits of val neither overflow *)
(* nor underflow: whatever is posted, waited for and timed out, val stays  *)
(* between minus the number of threads and the maximum of the semaphore.   *)
(***************************************************************************)
THEOREM TypeCorrect ==
  ASSUME IsFiniteSet(Threads)
  PROVE  Spec => [](TypeOK /\ ValueInRange)
<1>1. ASSUME IndInv PROVE TypeOK /\ ValueInRange
  <2>1. /\ val \in Int /\ val <= MaxVal /\ sq \in Seq(Threads) /\ NoDuplicates(sq)
        /\ Len(sq) = (IF val < 0 THEN -val ELSE 0) + owed
    BY <1>1 DEF IndInv, TypeOK, QueueMatchesValue, QueueInv
  <2>2. owed \in Nat
    BY <1>1, SMT DEF IndInv, TypeOK, owed
  <2>3. Cardinality(Threads) \in Nat /\ Len(sq) <= Cardinality(Threads)
    BY <2>1, QueueBounded
  <2>4. QED
    BY <1>1, <2>1, <2>2, <2>3, SMT DEF IndInv, ValueInRange
<1>2. QED
  BY <1>1, Invariance, PTL

(***************************************************************************)
(* Counter and queue agree, whatever the number of threads and the counts: *)
(* both ensure() of sys_semaphore.cpp hold, destroy strands nobody.        *)
(***************************************************************************)
THEOREM QueueMatches == Spec => []QueueMatchesValue
<1>1. IndInv => QueueMatchesValue
  BY DEF IndInv
<1>2. QED
  BY <1>1, Invariance, PTL

\* No wake-up is lost and no sleep fails on a stale signal.
THEOREM Wakeups == Spec => [](NoLostWakeup /\ SleepNotSignaled)
<1>1. IndInv => NoLostWakeup /\ SleepNotSignaled
  BY DEF IndInv
<1>2. QED
  BY <1>1, Invariance, PTL

\* A thread that a load has to put to sleep finds no permit.
THEOREM LoadedSleep == Spec => []LoadedThreadsSleep
<1>1. IndInv => LoadedThreadsSleep
  BY DEF IndInv, LoadedThreadsSleep, LoadingInv
<1>2. QED
  BY <1>1, Invariance, PTL

-----------------------------------------------------------------------------
(***************************************************************************)
(* Without savestates the system calls implement the abstract semaphore.   *)
(* First the order in which the protocol prefers the waiters.              *)
(***************************************************************************)
Ordered(W, order) ==
  /\ \A t \in W : <<t, t>> \notin order
  /\ \A t, u \in W : t # u => <<t, u>> \in order \/ <<u, t>> \in order
  /\ \A t, u, v \in W : <<t, u>> \in order /\ <<u, v>> \in order => <<t, v>> \in order

\* The waiters that the protocol prefers to t.
Preferred(W, order, t) == {u \in W : pending!Before(order, u, t)}

\* The abstract operators do not depend on the refinement mapping.
LEMMA SameOperators ==
  ASSUME NEW W, NEW order, NEW n
  PROVE  /\ S!First(W, order, n) = pending!First(W, order, n)
         /\ S!Among(W, order) = pending!Among(W, order)
  BY DEF S!First, S!Before, S!Among, S!Cardinality, pending!First, pending!Before,
         pending!Among, pending!Cardinality

\* First selects by the number of waiters that are preferred.
LEMMA FirstCounts ==
  ASSUME NEW W, NEW order, NEW n
  PROVE  pending!First(W, order, n) = {t \in W : Cardinality(Preferred(W, order, t)) < n}
  BY DEF pending!First, Preferred, pending!Cardinality, Cardinality

\* The protocol orders the waiters.
LEMMA BeforeOrders ==
  ASSUME NEW W, W \subseteq Threads, NEW order, Ordered(W, order)
  PROVE  /\ \A t \in W : ~pending!Before(order, t, t)
         /\ \A t, u \in W : t # u => pending!Before(order, t, u) \/ pending!Before(order, u, t)
         /\ \A t, u, v \in W : pending!Before(order, t, u) /\ pending!Before(order, u, v)
                               => pending!Before(order, t, v)
<1>1. \A t \in W : Prio[t] \in Int
  BY Lv2Assumption DEF Lv2Assumption
<1>2. Protocol \in {FIFO, PRIORITY}
  BY Lv2Assumption DEF Lv2Assumption
<1>3. CASE Protocol = FIFO
  <2>1. \A t, u \in W : pending!Before(order, t, u) <=> <<t, u>> \in order
    BY <1>3 DEF pending!Before, FIFO
  <2>2. QED
    BY <2>1 DEF Ordered
<1>4. CASE Protocol = PRIORITY
  <2>1. \A t, u \in W : pending!Before(order, t, u) <=>
          \/ Prio[t] < Prio[u]
          \/ Prio[t] = Prio[u] /\ <<t, u>> \in order
    BY <1>4 DEF pending!Before, PRIORITY
  <2>2. ASSUME NEW t \in W
        PROVE  ~pending!Before(order, t, t)
    <3>1. ~(Prio[t] < Prio[t]) /\ <<t, t>> \notin order
      BY <1>1, SMT DEF Ordered
    <3>2. QED
      BY <3>1, <1>4 DEF pending!Before, PRIORITY
  <2>3. ASSUME NEW t \in W, NEW u \in W, t # u
        PROVE  pending!Before(order, t, u) \/ pending!Before(order, u, t)
    <3>1. <<t, u>> \in order \/ <<u, t>> \in order
      BY <2>3 DEF Ordered
    <3>2. Prio[t] < Prio[u] \/ Prio[u] < Prio[t] \/ Prio[t] = Prio[u]
      BY <1>1, SMT
    <3>3. QED
      BY <2>1, <3>1, <3>2
  <2>4. ASSUME NEW t \in W, NEW u \in W, NEW v \in W,
               pending!Before(order, t, u), pending!Before(order, u, v)
        PROVE  pending!Before(order, t, v)
    <3>1. <<t, u>> \in order /\ <<u, v>> \in order => <<t, v>> \in order
      BY DEF Ordered
    <3>2. /\ Prio[t] < Prio[u] \/ (Prio[t] = Prio[u] /\ <<t, u>> \in order)
          /\ Prio[u] < Prio[v] \/ (Prio[u] = Prio[v] /\ <<u, v>> \in order)
      BY <2>1, <2>4
    <3>3. Prio[t] < Prio[v] \/ (Prio[t] = Prio[v] /\ <<t, v>> \in order)
      BY <1>1, <3>1, <3>2, SMT
    <3>4. QED
      BY <2>1, <3>3
  <2>5. QED
    BY <2>2, <2>3, <2>4
<1>5. QED
  BY <1>2, <1>3, <1>4

\* The waiters preferred to one of them are fewer than all.
LEMMA PreferredFew ==
  ASSUME NEW W, IsFiniteSet(W), W \subseteq Threads, NEW order, Ordered(W, order), NEW t \in W
  PROVE  /\ IsFiniteSet(Preferred(W, order, t))
         /\ Cardinality(Preferred(W, order, t)) \in Nat
         /\ Cardinality(Preferred(W, order, t)) < Cardinality(W)
<1>1. Preferred(W, order, t) \in SUBSET W /\ t \notin Preferred(W, order, t)
  BY BeforeOrders DEF Preferred
<1> DEFINE P == Preferred(W, order, t)
<1>2. P \in SUBSET W /\ t \notin P
  BY <1>1
<1> HIDE DEF P
<1>3. /\ IsFiniteSet(P) /\ Cardinality(P) <= Cardinality(W)
      /\ Cardinality(W) = Cardinality(P) => W = P
  BY <1>2, FS_Subset
<1>4. Cardinality(P) \in Nat /\ Cardinality(W) \in Nat
  BY <1>3, FS_CardinalityType
<1>5. QED
  BY <1>2, <1>3, <1>4, SMT DEF P

\* Nobody is among the first none.
LEMMA FirstNone ==
  ASSUME NEW W, IsFiniteSet(W), W \subseteq Threads, NEW order, Ordered(W, order)
  PROVE  pending!First(W, order, 0) = {}
<1>1. \A t \in W : Cardinality(Preferred(W, order, t)) \in Nat
  BY PreferredFew
<1>2. QED
  BY <1>1, FirstCounts, SMT

\* A post that has enough for all gives to all.
LEMMA FirstAll ==
  ASSUME NEW W, IsFiniteSet(W), W \subseteq Threads, NEW order, Ordered(W, order),
         NEW n \in Nat, Cardinality(W) <= n
  PROVE  pending!First(W, order, n) = W
<1>1. \A t \in W : /\ Cardinality(Preferred(W, order, t)) \in Nat
                   /\ Cardinality(Preferred(W, order, t)) < Cardinality(W)
  BY PreferredFew
<1>2. Cardinality(W) \in Nat
  BY FS_CardinalityType
<1>3. \A t \in W : Cardinality(Preferred(W, order, t)) < n
  BY <1>1, <1>2, SMT
<1>4. QED
  BY <1>3, FirstCounts

\* The more a waiter is preferred, the fewer are preferred to it.
LEMMA PreferredCount ==
  ASSUME NEW W, IsFiniteSet(W), W \subseteq Threads, NEW order, Ordered(W, order),
         NEW t \in W, NEW u \in W, pending!Before(order, t, u)
  PROVE  Cardinality(Preferred(W, order, t)) < Cardinality(Preferred(W, order, u))
<1> DEFINE P == Preferred(W, order, t)
           Q == Preferred(W, order, u)
<1>1. P \in SUBSET Q /\ t \in Q /\ t \notin P
  BY BeforeOrders DEF Preferred
<1>2. /\ IsFiniteSet(Q) /\ Cardinality(Q) \in Nat /\ Cardinality(P) \in Nat
  BY PreferredFew
<1> HIDE DEF P, Q
<1>3. Cardinality(P) <= Cardinality(Q) /\ (Cardinality(Q) = Cardinality(P) => Q = P)
  BY <1>1, <1>2, FS_Subset
<1>4. Cardinality(P) < Cardinality(Q)
  BY <1>1, <1>2, <1>3, SMT
<1>5. QED
  BY <1>4 DEF P, Q

\* A post gives as many permits to waiters as it has, if there are as many.
LEMMA FirstSize ==
  ASSUME NEW W, IsFiniteSet(W), W \subseteq Threads, NEW order, Ordered(W, order),
         NEW n \in Nat, n <= Cardinality(W)
  PROVE  Cardinality(pending!First(W, order, n)) = n
<1> DEFINE N == Cardinality(W)
           c == [t \in W |-> Cardinality(Preferred(W, order, t))]
           F == pending!First(W, order, n)
<1>1. N \in Nat
  BY FS_CardinalityType
<1>2. c \in [W -> 0 .. N - 1]
  <2>1. \A t \in W : /\ Cardinality(Preferred(W, order, t)) \in Nat
                     /\ Cardinality(Preferred(W, order, t)) < N
    BY PreferredFew
  <2>2. QED
    BY <2>1, <1>1, SMT
<1>3. ASSUME NEW t \in W, NEW u \in W, t # u
      PROVE  c[t] # c[u]
  <2>1. pending!Before(order, t, u) \/ pending!Before(order, u, t)
    BY <1>3, BeforeOrders
  <2>2. c[t] < c[u] \/ c[u] < c[t]
    BY <2>1, PreferredCount
  <2>3. c[t] \in Int /\ c[u] \in Int
    <3> HIDE DEF c
    <3>1. QED
      BY <1>1, <1>2, SMT
  <2>4. QED
    BY <2>2, <2>3, SMT
<1>4. F = {t \in W : c[t] < n}
  BY FirstCounts
<1> HIDE DEF c, F
<1>5. c \in Injection(W, 0 .. N - 1)
  BY <1>2, <1>3 DEF Injection, IsInjective
<1>6. IsFiniteSet(0 .. N - 1) /\ Cardinality(0 .. N - 1) = N
  <2> HIDE DEF N
  <2>1. N - 1 \in Int /\ (0 > N - 1 <=> N = 0) /\ (N - 1) - 0 + 1 = N
    BY <1>1, SMT
  <2>2. QED
    BY <2>1, FS_Interval, SMT
<1>7. c \in Surjection(W, 0 .. N - 1)
  BY <1>5, <1>6, FS_Injection DEF N
<1> DEFINE d == [t \in F |-> c[t]]
<1>8. d \in Bijection(F, 0 .. n - 1)
  <2>1. d \in [F -> 0 .. n - 1]
    BY <1>1, <1>2, <1>4, SMT
  <2>2. \A t, u \in F : d[t] = d[u] => t = u
    BY <1>3, <1>4
  <2>3. ASSUME NEW k \in 0 .. n - 1
        PROVE  \E t \in F : d[t] = k
    <3>1. k \in 0 .. N - 1 /\ k < n
      BY <1>1, SMT DEF N
    <3>2. PICK t \in W : c[t] = k
      BY <1>7, <3>1 DEF Surjection
    <3>3. t \in F
      BY <1>4, <3>1, <3>2
    <3>4. QED
      BY <3>2, <3>3
  <2> HIDE DEF d
  <2>4. QED
    BY <2>1, <2>2, <2>3 DEF Bijection, Injection, Surjection, IsInjective
<1> HIDE DEF d
<1>9. F \in SUBSET W
  BY <1>4
<1>10. IsFiniteSet(F)
  BY <1>9, FS_Subset
<1>11. Cardinality(0 .. n - 1) = Cardinality(F)
  BY <1>8, <1>10, FS_Bijection DEF ExistsBijection
<1>12. Cardinality(0 .. n - 1) = n
  BY FS_Interval, SMT
<1>13. QED
  BY <1>11, <1>12 DEF F

\* The first n are the one that the protocol prefers to all, and the first
\* n - 1 of the others.
LEMMA FirstRest ==
  ASSUME NEW W, IsFiniteSet(W), W \subseteq Threads, NEW order, Ordered(W, order),
         NEW m \in W, \A t \in W \ {m} : pending!Before(order, m, t),
         NEW n \in Nat, n > 0
  PROVE  pending!First(W, order, n) =
           {m} \union pending!First(W \ {m}, pending!Among(W \ {m}, order), n - 1)
<1> DEFINE V == W \ {m}
           rest == pending!Among(V, order)
<1>1. Preferred(W, order, m) = {}
  BY BeforeOrders DEF Preferred
<1>2. Cardinality(Preferred(W, order, m)) < n
  BY <1>1, FS_EmptySet
<1>3. ASSUME NEW t \in V
      PROVE  Cardinality(Preferred(W, order, t)) < n <=>
               Cardinality(Preferred(V, rest, t)) < n - 1
  <2> DEFINE P == Preferred(W, order, t)
             Q == Preferred(V, rest, t)
  <2>1. m \in P
    BY DEF Preferred
  <2>2. Q = P \ {m}
    <3>1. \A u \in V : <<u, t>> \in rest <=> <<u, t>> \in order
      BY DEF pending!Among
    <3>2. \A u \in V : pending!Before(rest, u, t) <=> pending!Before(order, u, t)
      BY <3>1 DEF pending!Before
    <3>3. QED
      BY <3>2 DEF Preferred
  <2>3. IsFiniteSet(P) /\ Cardinality(P) \in Nat
    BY PreferredFew
  <2> HIDE DEF P, Q
  <2>4. Cardinality(Q) = Cardinality(P) - 1
    BY <2>1, <2>2, <2>3, FS_RemoveElement
  <2>5. Cardinality(P) < n <=> Cardinality(Q) < n - 1
    BY <2>3, <2>4, SMT
  <2>6. QED
    BY <2>5 DEF P, Q
<1>4. /\ pending!First(W, order, n) = {t \in W : Cardinality(Preferred(W, order, t)) < n}
      /\ pending!First(V, rest, n - 1) = {t \in V : Cardinality(Preferred(V, rest, t)) < n - 1}
  BY FirstCounts
<1>5. QED
  BY <1>2, <1>3, <1>4

\* The threads of a sleep queue came one after the other.
LEMMA ArrivalOrders ==
  ASSUME NEW q \in Seq(Threads), NoDuplicates(q)
  PROVE  /\ Queued(q) \subseteq Threads
         /\ IsFiniteSet(Queued(q)) /\ Cardinality(Queued(q)) = Len(q)
         /\ \A i, j \in DOMAIN q : <<q[i], q[j]>> \in Arrival(q) <=> i < j
         /\ Ordered(Queued(q), Arrival(q))
<1>1. Len(q) \in Nat /\ DOMAIN q = 1 .. Len(q) /\ \A i \in DOMAIN q : q[i] \in Threads
  BY SMT
<1>2. Queued(q) \subseteq Threads
  BY <1>1 DEF Queued
<1>3. IsFiniteSet(Queued(q)) /\ Cardinality(Queued(q)) = Len(q)
  <2>1. q \in [1 .. Len(q) -> Queued(q)]
    BY <1>1, SMT DEF Queued
  <2>2. q \in Bijection(1 .. Len(q), Queued(q))
    BY <1>1, <2>1 DEF Bijection, Injection, Surjection, IsInjective, Queued, NoDuplicates
  <2>3. IsFiniteSet(1 .. Len(q)) /\ Cardinality(1 .. Len(q)) = Len(q)
    BY <1>1, FS_Interval, SMT
  <2>4. QED
    BY <2>2, <2>3, FS_Bijection DEF ExistsBijection
<1>4. ASSUME NEW i \in DOMAIN q, NEW j \in DOMAIN q
      PROVE  <<q[i], q[j]>> \in Arrival(q) <=> i < j
  <2>1. q[i] \in Queued(q) /\ q[j] \in Queued(q)
    BY DEF Queued
  <2>2. ASSUME i < j
        PROVE  <<q[i], q[j]>> \in Arrival(q)
    BY <2>1, <2>2 DEF Arrival
  <2>3. ASSUME <<q[i], q[j]>> \in Arrival(q)
        PROVE  i < j
    <3>1. PICK k, l \in DOMAIN q : k < l /\ <<q[i], q[j]>> = <<q[k], q[l]>>
      BY <2>3 DEF Arrival
    <3>2. i = k /\ j = l
      BY <3>1 DEF NoDuplicates
    <3>3. QED
      BY <3>1, <3>2
  <2>4. QED
    BY <2>2, <2>3
<1>5. Ordered(Queued(q), Arrival(q))
  <2>1. ASSUME NEW t \in Queued(q)
        PROVE  <<t, t>> \notin Arrival(q)
    <3>1. PICK i \in DOMAIN q : t = q[i]
      BY DEF Queued
    <3>2. <<q[i], q[i]>> \in Arrival(q) <=> i < i
      BY <1>4
    <3>3. ~(i < i)
      BY <1>1, SMT
    <3>4. QED
      BY <3>1, <3>2, <3>3
  <2>2. ASSUME NEW t \in Queued(q), NEW u \in Queued(q), t # u
        PROVE  <<t, u>> \in Arrival(q) \/ <<u, t>> \in Arrival(q)
    <3>1. PICK i \in DOMAIN q : t = q[i]
      BY DEF Queued
    <3>2. PICK j \in DOMAIN q : u = q[j]
      BY DEF Queued
    <3>3. i < j \/ j < i
      BY <1>1, <2>2, <3>1, <3>2, SMT
    <3>4. QED
      BY <1>4, <3>1, <3>2, <3>3
  <2>3. ASSUME NEW t \in Queued(q), NEW u \in Queued(q), NEW v \in Queued(q),
               <<t, u>> \in Arrival(q), <<u, v>> \in Arrival(q)
        PROVE  <<t, v>> \in Arrival(q)
    <3>1. PICK i \in DOMAIN q : t = q[i]
      BY DEF Queued
    <3>2. PICK j \in DOMAIN q : u = q[j]
      BY DEF Queued
    <3>3. PICK k \in DOMAIN q : v = q[k]
      BY DEF Queued
    <3>4. i < j /\ j < k
      BY <1>4, <2>3, <3>1, <3>2, <3>3
    <3>5. i < k
      BY <1>1, <3>4, SMT
    <3>6. QED
      BY <1>4, <3>1, <3>3, <3>5
  <2>4. QED
    BY <2>1, <2>2, <2>3 DEF Ordered
<1>6. QED
  BY <1>2, <1>3, <1>4, <1>5

\* schedule picks the waiter that the protocol prefers to all others.
LEMMA ScheduleFirst ==
  ASSUME NEW q \in Seq(Threads), NoDuplicates(q), Len(q) > 0,
         NEW t \in Queued(q), t # q[schedule(q)]
  PROVE  pending!Before(Arrival(q), q[schedule(q)], t)
<1> DEFINE i == schedule(q)
<1>1. Len(q) \in Nat /\ DOMAIN q = 1 .. Len(q)
  BY SMT
<1>2. PICK j \in DOMAIN q : t = q[j]
  BY DEF Queued
<1>3. /\ i \in DOMAIN q
      /\ IF Protocol = FIFO
         THEN i <= j
         ELSE Prio[q[i]] < Prio[q[j]] \/ (Prio[q[i]] = Prio[q[j]] /\ i <= j)
  BY SchedulePrefers
<1> HIDE DEF i
<1>4. i # j
  BY <1>2 DEF i
<1>5. i <= j => i < j
  BY <1>1, <1>3, <1>4, SMT
<1>6. i < j => <<q[i], t>> \in Arrival(q)
  BY <1>2, <1>3, ArrivalOrders
<1>7. Protocol \in {FIFO, PRIORITY}
  BY Lv2Assumption DEF Lv2Assumption
<1>8. pending!Before(Arrival(q), q[i], t)
  BY <1>2, <1>3, <1>5, <1>6, <1>7 DEF pending!Before, FIFO, PRIORITY
<1>9. QED
  BY <1>8 DEF i

\* A waiter that queues came after the others.
LEMMA ArrivalEmplace ==
  ASSUME NEW q \in Seq(Threads), NoDuplicates(q), NEW t \in Threads, t \notin Queued(q)
  PROVE  Arrival(emplace(q, t)) = Arrival(q) \union (Queued(q) \X {t})
<1> DEFINE r == emplace(q, t)
           n == Len(q)
<1>1. /\ n \in Nat /\ DOMAIN q = 1 .. n
      /\ r \in Seq(Threads) /\ DOMAIN r = 1 .. n + 1
      /\ r[n + 1] = t /\ \A i \in 1 .. n : r[i] = q[i]
  BY SMT DEF emplace
<1>2. NoDuplicates(r) /\ Queued(r) = Queued(q) \union {t}
  BY EmplaceQueue
<1> HIDE DEF r, n
<1>3. ASSUME NEW p \in Arrival(r)
      PROVE  p \in Arrival(q) \union (Queued(q) \X {t})
  <2>1. PICK i, j \in DOMAIN r : i < j /\ p = <<r[i], r[j]>>
    BY DEF Arrival
  <2>2. i \in DOMAIN q /\ r[i] = q[i] /\ q[i] \in Queued(q)
    BY <1>1, <2>1, SMT DEF Queued
  <2>3. CASE j = n + 1
    BY <1>1, <2>1, <2>2, <2>3
  <2>4. CASE j # n + 1
    <3>1. j \in DOMAIN q /\ r[j] = q[j]
      BY <1>1, <2>4, SMT
    <3>2. QED
      BY <2>1, <2>2, <3>1, ArrivalOrders
  <2>5. QED
    BY <2>3, <2>4
<1>4. ASSUME NEW p \in Arrival(q)
      PROVE  p \in Arrival(r)
  <2>1. PICK i, j \in DOMAIN q : i < j /\ p = <<q[i], q[j]>>
    BY DEF Arrival
  <2>2. i \in DOMAIN r /\ j \in DOMAIN r /\ r[i] = q[i] /\ r[j] = q[j]
    BY <1>1, SMT
  <2>3. QED
    BY <1>1, <1>2, <2>1, <2>2, ArrivalOrders
<1>5. ASSUME NEW u \in Queued(q)
      PROVE  <<u, t>> \in Arrival(r)
  <2>1. PICK i \in DOMAIN q : u = q[i]
    BY DEF Queued
  <2>2. i \in DOMAIN r /\ n + 1 \in DOMAIN r /\ r[i] = u /\ i < n + 1
    BY <1>1, <2>1, SMT
  <2>3. QED
    BY <1>1, <1>2, <2>2, ArrivalOrders
<1>6. QED
  BY <1>3, <1>4, <1>5, SMT DEF r

\* A waiter that leaves does not change the order of the others.
LEMMA ArrivalUnlink ==
  ASSUME NEW q \in Seq(Threads), NoDuplicates(q), NEW i \in DOMAIN q
  PROVE  /\ Queued(Unlink(q, i)) = Queued(q) \ {q[i]}
         /\ Arrival(Unlink(q, i)) = pending!Among(Queued(q) \ {q[i]}, Arrival(q))
<1> DEFINE r == Unlink(q, i)
           n == Len(q)
           at(x) == IF x < i THEN x ELSE x + 1
<1>1. n \in Nat /\ DOMAIN q = 1 .. n /\ i \in 1 .. n
  BY SMT
<1>2. /\ r \in Seq(Threads) /\ Len(r) = n - 1
      /\ \A j \in 1 .. n - 1 : r[j] = IF j < i THEN q[j] ELSE q[j + 1]
  BY <1>1, UnlinkElements
<1>3. NoDuplicates(r) /\ Queued(r) = Queued(q) \ {q[i]}
  BY UnlinkQueue
<1> HIDE DEF r, n
<1>4. DOMAIN r = 1 .. n - 1
  BY <1>2, SMT
<1>5. \A j \in DOMAIN r : at(j) \in DOMAIN q /\ r[j] = q[at(j)]
  BY <1>1, <1>2, <1>4, SMT
<1>6. \A j, k \in DOMAIN r : at(j) < at(k) <=> j < k
  BY <1>1, <1>4, SMT
<1> HIDE DEF at
<1>7. ASSUME NEW p
      PROVE  p \in Arrival(r) <=> p \in Arrival(q) /\ p \in Queued(r) \X Queued(r)
  <2>1. ASSUME p \in Arrival(r)
        PROVE  p \in Arrival(q) /\ p \in Queued(r) \X Queued(r)
    <3>1. PICK j, k \in DOMAIN r : j < k /\ p = <<r[j], r[k]>>
      BY <2>1 DEF Arrival
    <3>2. <<q[at(j)], q[at(k)]>> \in Arrival(q)
      BY <1>5, <1>6, <3>1, ArrivalOrders
    <3>3. p \in Arrival(q)
      BY <1>5, <3>1, <3>2
    <3>4. QED
      BY <2>1, <3>3 DEF Arrival
  <2>2. ASSUME p \in Arrival(q), p \in Queued(r) \X Queued(r)
        PROVE  p \in Arrival(r)
    <3>1. PICK j, k \in DOMAIN r : p = <<r[j], r[k]>>
      BY <2>2, SMT DEF Queued
    <3>2. <<q[at(j)], q[at(k)]>> \in Arrival(q)
      BY <1>5, <2>2, <3>1
    <3>3. j < k
      BY <1>5, <1>6, <3>2, ArrivalOrders
    <3>4. QED
      BY <1>2, <1>3, <3>1, <3>3, ArrivalOrders
  <2>3. QED
    BY <2>1, <2>2
<1>8. Arrival(r) = Arrival(q) \intersect (Queued(r) \X Queued(r))
  BY <1>7
<1>9. QED
  BY <1>3, <1>8 DEF r, pending!Among

-----------------------------------------------------------------------------
\* Without savestates no thread has a stop flag or leaves a call half done.
Undisturbed == stopped = {} /\ loading = {} /\ \A t \in Threads : pc[t] # "again"

\* Nothing makes the first stop flag.
LEMMA UndisturbedStep ==
  ASSUME Savestates = FALSE, IndInv, Undisturbed, [Next]_vars
  PROVE  Undisturbed'
<1> USE DEF Undisturbed, Goto, Return, objVars, threadVars
<1>1. Queued(sq) \subseteq Threads /\ pc \in [Threads -> Labels]
  BY SMT DEF IndInv, TypeOK, Queued
<1>2. ASSUME NEW t \in Threads, Step(t)
      PROVE  Undisturbed'
  <2>1. CASE WaitCas(t) \/ PostCas(t) \/ PostInvalid(t) \/ PostLock(t)
    BY <1>1, <2>1 DEF WaitCas, PostCas, PostInvalid, PostLock
  <2>2. CASE WaitLock(t)
    BY <1>1, <2>2 DEF WaitLock, slept
  <2>3. CASE WaitSignal(t) \/ WaitStopped(t) \/ WaitTimeout(t) \/ Recheck(t)
    BY <1>1, <2>3 DEF WaitSignal, WaitEnds, WaitStopped, WaitTimeout, wait_timeout, Recheck
  <2>4. CASE CheckState(t)
    BY <1>1, <2>4 DEF CheckState, cpu_sleep, check_state
  <2>5. CASE PostAgain(t)
    BY <1>1, <2>5 DEF PostAgain
  <2>6. CASE PostWake(t) \/ PostAwakeAll(t)
    BY <1>1, <2>6 DEF PostWake, PostAwakeAll
  <2>7. QED
    BY <1>2, <2>1, <2>2, <2>3, <2>4, <2>5, <2>6 DEF Step
<1>3. ASSUME NEW t \in Threads, Enter(t)
      PROVE  Undisturbed'
  <2>1. ASSUME NEW timed \in BOOLEAN, WaitLoad(t, timed)
        PROVE  Undisturbed'
    BY <1>1, <2>1 DEF WaitLoad
  <2>2. ASSUME NEW count \in Counts, PostLoad(t, count)
        PROVE  Undisturbed'
    BY <1>1, <2>2 DEF PostLoad
  <2>3. CASE TryWait(t) \/ Destroy(t) \/ Create(t)
    BY <2>3 DEF TryWait, Destroy, Create
  <2>4. QED
    BY <1>3, <2>1, <2>2, <2>3 DEF Enter
<1>4. ASSUME NEW t \in Threads, Schedule(t) \/ Stop(t)
      PROVE  Undisturbed'
  BY <1>4 DEF Schedule, schedule_all, Stop, stop
<1>5. CASE Load
  BY <1>5 DEF Load, load
<1>6. CASE UNCHANGED vars
  BY <1>6 DEF vars
<1>7. QED
  BY <1>2, <1>3, <1>4, <1>5, <1>6 DEF Next

\* Without a debt nobody in the queue has a permit.
LEMMA NoDebt ==
  ASSUME NEW q \in Seq(Threads), NoDuplicates(q)
  PROVE  /\ pending!First(Queued(q), Arrival(q), 0) = {}
         /\ pending!Among(Queued(q), Arrival(q)) = Arrival(q)
<1>1. pending!First(Queued(q), Arrival(q), 0) = {}
  BY ArrivalOrders, FirstNone
<1>2. Arrival(q) \subseteq Queued(q) \X Queued(q)
  BY DEF Arrival
<1>3. QED
  BY <1>1, <1>2 DEF pending!Among

\* What the invariant says of the abstract semaphore.
LEMMA AbstractFacts ==
  ASSUME IndInv
  PROVE  /\ sq \in Seq(Threads) /\ NoDuplicates(sq)
         /\ Queued(sq) \subseteq Threads /\ abstractWaiting \subseteq Queued(sq)
         /\ IsFiniteSet(Queued(sq)) /\ Cardinality(Queued(sq)) = Len(sq)
         /\ Ordered(Queued(sq), Arrival(sq))
         /\ mutex = NoThread => abstractWaiting = Queued(sq) /\ abstractOlder = Arrival(sq)
         /\ val >= 0 => abstractWaiting = {}
<1>1. /\ sq \in Seq(Threads) /\ NoDuplicates(sq) /\ val \in Int /\ left \in Nat
      /\ Len(sq) = (IF val < 0 THEN -val ELSE 0) + owed
  BY DEF IndInv, TypeOK, QueueInv, QueueMatchesValue
<1>2. /\ Queued(sq) \subseteq Threads
      /\ IsFiniteSet(Queued(sq)) /\ Cardinality(Queued(sq)) = Len(sq)
      /\ Ordered(Queued(sq), Arrival(sq))
  BY <1>1, ArrivalOrders
<1>3. mutex = NoThread => abstractWaiting = Queued(sq) /\ abstractOlder = Arrival(sq)
  BY <1>1, NoDebt DEF abstractWaiting, abstractOlder, owed
<1>4. ASSUME val >= 0
      PROVE  abstractWaiting = {}
  <2>1. owed \in Nat /\ Len(sq) <= owed
    BY <1>1, <1>4, SMT DEF owed
  <2>2. pending!First(Queued(sq), Arrival(sq), owed) = Queued(sq)
    BY <1>2, <2>1, FirstAll
  <2>3. QED
    BY <2>2 DEF abstractWaiting
<1>5. QED
  BY <1>1, <1>2, <1>3, <1>4 DEF abstractWaiting

\* A thread that is not in the wait loop is no waiter.
LEMMA OutsideNoWaiter ==
  ASSUME IndInv, Undisturbed, NEW t \in Threads, ~InWaitLoop(t)
  PROVE  t \notin Queued(sq) /\ t \notin abstractWaiting
<1>1. t \notin Queued(sq)
  BY DEF IndInv, QueueInv, Undisturbed, InWaitLoop
<1>2. QED
  BY <1>1, AbstractFacts

\* The steps of the abstract semaphore, and the steps it does not see.
AbstractStep == [S!Next]_(S!vars)

\* The waiters of the abstract semaphore depend on the queue and the debt.
LEMMA WaitersKept ==
  ASSUME UNCHANGED <<sq, mutex, left>>
  PROVE  abstractWaiting' = abstractWaiting /\ abstractOlder' = abstractOlder
  BY DEF abstractWaiting, abstractOlder, owed

\* After a step that leaves no debt, all in the queue wait.
LEMMA NoDebtAfter ==
  ASSUME IndInv', mutex' = NoThread
  PROVE  abstractWaiting' = Queued(sq') /\ abstractOlder' = Arrival(sq')
<1>1. sq' \in Seq(Threads) /\ NoDuplicates(sq')
  BY DEF IndInv, TypeOK, QueueInv, NoDuplicates
<1>2. owed' = 0
  BY DEF owed
<1>3. abstractWaiting' = Queued(sq') \ pending!First(Queued(sq'), Arrival(sq'), 0)
  BY <1>2 DEF abstractWaiting
<1>4. abstractWaiting' = Queued(sq')
  BY <1>1, <1>3, NoDebt
<1>5. abstractOlder' = pending!Among(Queued(sq'), Arrival(sq'))
  BY <1>4 DEF abstractOlder
<1>6. QED
  BY <1>1, <1>4, <1>5, NoDebt

\* A step that the abstract semaphore does not see.
LEMMA UnseenStep ==
  ASSUME UNCHANGED <<exists, available, abstractWaiting, abstractOlder>>,
         \A u \in Threads : InWaitLoop(u)' <=> InWaitLoop(u)
  PROVE  AbstractStep
<1>1. abstractGranted' = abstractGranted
  BY DEF abstractGranted
<1>2. QED
  BY <1>1 DEF AbstractStep, S!vars

\* A thread outside the wait loop takes a permit that nobody has.
LEMMA AcquireStep ==
  ASSUME IndInv, Undisturbed, NEW t \in Threads, ~InWaitLoop(t), exists,
         val > 0, val' = val - 1, UNCHANGED <<exists, sq, mutex, left>>,
         \A u \in Threads : InWaitLoop(u)' <=> InWaitLoop(u)
  PROVE  AbstractStep
<1>1. abstractWaiting' = abstractWaiting /\ abstractOlder' = abstractOlder
  BY WaitersKept
<1>2. abstractGranted' = abstractGranted
  BY <1>1 DEF abstractGranted
<1>3. t \notin abstractWaiting \union abstractGranted
  BY OutsideNoWaiter DEF abstractGranted
<1>4. available > 0 /\ available' = available - 1
  BY SMT DEF IndInv, TypeOK, available
<1>5. S!Acquire(t)
  BY <1>1, <1>2, <1>3, <1>4 DEF S!Acquire
<1>6. QED
  BY <1>5 DEF AbstractStep, S!Next

\* A thread that has a permit returns.
LEMMA ReturnStep ==
  ASSUME IndInv, NEW t \in Threads, InWaitLoop(t), t \notin abstractWaiting, Return(t),
         UNCHANGED <<exists, val, sq, mutex, left>>
  PROVE  AbstractStep
<1>1. abstractWaiting' = abstractWaiting /\ abstractOlder' = abstractOlder
  BY WaitersKept
<1>2. \A u \in Threads : InWaitLoop(u)' <=> InWaitLoop(u) /\ u # t
  BY DEF IndInv, TypeOK, Return, Goto, InWaitLoop
<1>3. t \in abstractGranted /\ abstractGranted' = abstractGranted \ {t}
  BY <1>1, <1>2 DEF abstractGranted
<1>4. available' = available
  BY DEF available
<1>5. S!Return(t)
  BY <1>1, <1>3, <1>4 DEF S!Return
<1>6. QED
  BY <1>5 DEF AbstractStep, S!Next

\* wait, up to the mutex
LEMMA WaitCasStep ==
  ASSUME IndInv, Undisturbed, NEW t \in Threads, WaitCas(t)
  PROVE  AbstractStep
<1>1. /\ pc[t] = "wait_cas" /\ pc \in [Threads -> Labels] /\ exists /\ old[t] > 0
      /\ UNCHANGED <<exists, sq, mutex, left>>
  BY DEF WaitCas, IndInv, TypeOK, CasInv, InCallback
<1>2. \A u \in Threads : InWaitLoop(u)' <=> InWaitLoop(u)
  BY <1>1 DEF WaitCas, Return, Goto, InWaitLoop
<1>3. ~InWaitLoop(t)
  BY <1>1 DEF InWaitLoop
<1>4. CASE val = old[t]
  <2>1. val > 0 /\ val' = val - 1
    BY <1>1, <1>4 DEF WaitCas
  <2>2. QED
    BY <1>1, <1>2, <1>3, <2>1, AcquireStep
<1>5. CASE val # old[t]
  <2>1. val' = val
    BY <1>5 DEF WaitCas
  <2>2. UNCHANGED <<available, abstractWaiting, abstractOlder>>
    BY <1>1, <2>1, WaitersKept DEF available
  <2>3. QED
    BY <1>1, <1>2, <2>2, UnseenStep
<1>6. QED
  BY <1>4, <1>5

\* wait takes a permit, or queues behind the others.
LEMMA WaitLockStep ==
  ASSUME IndInv, Undisturbed, NEW t \in Threads, WaitLock(t), IndInv'
  PROVE  AbstractStep
<1>1. /\ pc[t] = "wait_lock" /\ pc \in [Threads -> Labels] /\ exists /\ val \in Int
      /\ mutex = NoThread /\ UNCHANGED <<exists, mutex, left>> /\ val' = val - 1
  BY DEF WaitLock, IndInv, TypeOK, CasInv, InCallback
<1>2. ~InWaitLoop(t)
  BY <1>1 DEF InWaitLoop
<1>3. CASE val > 0
  <2>1. Return(t) /\ sq' = sq
    BY <1>1, <1>3, SMT DEF WaitLock
  <2>2. \A u \in Threads : InWaitLoop(u)' <=> InWaitLoop(u)
    BY <1>1, <2>1 DEF Return, Goto, InWaitLoop
  <2>3. QED
    BY <1>1, <1>2, <1>3, <2>1, <2>2, AcquireStep
<1>4. CASE ~(val > 0)
  <2>1. sq' = emplace(sq, t) /\ Goto(t, "wait")
    BY <1>1, <1>4, SMT DEF WaitLock
  <2>2. t \notin Queued(sq) /\ sq \in Seq(Threads) /\ NoDuplicates(sq)
    BY <1>2, OutsideNoWaiter, AbstractFacts
  <2>3. /\ abstractWaiting = Queued(sq) /\ abstractOlder = Arrival(sq)
        /\ abstractWaiting' = Queued(sq') /\ abstractOlder' = Arrival(sq')
    BY <1>1, AbstractFacts, NoDebtAfter
  <2>4. Queued(sq') = Queued(sq) \union {t}
    BY <2>1, <2>2, EmplaceQueue
  <2>5. Arrival(sq') = Arrival(sq) \union (Queued(sq) \X {t})
    BY <2>1, <2>2, ArrivalEmplace
  <2>6. abstractGranted' = abstractGranted /\ t \notin abstractGranted
    BY <1>1, <1>2, <2>1, <2>3, <2>4 DEF abstractGranted, Goto, InWaitLoop
  <2>7. available = 0 /\ available' = 0
    BY <1>1, <1>4, SMT DEF available
  <2>8. S!Block(t)
    BY <1>1, <2>2, <2>3, <2>4, <2>5, <2>6, <2>7 DEF S!Block
  <2>9. QED
    BY <2>8 DEF AbstractStep, S!Next
<1>5. QED
  BY <1>3, <1>4

\* The wait loop: a thread that was signalled has its permit, and a timeout
\* leaves the queue without one unless a post was faster.
LEMMA WaitLoopStep ==
  ASSUME IndInv, Undisturbed, NEW t \in Threads,
         WaitSignal(t) \/ WaitStopped(t) \/ WaitTimeout(t) \/ CheckState(t)
  PROVE  AbstractStep
<1>1. pc \in [Threads -> Labels] /\ UNCHANGED objVars
  BY DEF IndInv, TypeOK, WaitSignal, WaitStopped, WaitTimeout, CheckState
<1>2. UNCHANGED <<exists, val, sq, mutex, left>>
  BY <1>1 DEF objVars
<1>3. CASE WaitSignal(t)
  <2>1. t \notin Queued(sq) /\ InWaitLoop(t) /\ Return(t)
    BY <1>3 DEF WaitSignal, WaitEnds, IndInv, QueueInv, ThreadInv, Undisturbed, InWaitLoop
  <2>2. t \notin abstractWaiting
    BY <2>1, AbstractFacts
  <2>3. QED
    BY <1>2, <2>1, <2>2, ReturnStep
<1>4. CASE WaitStopped(t)
  BY <1>4 DEF WaitStopped, Undisturbed
<1>5. CASE WaitTimeout(t) \/ CheckState(t)
  <2>1. \A u \in Threads : InWaitLoop(u)' <=> InWaitLoop(u)
    BY <1>1, <1>5 DEF WaitTimeout, CheckState, wait_timeout, cpu_sleep, check_state, Goto,
       InWaitLoop
  <2>2. UNCHANGED <<available, abstractWaiting, abstractOlder>>
    BY <1>2, WaitersKept DEF available
  <2>3. QED
    BY <1>2, <2>1, <2>2, UnseenStep
<1>6. QED
  BY <1>3, <1>4, <1>5

\* A timeout: the thread leaves the queue, or a post was faster.
LEMMA RecheckStep ==
  ASSUME IndInv, Undisturbed, NEW t \in Threads, Recheck(t), IndInv'
  PROVE  AbstractStep
<1>1. /\ pc[t] = "recheck" /\ pc \in [Threads -> Labels] /\ val \in Int
      /\ mutex = NoThread /\ UNCHANGED <<exists, mutex, left>> /\ Return(t)
  BY DEF Recheck, IndInv, TypeOK
<1>2. InWaitLoop(t)
  BY <1>1 DEF InWaitLoop
<1>3. CASE t \notin Queued(sq)
  <2>1. UNCHANGED <<sq, val>>
    BY <1>3 DEF Recheck
  <2>2. t \notin abstractWaiting
    BY <1>3, AbstractFacts
  <2>3. QED
    BY <1>1, <1>2, <2>1, <2>2, ReturnStep
<1>4. CASE t \in Queued(sq)
  <2>1. sq' = unqueue(sq, t) /\ val' = giveBack
    BY <1>4 DEF Recheck
  <2>2. sq \in Seq(Threads) /\ NoDuplicates(sq)
    BY AbstractFacts
  <2> DEFINE i == CHOOSE k \in DOMAIN sq : sq[k] = t
  <2>3. i \in DOMAIN sq /\ sq[i] = t
    BY <1>4 DEF Queued
  <2>4. sq' = Unlink(sq, i)
    BY <2>1 DEF unqueue
  <2> HIDE DEF i
  <2>5. /\ Queued(sq') = Queued(sq) \ {t}
        /\ Arrival(sq') = pending!Among(Queued(sq) \ {t}, Arrival(sq))
    BY <2>2, <2>3, <2>4, ArrivalUnlink
  <2>6. /\ abstractWaiting = Queued(sq) /\ abstractOlder = Arrival(sq)
        /\ abstractWaiting' = Queued(sq') /\ abstractOlder' = Arrival(sq')
    BY <1>1, AbstractFacts, NoDebtAfter
  <2>7. \A u \in Threads : InWaitLoop(u)' <=> InWaitLoop(u) /\ u # t
    BY <1>1, <1>2 DEF Return, Goto, InWaitLoop
  <2>8. abstractGranted' = abstractGranted
    BY <1>4, <2>5, <2>6, <2>7 DEF abstractGranted
  <2>9. available' = available
    <3>1. val < 0
      <4>1. Queued(sq) # {} => Len(sq) # 0
        BY <2>2, SMT DEF Queued
      <4>2. Len(sq) = IF val < 0 THEN -val ELSE 0
        BY <1>1, SMT DEF IndInv, QueueMatchesValue, owed
      <4>3. QED
        BY <1>1, <1>4, <4>1, <4>2
    <3>2. QED
      BY <1>1, <2>1, <3>1, SMT DEF available, giveBack
  <2>10. abstractOlder' = S!Among(abstractWaiting', abstractOlder)
    BY <2>5, <2>6, SameOperators
  <2>11. S!Timeout(t)
    BY <1>1, <1>4, <2>5, <2>6, <2>8, <2>9, <2>10 DEF S!Timeout
  <2>12. QED
    BY <2>11 DEF AbstractStep, S!Next
<1>5. QED
  BY <1>3, <1>4

\* The steps of a call that touch neither val nor the queue.
LEMMA QuietStep ==
  ASSUME IndInv, Undisturbed, NEW t \in Threads,
         \/ \E timed \in BOOLEAN : WaitLoad(t, timed)
         \/ \E count \in Counts : PostLoad(t, count)
         \/ PostInvalid(t) \/ PostAgain(t) \/ Schedule(t) \/ Stop(t)
  PROVE  AbstractStep
<1>1. pc \in [Threads -> Labels]
  BY DEF IndInv, TypeOK
<1>2. CASE (\E timed \in BOOLEAN : WaitLoad(t, timed)) \/ \E count \in Counts : PostLoad(t, count)
  <2>1. UNCHANGED <<exists, val, sq, mutex, left>>
    BY <1>2 DEF WaitLoad, PostLoad, objVars
  <2>2. \A u \in Threads : InWaitLoop(u)' <=> InWaitLoop(u)
    BY <1>1, <1>2 DEF WaitLoad, PostLoad, Enters, Goto, InWaitLoop
  <2>3. UNCHANGED <<available, abstractWaiting, abstractOlder>>
    BY <2>1, WaitersKept DEF available
  <2>4. QED
    BY <2>1, <2>2, <2>3, UnseenStep
<1>3. CASE PostInvalid(t) \/ PostAgain(t) \/ Schedule(t) \/ Stop(t)
  <2>1. UNCHANGED <<exists, val, sq, mutex, left>>
    BY <1>3 DEF PostInvalid, PostAgain, Schedule, Stop, objVars
  <2>2. \A u \in Threads : InWaitLoop(u)' <=> InWaitLoop(u)
    BY <1>1, <1>3 DEF PostInvalid, PostAgain, Schedule, schedule_all, Stop, stop, Return, Goto,
       InWaitLoop
  <2>3. UNCHANGED <<available, abstractWaiting, abstractOlder>>
    BY <2>1, WaitersKept DEF available
  <2>4. QED
    BY <2>1, <2>2, <2>3, UnseenStep
<1>4. QED
  BY <1>2, <1>3

\* trywait
LEMMA TryWaitStep ==
  ASSUME IndInv, Undisturbed, NEW t \in Threads, TryWait(t)
  PROVE  AbstractStep
<1>1. /\ exists /\ val > 0 /\ val' = val - 1 /\ UNCHANGED <<exists, sq, mutex, left>>
      /\ pc' = pc /\ ~InWaitLoop(t)
  BY DEF TryWait, Idle, InWaitLoop
<1>2. \A u \in Threads : InWaitLoop(u)' <=> InWaitLoop(u)
  BY <1>1 DEF InWaitLoop
<1>3. QED
  BY <1>1, <1>2, AcquireStep

\* The cardinality that the abstract semaphore speaks of.
LEMMA SameCardinality ==
  ASSUME NEW X
  PROVE  S!Cardinality(X) = Cardinality(X)
  BY DEF S!Cardinality, Cardinality

\* A count that a post has accepted is one that threads post.
LEMMA PostCount ==
  ASSUME IndInv, NEW t \in Threads, call[t].count > 0
  PROVE  call[t].count \in Counts /\ call[t].count \in Nat
<1>1. call[t] \in Calls
  BY DEF IndInv, TypeOK
<1>2. call[t].count \in Counts \union {0}
  BY <1>1 DEF Calls
<1> DEFINE c == call[t].count
<1>3. c \in Counts \union {0} /\ c > 0
  BY <1>2
<1> HIDE DEF c
<1>4. c # 0
  BY <1>3, SMT
<1>5. c \in Counts /\ c \in Int
  BY <1>3, <1>4, Constants
<1>6. QED
  BY <1>3, <1>5, SMT DEF c

\* A post without the mutex: nobody waits, all permits stay.
LEMMA PostCasStep ==
  ASSUME IndInv, Undisturbed, NEW t \in Threads, PostCas(t)
  PROVE  AbstractStep
<1> DEFINE c == call[t].count
<1>1. /\ pc[t] = "post_cas" /\ pc \in [Threads -> Labels] /\ val \in Int
      /\ old[t] >= 0 /\ c > 0 /\ old[t] + c <= MaxVal
      /\ UNCHANGED <<exists, sq, mutex, left>>
  BY DEF PostCas, IndInv, TypeOK, CasInv
<1>2. \A u \in Threads : InWaitLoop(u)' <=> InWaitLoop(u)
  BY <1>1 DEF PostCas, Return, Goto, InWaitLoop
<1>3. abstractWaiting' = abstractWaiting /\ abstractOlder' = abstractOlder
  BY <1>1, WaitersKept
<1>4. c \in Counts /\ c \in Nat
  BY <1>1, PostCount
<1>5. CASE val = old[t]
  <2>1. val >= 0 /\ val' = val + c /\ val + c <= MaxVal
    BY <1>1, <1>5 DEF PostCas
  <2> HIDE DEF c
  <2>2. abstractWaiting = {} /\ abstractOlder = {}
    BY <2>1, AbstractFacts DEF abstractOlder, pending!Among
  <2>3. S!First(abstractWaiting, abstractOlder, c) = {}
    BY <2>2 DEF S!First
  <2>4. S!Cardinality({}) = 0
    BY SameCardinality, FS_EmptySet
  <2>5. abstractGranted' = abstractGranted
    BY <1>2, <1>3 DEF abstractGranted
  <2>6. available' = available + c - 0 /\ available' <= MaxVal
    BY <1>1, <1>4, <2>1, SMT DEF available
  <2>7. S!Among(abstractWaiting', abstractOlder) = abstractOlder'
    BY <1>3, <2>2 DEF S!Among
  <2>8. S!Post(c)
    BY <1>1, <1>3, <2>2, <2>3, <2>4, <2>5, <2>6, <2>7 DEF S!Post
  <2>9. QED
    BY <1>1, <1>4, <2>8 DEF AbstractStep, S!Next
<1>6. CASE val # old[t]
  <2>1. available' = available
    BY <1>6 DEF PostCas, available
  <2>2. QED
    BY <1>1, <1>2, <1>3, <2>1, UnseenStep
<1>7. QED
  BY <1>5, <1>6

\* A post with the mutex gives its permits to the waiters in one step: those
\* it will wake have theirs when val is updated.
LEMMA PostLockStep ==
  ASSUME IndInv, Undisturbed, NEW t \in Threads, PostLock(t)
  PROVE  AbstractStep
<1> DEFINE c == call[t].count
           k == to_awake(c)
           Q == Queued(sq)
           A == Arrival(sq)
<1>1. /\ pc[t] = "post_lock" /\ pc \in [Threads -> Labels] /\ val \in Int /\ c > 0
      /\ mutex = NoThread /\ left = 0 /\ UNCHANGED <<exists, sq>>
  BY DEF PostLock, IndInv, TypeOK, MutexInv
<1>2. c \in Counts /\ c \in Nat
  BY <1>1, PostCount
<1>3. \A u \in Threads : InWaitLoop(u)' <=> InWaitLoop(u)
  BY <1>1 DEF PostLock, Return, Goto, InWaitLoop
<1>4. CASE ~Fits(c)
  <2>1. UNCHANGED <<val, mutex, left>>
    BY <1>1, <1>4, SMT DEF PostLock
  <2>2. UNCHANGED <<available, abstractWaiting, abstractOlder>>
    BY <1>1, <2>1, WaitersKept DEF available
  <2>3. QED
    BY <1>1, <1>3, <2>2, UnseenStep
<1>5. CASE Fits(c)
  <2>1. val' = val + c /\ left' = k /\ val + c <= MaxVal
    BY <1>1, <1>2, <1>5, Constants, SMT DEF PostLock, Fits
  <2>2. mutex' = IF left' > 0 THEN t ELSE NoThread
    BY <1>1 DEF PostLock
  <2>3. /\ Q \subseteq Threads /\ IsFiniteSet(Q) /\ Ordered(Q, A)
        /\ abstractWaiting = Q /\ abstractOlder = A
        /\ Cardinality(Q) = IF val < 0 THEN -val ELSE 0
    <3>1. Len(sq) = (IF val < 0 THEN -val ELSE 0) + 0
      BY <1>1 DEF IndInv, QueueMatchesValue, owed
    <3>2. QED
      BY <1>1, <3>1, AbstractFacts, SMT
  <2> DEFINE w == Cardinality(Q)
  <2>4. k = (IF w < c THEN w ELSE c) /\ w \in Nat
    BY <1>1, <2>3, SMT DEF to_awake
  <2> HIDE DEF c, k, Q, A, w
  <2>5. k \in Nat /\ k <= w
    BY <1>2, <2>4, SMT
  <2>6. owed' = k
    BY <2>1, <2>2, <2>5, Constants, SMT DEF owed
  <2>7. pending!First(Q, A, k) = pending!First(Q, A, c)
    <3>1. CASE w < c
      <4>1. pending!First(Q, A, k) = Q
        BY <2>3, <2>4, <2>5, <3>1, FirstAll DEF w
      <4>2. pending!First(Q, A, c) = Q
        BY <1>2, <2>3, <2>4, <3>1, FirstAll, SMT DEF w
      <4>3. QED
        BY <4>1, <4>2
    <3>2. CASE ~(w < c)
      BY <2>4, <3>2
    <3>3. QED
      BY <3>1, <3>2
  <2> DEFINE F == S!First(abstractWaiting, abstractOlder, c)
  <2>8. F = pending!First(Q, A, k)
    BY <2>3, <2>7, SameOperators
  <2>9. S!Cardinality(F) = k
    BY <2>3, <2>5, <2>8, FirstSize, SameCardinality DEF w
  <2>10. F \subseteq Q
    BY <2>8 DEF pending!First
  <2> HIDE DEF F
  <2>11. abstractWaiting' = abstractWaiting \ F
    BY <1>1, <2>3, <2>6, <2>8 DEF abstractWaiting, Q, A
  <2>12. abstractOlder' = S!Among(abstractWaiting', abstractOlder)
    <3>1. abstractOlder' = pending!Among(abstractWaiting', A)
      BY <1>1 DEF abstractOlder, A
    <3>2. QED
      BY <2>3, <3>1, SameOperators
  <2>13. abstractGranted' = abstractGranted \union F
    <3>1. \A u \in Q : u \in Threads /\ InWaitLoop(u)
      BY <2>3, OutsideNoWaiter DEF Q
    <3>2. QED
      BY <1>3, <2>3, <2>10, <2>11, <3>1 DEF abstractGranted
  <2>14. available' = available + c - k /\ available' <= MaxVal
    <3>1. available = (IF val > 0 THEN val ELSE 0) /\ available' = IF val + c > 0 THEN val + c ELSE 0
      BY <2>1 DEF available
    <3>2. w = IF val < 0 THEN -val ELSE 0
      BY <2>3 DEF w
    <3>3. MaxVal \in Nat
      BY Constants
    <3>4. QED
      BY <1>1, <1>2, <2>1, <2>4, <3>1, <3>2, <3>3, SMT
  <2>15. S!Post(c)
    BY <1>1, <2>9, <2>11, <2>12, <2>13, <2>14 DEF S!Post, F
  <2>16. c > 0
    BY <1>1 DEF c
  <2>17. QED
    BY <1>2, <2>15, <2>16 DEF AbstractStep, S!Next, c
<1>6. QED
  BY <1>4, <1>5

\* The wake-up loop pays the debt in the order of the protocol: the abstract
\* semaphore does not see it.
LEMMA PostWakeStep ==
  ASSUME IndInv, Undisturbed, NEW t \in Threads, PostWake(t)
  PROVE  AbstractStep
<1> DEFINE i == schedule(sq)
           m == sq[i]
           Q == Queued(sq)
           A == Arrival(sq)
<1>1. /\ mutex = t /\ left \in Nat /\ left > 0 /\ sq' = Unlink(sq, i) /\ left' = left - 1
      /\ UNCHANGED <<exists, val, mutex, pc>>
  BY DEF PostWake, IndInv, TypeOK, MutexInv
<1>2. owed = left /\ owed' = left - 1
  BY <1>1, Constants DEF owed
<1>3. /\ sq \in Seq(Threads) /\ NoDuplicates(sq) /\ Q \subseteq Threads /\ IsFiniteSet(Q)
      /\ Ordered(Q, A)
  BY AbstractFacts
<1>4. Len(sq) > 0
  <2>1. val \in Int /\ Len(sq) = (IF val < 0 THEN -val ELSE 0) + owed
    BY DEF IndInv, TypeOK, QueueMatchesValue
  <2>2. QED
    BY <1>1, <1>2, <2>1, SMT
<1>5. i \in DOMAIN sq
  BY <1>3, <1>4, ScheduleInQueue
<1>6. m \in Q
  BY <1>5 DEF Queued
<1>7. \A u \in Q \ {m} : pending!Before(A, m, u)
  BY <1>3, <1>4, ScheduleFirst
<1>8. Queued(sq') = Q \ {m} /\ Arrival(sq') = pending!Among(Q \ {m}, A)
  BY <1>1, <1>3, <1>5, ArrivalUnlink
<1>9. abstractWaiting = Q \ pending!First(Q, A, left)
  BY <1>2 DEF abstractWaiting
<1> HIDE DEF i, m, Q, A
<1>10. pending!First(Q, A, left) =
         {m} \union pending!First(Q \ {m}, pending!Among(Q \ {m}, A), left - 1)
  BY <1>1, <1>3, <1>6, <1>7, FirstRest, SMT
<1>11. abstractWaiting' = (Q \ {m}) \ pending!First(Q \ {m}, pending!Among(Q \ {m}, A), left - 1)
  BY <1>2, <1>8 DEF abstractWaiting
<1>12. abstractWaiting' = abstractWaiting /\ abstractWaiting \subseteq Q \ {m}
  BY <1>9, <1>10, <1>11
<1>13. abstractOlder' = abstractOlder
  <2>1. abstractOlder' = pending!Among(abstractWaiting, pending!Among(Q \ {m}, A))
    BY <1>8, <1>12 DEF abstractOlder
  <2>2. abstractOlder = pending!Among(abstractWaiting, A)
    BY DEF abstractOlder, A
  <2>3. QED
    BY <1>12, <2>1, <2>2 DEF pending!Among
<1>14. available' = available
  BY <1>1 DEF available
<1>15. \A u \in Threads : InWaitLoop(u)' <=> InWaitLoop(u)
  BY <1>1 DEF InWaitLoop
<1>16. QED
  BY <1>1, <1>12, <1>13, <1>14, <1>15, UnseenStep

\* The end of the wake-up loop: the debt is paid.
LEMMA PostAwakeAllStep ==
  ASSUME IndInv, Undisturbed, NEW t \in Threads, PostAwakeAll(t)
  PROVE  AbstractStep
<1>1. /\ pc[t] = "post_wake" /\ pc \in [Threads -> Labels] /\ left = 0 /\ Return(t)
      /\ mutex' = NoThread /\ UNCHANGED <<exists, val, sq, left>>
  BY DEF PostAwakeAll, IndInv, TypeOK
<1>2. owed = 0 /\ owed' = 0
  BY <1>1 DEF owed
<1>3. abstractWaiting' = abstractWaiting
  BY <1>1, <1>2 DEF abstractWaiting
<1>4. abstractOlder' = abstractOlder
  BY <1>1, <1>3 DEF abstractOlder
<1>5. \A u \in Threads : InWaitLoop(u)' <=> InWaitLoop(u)
  BY <1>1 DEF Return, Goto, InWaitLoop
<1>6. available' = available
  BY <1>1 DEF available
<1>7. QED
  BY <1>1, <1>3, <1>4, <1>5, <1>6, UnseenStep

\* destroy and create
LEMMA ObjectStep ==
  ASSUME IndInv, Undisturbed, NEW t \in Threads, Destroy(t) \/ Create(t)
  PROVE  AbstractStep
<1>1. UNCHANGED <<sq, mutex, left, pc>>
  BY DEF Destroy, Create
<1>2. abstractWaiting' = abstractWaiting /\ abstractOlder' = abstractOlder
  BY <1>1, WaitersKept
<1>3. abstractGranted' = abstractGranted
  BY <1>1, <1>2 DEF abstractGranted, InWaitLoop
<1>4. CASE Destroy(t)
  <2>1. exists /\ exists' = FALSE /\ val >= 0 /\ val' = val
    BY <1>4 DEF Destroy
  <2>2. abstractWaiting = {} /\ available' = available
    BY <2>1, AbstractFacts DEF available
  <2>3. S!Destroy
    BY <1>2, <1>3, <2>1, <2>2 DEF S!Destroy
  <2>4. QED
    BY <2>3 DEF AbstractStep, S!Next
<1>5. CASE Create(t)
  <2>1. ~exists /\ exists' = TRUE /\ val' \in 0 .. MaxVal
    BY <1>5 DEF Create
  <2>2. abstractGranted = {}
    BY <1>5 DEF Create, abstractGranted, InWaitLoop
  <2>3. available' \in 0 .. MaxVal
    BY <2>1, Constants, SMT DEF available
  <2>4. S!Create
    BY <1>2, <1>3, <2>1, <2>2, <2>3 DEF S!Create
  <2>5. QED
    BY <2>4 DEF AbstractStep, S!Next
<1>6. QED
  BY <1>4, <1>5

\* Without savestates there is nothing to load, unless there is no thread.
LEMMA LoadStep ==
  ASSUME IndInv, Undisturbed, Load
  PROVE  AbstractStep
<1>1. Threads = {}
  BY DEF Load, load, Undisturbed
<1>2. /\ exists' = exists /\ val \in Int /\ sq' = <<>>
      /\ val' = IF val < 0 THEN 0 ELSE val
  BY DEF Load, saved, IndInv, TypeOK
<1>3. abstractWaiting = {} /\ abstractWaiting' = {}
  <2>1. Queued(sq') = {}
    BY <1>2, SMT DEF Queued
  <2>2. QED
    BY <1>1, <2>1, AbstractFacts DEF abstractWaiting
<1>4. abstractOlder = {} /\ abstractOlder' = {}
  BY <1>3 DEF abstractOlder, pending!Among
<1>5. available' = available
  BY <1>2, SMT DEF available
<1>6. QED
  BY <1>1, <1>2, <1>3, <1>4, <1>5, UnseenStep

-----------------------------------------------------------------------------
\* The semaphore starts as the abstract one.
LEMMA AbstractInit == Init => S!Init /\ Undisturbed
<1> SUFFICES ASSUME Init PROVE S!Init /\ Undisturbed
  OBVIOUS
<1>1. /\ exists = TRUE /\ val \in 0 .. MaxVal /\ sq = <<>> /\ stopped = {} /\ loading = {}
      /\ \A t \in Threads : pc[t] = "idle"
  BY DEF Init, ThreadsInit
<1>2. Undisturbed
  BY <1>1 DEF Undisturbed
<1>3. abstractWaiting = {}
  BY <1>1, SMT DEF abstractWaiting, Queued
<1>4. abstractOlder = {}
  BY <1>3 DEF abstractOlder, pending!Among
<1>5. abstractGranted = {}
  BY <1>1 DEF abstractGranted, InWaitLoop
<1>6. available \in 0 .. MaxVal
  BY <1>1, Constants, SMT DEF available
<1>7. QED
  BY <1>1, <1>2, <1>3, <1>4, <1>5, <1>6 DEF S!Init

\* Every step is a step of the abstract semaphore, or none.
LEMMA AbstractNext ==
  ASSUME IndInv, IndInv', Undisturbed, [Next]_vars
  PROVE  AbstractStep
<1>1. ASSUME NEW t \in Threads, Step(t)
      PROVE  AbstractStep
  BY <1>1, WaitCasStep, WaitLockStep, WaitLoopStep, RecheckStep, PostCasStep, QuietStep,
     PostLockStep, PostWakeStep, PostAwakeAllStep DEF Step
<1>2. ASSUME NEW t \in Threads, Enter(t)
      PROVE  AbstractStep
  BY <1>2, QuietStep, TryWaitStep, ObjectStep DEF Enter
<1>3. ASSUME NEW t \in Threads, Schedule(t) \/ Stop(t)
      PROVE  AbstractStep
  BY <1>3, QuietStep
<1>4. CASE UNCHANGED vars
  <2>1. UNCHANGED <<exists, val, sq, mutex, left, pc>>
    BY <1>4 DEF vars, objVars
  <2>2. UNCHANGED <<available, abstractWaiting, abstractOlder>>
    BY <2>1, WaitersKept DEF available
  <2>3. \A u \in Threads : InWaitLoop(u)' <=> InWaitLoop(u)
    BY <2>1 DEF InWaitLoop
  <2>4. QED
    BY <2>1, <2>2, <2>3, UnseenStep
<1>5. QED
  BY <1>1, <1>2, <1>3, <1>4, LoadStep DEF Next

\* The system calls of the semaphore implement the abstract semaphore, as
\* long as no savestate is made: a post hands its permits to the waiters that
\* the protocol prefers in one step, although the code updates val first and
\* finds the waiters one by one, while waits and posts that take no mutex run
\* in between; a timeout that races a post loses neither the permit nor the
\* place of another waiter.
THEOREM Refinement ==
  ASSUME Savestates = FALSE
  PROVE  Spec => ImplementsSemaphore
<1>1. Init => IndInv /\ S!Init /\ Undisturbed
  BY InitInv, AbstractInit
<1>2. IndInv /\ Undisturbed /\ [Next]_vars => IndInv' /\ Undisturbed' /\ [S!Next]_(S!vars)
  BY NextInv, UndisturbedStep, AbstractNext DEF AbstractStep
<1>3. QED
  BY <1>1, <1>2, PTL DEF Spec, ImplementsSemaphore, S!Spec

=============================================================================
