--------------------------- MODULE Lv2CondProofs ----------------------------
(***************************************************************************)
(* The invariants of the LV2 mutex and its condition variable, for any     *)
(* number of threads, any priorities and any limit of the recursion count. *)
(*                                                                         *)
(* ThreadInv says of each thread where it may be in its system call, in    *)
(* the queues and in the scheduler, whatever savestates do.  PlainInv says *)
(* what a thread may believe of the mutex when there are none: with a      *)
(* savestate a thread whose timeout was running may return without having  *)
(* been handed the mutex.                                                  *)
(***************************************************************************)
EXTENDS Lv2Cond, Lv2ObjProofs

\* The backend of every leaf that does not name another one.
USE ZenonT(30)

Calls == [name : {"none", "lock", "unlock"} \union CondCalls, timed : BOOLEAN]

\* The types, without the limit of what a thread was told.
Types ==
  /\ ThreadsTypeOK
  /\ exists \in BOOLEAN /\ condExists \in BOOLEAN
  /\ owner \in Threads \union {NoThread}
  /\ lock_count \in 0 .. MaxCount
  /\ sq \in Seq(Threads) /\ csq \in Seq(Threads)
  /\ pc \in [Threads -> Labels]
  /\ call \in [Threads -> Calls]
  /\ cancelSleep \in SUBSET Threads
  /\ held \in [Threads -> Nat]
  /\ count \in [Threads -> 0 .. MaxCount]
  /\ sstate \in [Threads -> {"none", "cond", "mutex"}]

Waits(t) == t \in Queued(sq) \/ t \in Queued(csq)

\* The queues and the owner; what is in use exists.
QueueInv ==
  /\ OneQueue
  /\ WaitersHaveOwner
  /\ ~Waits(owner)
  /\ owner # NoThread \/ condExists => exists
  /\ csq # <<>> => condExists

\* A thread that left its system call for a savestate, or has yet to leave.
Leaving(t) == t \in stopped /\ pc[t] \in {"idle", "again"}

\* A load waits until the thread sleeps again in the queue it was in.
LoadInv(t) ==
  /\ t \in loading =>
       /\ \/ call[t].name = "lock" /\ pc[t] \in {"again", "lock_own", "lock_sleep"}
          \/ call[t].name = "cond_wait" /\ pc[t] = "again"
       /\ owner # t
       /\ call[t].name = "lock" \/ sstate[t] = "mutex" => owner # NoThread
       /\ call[t].name = "cond_wait" /\ sstate[t] # "mutex" => condExists
  /\ loading # {} =>
       /\ t \notin stopped /\ t \notin signal /\ t \notin cancelSleep
       /\ pc[t] \in {"lock_own", "lock_sleep"} => t \in loading
       /\ pc[t] \notin {"recheck", "unlock_reown"}
       /\ InWaitLoop(t) => run[t] # "running"

\* Where a thread may be.
ThreadInv(t) ==
  /\ InCallback(t) => exists
  /\ pc[t] = "lock_own" => owner # t
  /\ pc[t] = "unlock_reown" => owner = t
  /\ Waits(t) => InWaitLoop(t) \/ pc[t] = "lock_sleep" \/ Leaving(t)
  /\ t \in Queued(csq) => pc[t] # "lock_sleep" /\ (InWaitLoop(t) => call[t].name = "cond_wait")
  /\ run[t] # "running" \/ t \in signal => InWaitLoop(t) \/ Leaving(t)
  /\ t \in signal \/ pc[t] = "recheck" => run[t] = "running"
  /\ pc[t] = "recheck" => t \notin signal
  /\ t \notin stopped /\ Waits(t) /\ pc[t] = "wait" => run[t] = "asleep"
  /\ t \in cancelSleep => pc[t] = "lock_sleep" /\ ~Waits(t)
  /\ pc[t] = "again" /\ run[t] = "asleep" =>
       \/ call[t].name = "lock" /\ t \in Queued(sq)
       \/ call[t].name = "cond_wait" /\ sstate[t] = "mutex" /\ t \in Queued(sq)
       \/ call[t].name = "cond_wait" /\ sstate[t] # "mutex" /\ t \in Queued(csq)
  /\ LoadInv(t)

\* The thread was handed the mutex while it waited and does not know yet.
Given(t) == Granted(t) \/ CondGranted(t)

\* What a thread may believe of the mutex, without savestates.
PlainInv(t) ==
  /\ t \notin stopped /\ t \notin loading /\ pc[t] # "again"
  /\ pc[t] = "idle" => call[t].name = "none"
  /\ pc[t] \in {"lock_own", "lock_sleep"} => call[t].name = "lock"
  /\ pc[t] = "unlock_reown" => call[t].name = "unlock" /\ lock_count = 0
  /\ InWaitLoop(t) => call[t].name \in {"lock", "cond_wait"}
  /\ call[t].name = "lock" => held[t] = 0
  /\ CondWaiting(t) => count[t] + 1 = held[t]
  /\ owner = t <=> (held[t] > 0 /\ call[t].name # "cond_wait") \/ Given(t)
  /\ owner = t => lock_count + 1 = IF Given(t) THEN 1 ELSE held[t]
  /\ Given(t) /\ pc[t] = "wait" => run[t] # "asleep"
  /\ Given(t) /\ pc[t] = "lock_sleep" => t \in cancelSleep

ThreadsInv == \A t \in Threads : ThreadInv(t) /\ (Savestates = FALSE => PlainInv(t))

FreeInv == Savestates = FALSE /\ owner = NoThread => lock_count = 0

IndInv == Types /\ QueueInv /\ FreeInv /\ ThreadsInv

-----------------------------------------------------------------------------

\* The constants are what the assumptions say.
LEMMA Constants == /\ NoThread \notin Threads /\ MaxCount \in Nat
                   /\ Recursive \in BOOLEAN /\ Savestates \in BOOLEAN
  BY Lv2Assumption, MutexAssumption DEF Lv2Assumption, MutexAssumption

\* The calls that the model makes.
LEMMA CallValues ==
  ASSUME NEW name \in {"none", "lock", "unlock"} \union CondCalls, NEW timed \in BOOLEAN
  PROVE  /\ Call(name, timed) \in Calls
         /\ Call(name, timed).name = name /\ Call(name, timed).timed = timed
  BY DEF Call, Calls

\* A thread outside of a call.
LEMMA NoCallValue == NoCall \in Calls /\ NoCall.name = "none"
<1>1. "none" \in {"none", "lock", "unlock"} \union CondCalls /\ FALSE \in BOOLEAN
  OBVIOUS
<1>2. QED
  BY <1>1, CallValues DEF NoCall

\* One thread goes on in its system call; the others are not concerned.
Told(t) ==
  /\ pc' \in [Threads -> Labels]
  /\ call' \in [Threads -> Calls]
  /\ held' \in [Threads -> Nat]
  /\ \A u \in Threads \ {t} : pc'[u] = pc[u] /\ call'[u] = call[u] /\ held'[u] = held[u]

\* The thread returns and was told how often it holds the mutex.
LEMMA ReturnStep ==
  ASSUME Types, NEW t \in Threads, NEW n \in Nat, Return(t, n)
  PROVE  Told(t) /\ pc'[t] = "idle" /\ call'[t].name = "none" /\ held'[t] = n
<1>1. pc' \in [Threads -> Labels] /\ pc'[t] = "idle" /\ \A u \in Threads \ {t} : pc'[u] = pc[u]
  BY DEF Types, Return, Goto, Labels, WaitLabels
<1>2. /\ call' \in [Threads -> Calls] /\ call'[t] = NoCall
      /\ \A u \in Threads \ {t} : call'[u] = call[u]
  BY NoCallValue DEF Types, Return
<1>3. /\ held' \in [Threads -> Nat] /\ held'[t] = n
      /\ \A u \in Threads \ {t} : held'[u] = held[u]
  BY DEF Types, Return
<1>4. QED
  BY <1>1, <1>2, <1>3, NoCallValue DEF Told

\* The thread goes on in the same call.
LEMMA ContinueStep ==
  ASSUME Types, NEW t \in Threads, NEW l \in Labels, Continue(t, l)
  PROVE  Told(t) /\ pc'[t] = l /\ call'[t] = call[t] /\ held'[t] = held[t]
  BY DEF Types, Continue, Goto, Told

\* The thread begins a call, or begins it again.
LEMMA BeginStep ==
  ASSUME Types, NEW t \in Threads, NEW c \in Calls, NEW l \in Labels, Begin(t, c, l)
  PROVE  Told(t) /\ pc'[t] = l /\ call'[t] = c /\ held'[t] = held[t]
  BY DEF Types, Begin, Goto, Told

\* The thread leaves its call for a savestate.
LEMMA AgainStep ==
  ASSUME Types, NEW t \in Threads, NEW c \in Calls, CondAgain(t, c)
  PROVE  /\ Told(t) /\ pc'[t] = "again" /\ call'[t] = c /\ held'[t] = held[t]
         /\ stopped' = stopped \union {t}
<1>1. Begin(t, c, "again") /\ "again" \in Labels
  BY DEF CondAgain, Begin, Labels, WaitLabels
<1>2. QED
  BY <1>1, BeginStep DEF CondAgain

\* Nobody goes on.
LEMMA StayStep ==
  ASSUME Types, NEW t \in Threads, UNCHANGED <<pc, call, held>>
  PROVE  Told(t)
  BY DEF Types, Told

-----------------------------------------------------------------------------
(***************************************************************************)
(* What a step may do to a thread that does not take it: nothing, move it  *)
(* from the queue of the condition variable to that of the mutex, or hand  *)
(* it the mutex.                                                           *)
(***************************************************************************)
Frame(u) ==
  /\ pc'[u] = pc[u] /\ call'[u] = call[u] /\ held'[u] = held[u]
  /\ count'[u] = count[u] /\ sstate'[u] = sstate[u]
  /\ u \in signal' <=> u \in signal
  /\ u \in stopped' <=> u \in stopped
  /\ u \in loading' <=> u \in loading
  /\ InCallback(u) /\ exists => exists'

Same(u) ==
  /\ Frame(u)
  /\ run'[u] = run[u]
  /\ u \in cancelSleep' <=> u \in cancelSleep
  /\ u \in Queued(sq') <=> u \in Queued(sq)
  /\ u \in Queued(csq') <=> u \in Queued(csq)
  /\ owner' = u <=> owner = u
  /\ owner = u => lock_count' = lock_count

Moved(u) ==
  /\ Frame(u)
  /\ run'[u] = run[u]
  /\ u \in cancelSleep' <=> u \in cancelSleep
  /\ u \in Queued(csq) /\ u \notin Queued(csq') /\ u \in Queued(sq')
  /\ pc[u] # "again"
  /\ owner # u /\ owner' # u

Handed(u) ==
  /\ Frame(u)
  /\ run'[u] = IF run[u] = "asleep" THEN "ready" ELSE run[u]
  /\ u \in cancelSleep' <=> u \in cancelSleep \/ pc[u] = "lock_sleep"
  /\ Waits(u) /\ u \notin Queued(sq') /\ u \notin Queued(csq')
  /\ pc[u] # "again"
  /\ owner # u /\ owner' = u
  /\ Savestates = FALSE => lock_count' = 0

\* Until a load is over, nothing else happens.
Quiet ==
  loading' # {} => loading' \subseteq loading /\ owner' = owner /\ condExists' = condExists

\* A thread to which nothing happens is where it may be.
LEMMA SameThread ==
  ASSUME NEW u \in Threads, ThreadInv(u), Savestates = FALSE => PlainInv(u), Quiet, Same(u)
  PROVE  ThreadInv(u)' /\ (Savestates = FALSE => PlainInv(u)')
<1>1. LoadInv(u)'
  BY DEF Same, Frame, Quiet, ThreadInv, LoadInv, InWaitLoop
<1>2. ThreadInv(u)'
  BY <1>1 DEF Same, Frame, ThreadInv, InWaitLoop, InCallback, Waits, Leaving
<1>3. PlainInv(u) => PlainInv(u)'
  BY DEF Same, Frame, ThreadInv, PlainInv, InWaitLoop, Waits, Given, Granted, CondGranted, CondWaiting
<1>4. QED
  BY <1>2, <1>3

\* So is one that goes from one queue to the other.
LEMMA MovedThread ==
  ASSUME NEW u \in Threads, ThreadInv(u), Savestates = FALSE => PlainInv(u), Quiet, Moved(u)
  PROVE  ThreadInv(u)' /\ (Savestates = FALSE => PlainInv(u)')
<1>1. LoadInv(u)'
  BY DEF Moved, Frame, Quiet, ThreadInv, LoadInv, InWaitLoop
<1>2. ThreadInv(u)'
  BY <1>1 DEF Moved, Frame, ThreadInv, InWaitLoop, InCallback, Waits, Leaving
<1>3. PlainInv(u) => PlainInv(u)'
  BY DEF Moved, Frame, ThreadInv, Leaving, PlainInv, InWaitLoop, Waits, Given, Granted,
         CondGranted, CondWaiting
<1>4. QED
  BY <1>2, <1>3

\* So is one that is handed the mutex.
LEMMA HandedThread ==
  ASSUME NEW u \in Threads, ThreadInv(u), Savestates = FALSE => PlainInv(u), Quiet, Handed(u)
  PROVE  ThreadInv(u)' /\ (Savestates = FALSE => PlainInv(u)')
<1>1. LoadInv(u)'
  BY DEF Handed, Quiet, LoadInv
<1>2. ThreadInv(u)'
  BY <1>1 DEF Handed, Frame, ThreadInv, InWaitLoop, InCallback, Waits, Leaving
<1>3. ASSUME Savestates = FALSE PROVE PlainInv(u)'
  <2>1. InWaitLoop(u) \/ pc[u] = "lock_sleep"
    BY <1>3 DEF Handed, ThreadInv, PlainInv, Leaving
  <2>2. Given(u)'
    BY <1>3, <2>1 DEF Handed, Frame, PlainInv, Given, Granted, CondGranted, CondWaiting, InWaitLoop
  <2>3. lock_count' + 1 = 1
    BY <1>3, SMT DEF Handed
  <2>4. QED
    BY <1>3, <2>1, <2>2, <2>3 DEF Handed, Frame, PlainInv, CondWaiting, InWaitLoop, Waits
<1>4. QED
  BY <1>2, <1>3

\* A step: the queues and the thread that takes it are looked at, the others
\* follow.
LEMMA StepInv ==
  ASSUME IndInv, NEW t \in Threads, Types', QueueInv', FreeInv', Quiet,
         \A u \in Threads \ {t} : Same(u) \/ Moved(u) \/ Handed(u),
         ThreadInv(t)', Savestates = FALSE => PlainInv(t)'
  PROVE  IndInv'
<1>1. ASSUME NEW u \in Threads PROVE ThreadInv(u)' /\ (Savestates = FALSE => PlainInv(u)')
  <2>1. ThreadInv(u) /\ (Savestates = FALSE => PlainInv(u))
    BY DEF IndInv, ThreadsInv
  <2>2. CASE u = t
    BY <2>2
  <2>3. CASE u # t
    BY <2>1, <2>3, SameThread, MovedThread, HandedThread
  <2>4. QED
    BY <2>2, <2>3
<1>2. ThreadsInv'
  BY <1>1 DEF ThreadsInv
<1>3. QED
  BY <1>2 DEF IndInv

\* A step that does nothing to any thread.
LEMMA AllSame ==
  ASSUME IndInv, NEW t \in Threads, Types', QueueInv', FreeInv', Quiet,
         \A u \in Threads : Same(u)
  PROVE  IndInv'
<1>1. ThreadInv(t) /\ (Savestates = FALSE => PlainInv(t))
  BY DEF IndInv, ThreadsInv
<1>2. ThreadInv(t)' /\ (Savestates = FALSE => PlainInv(t)')
  BY <1>1, SameThread
<1>3. QED
  BY <1>2, StepInv

\* A step that leaves the queues and the owner alone.
Local(t) ==
  /\ Told(t)
  /\ run' \in [Threads -> RunStates] /\ count' \in [Threads -> 0 .. MaxCount]
  /\ sstate' \in [Threads -> {"none", "cond", "mutex"}]
  /\ signal' \subseteq Threads /\ stopped' \subseteq Threads /\ cancelSleep' \subseteq Threads
  /\ loading' \subseteq loading
  /\ lock_count' \in 0 .. MaxCount
  /\ owner # t => lock_count' = lock_count
  /\ \A u \in Threads \ {t} :
       /\ run'[u] = run[u] /\ count'[u] = count[u] /\ sstate'[u] = sstate[u]
       /\ u \in signal' <=> u \in signal
       /\ u \in stopped' <=> u \in stopped
       /\ u \in loading' <=> u \in loading
       /\ u \in cancelSleep' <=> u \in cancelSleep
  /\ UNCHANGED <<exists, condExists, owner, sq, csq>>

\* For a step that concerns one thread it is enough to look at that thread.
LEMMA LocalInv ==
  ASSUME IndInv, NEW t \in Threads, Local(t), ThreadInv(t)', Savestates = FALSE => PlainInv(t)'
  PROVE  IndInv'
<1>1. Types'
  BY DEF IndInv, Types, ThreadsTypeOK, Local, Told
<1>2. QueueInv'
  BY DEF IndInv, QueueInv, Local, OneQueue, WaitersHaveOwner, Waits
<1>3. FreeInv'
  BY Constants DEF IndInv, FreeInv, Local
<1>4. Quiet
  BY DEF Quiet, Local
<1>5. \A u \in Threads \ {t} : Same(u)
  BY DEF Same, Frame, Local, Told
<1>6. QED
  BY <1>1, <1>2, <1>3, <1>4, <1>5, StepInv

\* What is known of the thread that takes a step.
Known(t) ==
  /\ Types /\ QueueInv /\ FreeInv /\ ThreadInv(t) /\ (Savestates = FALSE => PlainInv(t))
  /\ run \in [Threads -> RunStates]
  /\ signal \subseteq Threads /\ stopped \subseteq Threads /\ loading \subseteq Threads
  /\ cancelSleep \subseteq Threads
  /\ MaxCount \in Nat /\ lock_count \in 0 .. MaxCount
  /\ held \in [Threads -> Nat] /\ held[t] \in Nat
  /\ count \in [Threads -> 0 .. MaxCount] /\ count[t] \in 0 .. MaxCount
  /\ sstate \in [Threads -> {"none", "cond", "mutex"}]

\* The invariant says this of every thread.
LEMMA Own ==
  ASSUME IndInv, NEW t \in Threads
  PROVE  Known(t)
  BY Constants DEF Known, IndInv, ThreadsInv, Types, ThreadsTypeOK

\* A thread that does not wait yet.
LEMMA EmplaceHere ==
  ASSUME IndInv, NEW t \in Threads, ~Waits(t)
  PROVE  /\ emplace(sq, t) \in Seq(Threads) /\ NoDuplicates(emplace(sq, t))
         /\ Queued(emplace(sq, t)) = Queued(sq) \union {t}
         /\ emplace(csq, t) \in Seq(Threads) /\ NoDuplicates(emplace(csq, t))
         /\ Queued(emplace(csq, t)) = Queued(csq) \union {t}
<1>1. sq \in Seq(Threads) /\ csq \in Seq(Threads) /\ NoDuplicates(sq) /\ NoDuplicates(csq)
  BY DEF IndInv, Types, QueueInv, OneQueue
<1>2. t \notin Queued(sq) /\ t \notin Queued(csq)
  BY DEF Waits
<1>3. QED
  BY <1>1, <1>2, EmplaceQueue

\* A thread that may enter a system call.
LEMMA EnterFacts ==
  ASSUME IndInv, NEW t \in Threads, pc[t] \in {"idle", "again"}, t \notin stopped
  PROVE  /\ ~Waits(t) /\ t \notin signal /\ run[t] = "running" /\ t \notin cancelSleep
         /\ t \in loading => pc[t] = "again"
         /\ Savestates = FALSE => pc[t] = "idle" /\ call[t].name = "none" /\ t \notin loading
<1>1. ThreadInv(t) /\ (Savestates = FALSE => PlainInv(t))
  BY Own DEF Known
<1>2. QED
  BY <1>1 DEF ThreadInv, LoadInv, PlainInv, Leaving, InWaitLoop

\* A thread takes the mutex or gives it up, and nobody waits.
OwnerStep(t) ==
  /\ Told(t)
  /\ owner \in {t, NoThread} /\ owner' \in {t, NoThread}
  /\ exists /\ loading = {} /\ ~Waits(t)
  /\ sq # <<>> => owner' # NoThread
  /\ Savestates = FALSE /\ owner' = NoThread => lock_count = 0
  /\ UNCHANGED <<exists, condExists, lock_count, sq, csq, run, signal, stopped, loading,
                 cancelSleep, count, sstate>>

\* The same for a step that gives the mutex to its thread or takes it.
LEMMA OwnerInv ==
  ASSUME IndInv, NEW t \in Threads, OwnerStep(t), ThreadInv(t)', Savestates = FALSE => PlainInv(t)'
  PROVE  IndInv'
<1>1. Types'
  BY DEF IndInv, Types, ThreadsTypeOK, OwnerStep, Told
<1>2. QueueInv'
  <2>1. NoThread \notin Queued(sq) /\ NoThread \notin Queued(csq)
    BY Constants, SMT DEF IndInv, Types, Queued
  <2>2. QED
    BY <2>1 DEF IndInv, QueueInv, OwnerStep, OneQueue, WaitersHaveOwner, Waits
<1>3. FreeInv'
  BY DEF FreeInv, OwnerStep
<1>4. Quiet
  BY DEF Quiet, OwnerStep
<1>5. \A u \in Threads \ {t} : Same(u)
  BY Constants DEF Same, Frame, OwnerStep, Told
<1>6. QED
  BY <1>1, <1>2, <1>3, <1>4, <1>5, StepInv

-----------------------------------------------------------------------------
(***************************************************************************)
(* The wait loop.                                                          *)
(***************************************************************************)
LEMMA LockSleepInv ==
  ASSUME IndInv, NEW t \in Threads, LockSleep(t), UNCHANGED condOnly
  PROVE  IndInv'
<1>0. Known(t)
  BY Own
<1>1. /\ pc[t] = "lock_sleep" /\ run' = sleep(t) /\ loading' = loading \ {t}
      /\ cancelSleep' = cancelSleep \ {t}
      /\ UNCHANGED <<exists, owner, lock_count, sq, signal, stopped, condExists, csq, count, sstate>>
  BY DEF LockSleep, slept, condOnly
<1>2. PICK l \in {"resched", "wait"} : /\ Continue(t, l)
                                       /\ l = IF t \in cancelSleep THEN "resched" ELSE "wait"
  BY DEF LockSleep
<1>3. Told(t) /\ pc'[t] = l /\ call'[t] = call[t] /\ held'[t] = held[t]
  BY <1>2, <1>0, ContinueStep DEF Known, Labels, WaitLabels
<1>4. /\ run' \in [Threads -> RunStates] /\ run'[t] = "asleep"
      /\ \A u \in Threads \ {t} : run'[u] = run[u]
  BY <1>1, <1>0 DEF Known, sleep, RunStates, ThreadInv, Leaving, InWaitLoop
<1>5. Local(t)
  BY <1>1, <1>3, <1>4, <1>0 DEF Known, Local
<1>6. ThreadInv(t)'
  <2>1. LoadInv(t)'
    BY <1>1, <1>2, <1>3, <1>4, <1>0 DEF Known, ThreadInv, LoadInv, InWaitLoop
  <2>2. QED
    BY <2>1, <1>1, <1>2, <1>3, <1>4, <1>0 DEF Known, ThreadInv, InWaitLoop, InCallback, Waits, Leaving
<1>7. PlainInv(t) => PlainInv(t)'
  BY <1>1, <1>2, <1>3, <1>4, <1>0
     DEF Known, PlainInv, ThreadInv, InWaitLoop, Waits, Given, Granted, CondGranted, CondWaiting
<1>8. QED
  BY <1>5, <1>6, <1>7, <1>0, LocalInv DEF Known

\* The wait loop sees cpu_flag::signal.
LEMMA SignalInv ==
  ASSUME IndInv, NEW t \in Threads,
         (WaitSignal(t) /\ UNCHANGED condOnly) \/ CondWaitSignal(t)
  PROVE  IndInv'
<1>0. Known(t)
  BY Own
<1>1. /\ pc[t] = "wait" /\ t \in signal /\ signal' = signal \ {t}
      /\ UNCHANGED <<run, stopped, loading, exists, owner, sq, cancelSleep, condExists, csq, sstate>>
  BY DEF WaitSignal, CondWaitSignal, WaitEnds, condOnly
<1>2. /\ Told(t) /\ pc'[t] = "idle" /\ call'[t].name = "none"
      /\ lock_count' \in 0 .. MaxCount /\ (owner # t => lock_count' = lock_count)
      /\ count' \in [Threads -> 0 .. MaxCount] /\ \A u \in Threads \ {t} : count'[u] = count[u]
      /\ \/ call[t].name = "lock" /\ held'[t] = 1 /\ lock_count' = lock_count
         \/ /\ call[t].name = "cond_wait" /\ held'[t] = held[t]
            /\ lock_count' = count[t] /\ owner = t
  <2>1. CASE WaitSignal(t) /\ UNCHANGED condOnly
    <3>1. Return(t, 1) /\ 1 \in Nat /\ call[t].name = "lock" /\ UNCHANGED <<lock_count, count>>
      BY <2>1 DEF WaitSignal, condOnly
    <3>2. QED
      BY <3>1, <1>0, ReturnStep DEF Known
  <2>2. CASE CondWaitSignal(t)
    <3>1. /\ Return(t, held[t]) /\ call[t].name = "cond_wait" /\ lock_count' = count[t]
          /\ owner = t /\ count' = [count EXCEPT ![t] = 0]
      BY <2>2 DEF CondWaitSignal, EndCondWait, Restored
    <3>2. Told(t) /\ pc'[t] = "idle" /\ call'[t].name = "none" /\ held'[t] = held[t]
      BY <3>1, <1>0, ReturnStep DEF Known
    <3>3. /\ count[t] \in 0 .. MaxCount /\ count' \in [Threads -> 0 .. MaxCount]
          /\ \A u \in Threads \ {t} : count'[u] = count[u]
      BY <3>1, <1>0, SMT DEF Known
    <3>4. QED
      BY <3>1, <3>2, <3>3, <1>0 DEF Known
  <2>3. QED
    BY <2>1, <2>2
<1>3. Local(t)
  BY <1>1, <1>2, <1>0 DEF Known, Local
<1>4. ThreadInv(t)'
  <2>1. LoadInv(t)'
    BY <1>1, <1>2, <1>0 DEF Known, ThreadInv, LoadInv, InWaitLoop
  <2>2. QED
    BY <2>1, <1>1, <1>2, <1>0 DEF Known, ThreadInv, InWaitLoop, InCallback, Waits, Leaving
<1>5. PlainInv(t) => PlainInv(t)'
  <2> SUFFICES ASSUME PlainInv(t) PROVE PlainInv(t)'
    OBVIOUS
  <2>1. ~Waits(t)
    BY <1>1, <1>0 DEF Known, PlainInv, ThreadInv
  <2>2. Given(t)
    BY <2>1, <1>1 DEF PlainInv, Waits, Given, Granted, CondGranted, CondWaiting, InWaitLoop
  <2>3. owner = t /\ lock_count = 0
    BY <2>2, <1>0, SMT DEF Known, PlainInv
  <2>4. call[t].name = "cond_wait" => count[t] + 1 = held[t] /\ count[t] \in Nat
    BY <1>1, <1>0, SMT DEF Known, PlainInv, CondWaiting, InWaitLoop
  <2>5. held'[t] > 0 /\ lock_count' + 1 = held'[t]
    BY <2>3, <2>4, <1>2, SMT
  <2>6. ~Given(t)' /\ ~InWaitLoop(t)'
    BY <1>2 DEF Given, Granted, CondGranted, CondWaiting, InWaitLoop
  <2>7. QED
    BY <2>1, <2>3, <2>5, <2>6, <1>1, <1>2 DEF PlainInv, Waits, CondWaiting
<1>6. QED
  BY <1>3, <1>4, <1>5, <1>0, LocalInv DEF Known

\* A stop flag in the wait loop; with one there are savestates.
LEMMA StoppedInv ==
  ASSUME IndInv, NEW t \in Threads,
         (WaitStopped(t) /\ UNCHANGED condOnly) \/ CondWaitStopped(t)
  PROVE  IndInv'
<1>0. Known(t)
  BY Own
<1>1. /\ pc[t] = "wait" /\ t \in stopped
      /\ UNCHANGED <<run, signal, stopped, loading, exists, owner, sq, cancelSleep, condExists, csq>>
  BY DEF WaitStopped, CondWaitStopped, threadVars, condOnly
<1>2. /\ Told(t) /\ pc'[t] \in {"idle", "again"}
      /\ lock_count' \in 0 .. MaxCount /\ (owner # t => lock_count' = lock_count)
      /\ count' \in [Threads -> 0 .. MaxCount] /\ \A u \in Threads \ {t} : count'[u] = count[u]
      /\ sstate' \in [Threads -> {"none", "cond", "mutex"}]
      /\ \A u \in Threads \ {t} : sstate'[u] = sstate[u]
      /\ pc'[t] = "again" =>
           /\ call'[t] = call[t]
           /\ \/ call[t].name = "lock" /\ t \in Queued(sq)
              \/ call[t].name = "cond_wait" /\ sstate'[t] = "mutex" /\ t \in Queued(sq)
              \/ call[t].name = "cond_wait" /\ sstate'[t] # "mutex" /\ t \in Queued(csq)
  <2>0. "again" \in Labels
    BY DEF Labels, WaitLabels
  <2>1. CASE WaitStopped(t) /\ UNCHANGED condOnly
    <3>1. call[t].name = "lock" /\ UNCHANGED <<lock_count, count, sstate>>
      BY <2>1 DEF WaitStopped, condOnly
    <3>2. CASE t \in Queued(sq)
      <4>1. Continue(t, "again")
        BY <2>1, <3>2 DEF WaitStopped
      <4>2. QED
        BY <4>1, <3>1, <3>2, <2>0, <1>0, ContinueStep DEF Known
    <3>3. CASE t \notin Queued(sq)
      <4>1. Return(t, 1) /\ 1 \in Nat
        BY <2>1, <3>3 DEF WaitStopped
      <4>2. QED
        BY <4>1, <3>1, <1>0, ReturnStep DEF Known
    <3>4. QED
      BY <3>2, <3>3
  <2>2. CASE CondWaitStopped(t) /\ Waits(t)
    <3>1. /\ Continue(t, "again") /\ call[t].name = "cond_wait" /\ UNCHANGED <<lock_count, count>>
          /\ sstate' = [sstate EXCEPT ![t] = IF t \in Queued(sq) THEN "mutex" ELSE "cond"]
      BY <2>2 DEF CondWaitStopped, Waits
    <3>2. Told(t) /\ pc'[t] = "again" /\ call'[t] = call[t]
      BY <3>1, <2>0, <1>0, ContinueStep DEF Known
    <3>3. /\ sstate' \in [Threads -> {"none", "cond", "mutex"}]
          /\ \A u \in Threads \ {t} : sstate'[u] = sstate[u]
          /\ sstate'[t] = IF t \in Queued(sq) THEN "mutex" ELSE "cond"
      BY <3>1, <1>0 DEF Known
    <3>4. QED
      BY <3>1, <3>2, <3>3, <2>2, <1>0 DEF Known, Waits
  <2>3. CASE CondWaitStopped(t) /\ ~Waits(t)
    <3>1. /\ Return(t, held[t]) /\ lock_count' = count[t] /\ owner = t
          /\ count' = [count EXCEPT ![t] = 0] /\ UNCHANGED sstate
      BY <2>3 DEF CondWaitStopped, EndCondWait, Restored, Waits
    <3>2. Told(t) /\ pc'[t] = "idle"
      BY <3>1, <1>0, ReturnStep DEF Known
    <3>3. /\ count[t] \in 0 .. MaxCount /\ count' \in [Threads -> 0 .. MaxCount]
          /\ \A u \in Threads \ {t} : count'[u] = count[u]
      BY <3>1, <1>0, SMT DEF Known
    <3>4. QED
      BY <3>1, <3>2, <3>3, <1>0 DEF Known
  <2>4. QED
    BY <2>1, <2>2, <2>3
<1>3. Local(t)
  BY <1>1, <1>2, <1>0 DEF Known, Local
<1>4. ThreadInv(t)'
  <2>1. LoadInv(t)'
    BY <1>1, <1>2, <1>0 DEF Known, ThreadInv, LoadInv, InWaitLoop
  <2>2. QED
    BY <2>1, <1>1, <1>2, <1>0 DEF Known, ThreadInv, InWaitLoop, InCallback, Waits, Leaving
<1>5. Savestates # FALSE
  BY <1>1, <1>0 DEF Known, PlainInv
<1>6. QED
  BY <1>3, <1>4, <1>5, LocalInv

\* wait_timeout reports that the time is over.
LEMMA TimeoutInv ==
  ASSUME IndInv, NEW t \in Threads, WaitTimeout(t), UNCHANGED condOnly
  PROVE  IndInv'
<1>0. Known(t)
  BY Own
<1>1. /\ pc[t] = "wait" /\ Continue(t, "resched") /\ "resched" \in Labels
      /\ UNCHANGED <<run, signal, stopped, loading, exists, owner, lock_count, sq, cancelSleep,
                     condExists, csq, count, sstate>>
  BY DEF WaitTimeout, wait_timeout, Continue, condOnly, Labels, WaitLabels
<1>2. Told(t) /\ pc'[t] = "resched" /\ call'[t] = call[t] /\ held'[t] = held[t]
  BY <1>1, <1>0, ContinueStep DEF Known
<1>3. Local(t)
  BY <1>1, <1>2, <1>0 DEF Known, Local
<1>4. ThreadInv(t)'
  <2>1. LoadInv(t)'
    BY <1>1, <1>2, <1>0 DEF Known, ThreadInv, LoadInv, InWaitLoop
  <2>2. QED
    BY <2>1, <1>1, <1>2, <1>0 DEF Known, ThreadInv, InWaitLoop, InCallback, Waits, Leaving
<1>5. PlainInv(t) => PlainInv(t)'
  BY <1>1, <1>2 DEF PlainInv, InWaitLoop, Waits, Given, Granted, CondGranted, CondWaiting
<1>6. QED
  BY <1>3, <1>4, <1>5, <1>0, LocalInv DEF Known

\* check_state after a timeout.
LEMMA CheckStateInv ==
  ASSUME IndInv, NEW t \in Threads, CheckState(t), UNCHANGED condOnly
  PROVE  IndInv'
<1>0. Known(t)
  BY Own
<1>1. /\ pc[t] = "resched"
      /\ UNCHANGED <<stopped, loading, exists, owner, lock_count, sq, cancelSleep, call, held,
                     condExists, csq, count, sstate>>
  BY DEF CheckState, cpu_sleep, check_state, condOnly
<1>2. CASE cpu_sleep(t)
  <2>1. UNCHANGED <<pc, call, held, signal>> /\ t \notin stopped /\ run' = awake({t}) /\ run[t] = "asleep"
    BY <1>1, <1>2 DEF cpu_sleep
  <2>2. /\ run' \in [Threads -> RunStates] /\ run'[t] = "ready"
        /\ \A u \in Threads \ {t} : run'[u] = run[u]
    BY <2>1, <1>0 DEF Known, awake, RunStates
  <2>3. Local(t)
    <3>1. Told(t)
      BY <2>1, <1>0, StayStep DEF Known
    <3>2. QED
      BY <3>1, <2>1, <2>2, <1>1, <1>0 DEF Known, Local
  <2>4. ThreadInv(t)'
    <3>1. LoadInv(t)'
      BY <2>1, <2>2, <1>1, <1>0 DEF Known, ThreadInv, LoadInv, InWaitLoop
    <3>2. QED
      BY <3>1, <2>1, <2>2, <1>1, <1>0 DEF Known, ThreadInv, InWaitLoop, InCallback, Waits, Leaving
  <2>5. PlainInv(t) => PlainInv(t)'
    BY <2>1, <2>2, <1>1 DEF PlainInv, InWaitLoop, Waits, Given, Granted, CondGranted, CondWaiting
  <2>6. QED
    BY <2>3, <2>4, <2>5, <1>0, LocalInv DEF Known
<1>3. CASE check_state(t)
  <2>1. /\ signal' = signal \ {t} /\ UNCHANGED run
        /\ t \in stopped \/ run[t] = "running"
    BY <1>3 DEF check_state, unsignal
  <2>2. PICK l \in {"wait", "recheck"} : /\ Continue(t, l)
                                         /\ l = IF t \in stopped THEN "wait" ELSE "recheck"
    BY <1>1, <1>3 DEF check_state, Continue
  <2>3. Told(t) /\ pc'[t] = l /\ call'[t] = call[t] /\ held'[t] = held[t]
    BY <2>2, <1>0, ContinueStep DEF Known, Labels, WaitLabels
  <2>4. Local(t)
    BY <2>1, <2>3, <1>1, <1>0 DEF Known, Local
  <2>5. ThreadInv(t)'
    <3>1. LoadInv(t)'
      BY <2>1, <2>2, <2>3, <1>1, <1>0 DEF Known, ThreadInv, LoadInv, InWaitLoop
    <3>2. QED
      BY <3>1, <2>1, <2>2, <2>3, <1>1, <1>0 DEF Known, ThreadInv, InWaitLoop, InCallback, Waits, Leaving
  <2>6. PlainInv(t) => PlainInv(t)'
    BY <2>1, <2>2, <2>3, <1>1 DEF PlainInv, InWaitLoop, Waits, Given, Granted, CondGranted, CondWaiting
  <2>7. QED
    BY <2>4, <2>5, <2>6, <1>0, LocalInv DEF Known
<1>4. QED
  BY <1>2, <1>3 DEF CheckState

\* schedule_all grants the processor.
LEMMA ScheduleInv ==
  ASSUME IndInv, NEW t \in Threads, Schedule(t), UNCHANGED condOnly
  PROVE  IndInv'
<1>0. Known(t)
  BY Own
<1>1. /\ run[t] = "ready" /\ loading = {} /\ run' = [run EXCEPT ![t] = "running"]
      /\ signal' = signal \union {t}
      /\ UNCHANGED <<pc, call, held, stopped, loading, exists, owner, lock_count, sq, cancelSleep,
                     condExists, csq, count, sstate>>
  BY DEF Schedule, schedule_all, condOnly
<1>2. /\ run' \in [Threads -> RunStates] /\ run'[t] = "running"
      /\ \A u \in Threads \ {t} : run'[u] = run[u]
  BY <1>1, <1>0 DEF Known, RunStates
<1>3. Local(t)
  <2>1. Told(t)
    BY <1>1, <1>0, StayStep DEF Known
  <2>2. QED
    BY <2>1, <1>1, <1>2, <1>0 DEF Known, Local
<1>4. ThreadInv(t)'
  <2>1. LoadInv(t)'
    BY <1>1 DEF LoadInv
  <2>2. QED
    BY <2>1, <1>1, <1>2, <1>0 DEF Known, ThreadInv, InWaitLoop, InCallback, Waits, Leaving
<1>5. PlainInv(t) => PlainInv(t)'
  BY <1>1, <1>2 DEF PlainInv, InWaitLoop, Waits, Given, Granted, CondGranted, CondWaiting
<1>6. QED
  BY <1>3, <1>4, <1>5, <1>0, LocalInv DEF Known

\* A thread gets its stop flag.
LEMMA StopInv ==
  ASSUME IndInv, NEW t \in Threads, Stop(t), UNCHANGED condOnly
  PROVE  IndInv'
<1>0. Known(t)
  BY Own
<1>1. /\ Savestates # FALSE /\ loading = {} /\ stopped' = stopped \union {t}
      /\ UNCHANGED <<pc, call, held, run, signal, loading, exists, owner, lock_count, sq, cancelSleep,
                     condExists, csq, count, sstate>>
  BY DEF Stop, stop, condOnly
<1>2. Local(t)
  BY <1>1, <1>0, StayStep DEF Known, Local
<1>3. ThreadInv(t)'
  <2>1. LoadInv(t)'
    BY <1>1 DEF LoadInv
  <2>2. QED
    BY <2>1, <1>1, <1>0 DEF Known, ThreadInv, InWaitLoop, InCallback, Waits, Leaving
<1>4. QED
  BY <1>1, <1>2, <1>3, LocalInv

-----------------------------------------------------------------------------
(***************************************************************************)
(* The mutex.                                                              *)
(***************************************************************************)
\* A thread that enters a call of its own, or repeats one after a load.
LEMMA EnterLoading ==
  ASSUME IndInv, NEW t \in Threads, NEW c \in Calls, Enters(t, c)
  PROVE  /\ exists /\ pc[t] \in {"idle", "again"} /\ t \notin stopped
         /\ t \in loading \/ loading = {}
         /\ t \in loading => call[t] = c /\ c.name \in {"lock", "cond_wait"}
<1>1. ThreadInv(t)
  BY Own DEF Known
<1>2. QED
  BY <1>1 DEF Enters, CanEnter, ThreadInv, LoadInv

\* try_lock takes a free mutex.
LEMMA TakeInv ==
  ASSUME IndInv, NEW t \in Threads, exists, loading = {}, t \notin stopped,
         pc[t] \in {"idle", "again"}, owner = NoThread, owner' = t,
         Told(t), pc'[t] = "idle", call'[t].name = "none" \/ (call'[t] = call[t] /\ pc[t] = "idle"),
         held'[t] = held[t] + 1,
         UNCHANGED <<exists, condExists, lock_count, sq, csq, run, signal, stopped, loading,
                     cancelSleep, count, sstate>>
  PROVE  IndInv'
<1>0. Known(t)
  BY Own
<1>1. /\ ~Waits(t) /\ t \notin signal /\ run[t] = "running" /\ t \notin cancelSleep
      /\ Savestates = FALSE => pc[t] = "idle" /\ call[t].name = "none" /\ t \notin loading
  BY EnterFacts
<1>2. OwnerStep(t)
  BY <1>1, Constants DEF OwnerStep
<1>3. ThreadInv(t)'
  <2>1. LoadInv(t)'
    BY DEF LoadInv
  <2>2. QED
    BY <2>1, <1>1 DEF ThreadInv, InCallback, InWaitLoop, Waits
<1>4. ASSUME Savestates = FALSE PROVE PlainInv(t)'
  <2>1. held[t] = 0 /\ lock_count = 0
    BY <1>0, <1>1, <1>4, Constants, SMT DEF Known, PlainInv, FreeInv
  <2>2. held'[t] = 1 /\ call'[t].name = "none"
    BY <2>1, <1>1, <1>4, SMT
  <2>3. ~InWaitLoop(t)' /\ ~Given(t)'
    BY <2>2 DEF InWaitLoop, Given, Granted, CondGranted, CondWaiting
  <2>4. t \notin stopped' /\ t \notin loading'
    OBVIOUS
  <2>5. QED
    BY <2>1, <2>2, <2>3, <2>4, SMT DEF PlainInv, CondWaiting
<1>5. QED
  BY <1>2, <1>3, <1>4, OwnerInv

\* try_lock takes the mutex once more.
LEMMA RecurseInv ==
  ASSUME IndInv, NEW t \in Threads, t \notin stopped,
         pc[t] \in {"idle", "again"}, owner = t,
         Told(t), pc'[t] = "idle", call'[t].name = "none" \/ (call'[t] = call[t] /\ pc[t] = "idle"),
         held'[t] > 0, held'[t] - lock_count' = held[t] - lock_count,
         lock_count' \in 0 .. MaxCount,
         UNCHANGED <<exists, condExists, owner, sq, csq, run, signal, stopped, loading,
                     cancelSleep, count, sstate>>
  PROVE  IndInv'
<1>0. Known(t)
  BY Own
<1>1. /\ ~Waits(t) /\ t \notin signal /\ run[t] = "running" /\ t \notin cancelSleep
      /\ Savestates = FALSE => pc[t] = "idle" /\ call[t].name = "none" /\ t \notin loading
  BY EnterFacts
<1>2. Local(t)
  BY <1>0 DEF Known, Local
<1>3. ThreadInv(t)'
  <2>1. LoadInv(t)'
    BY <1>0, <1>1 DEF Known, ThreadInv, LoadInv, InWaitLoop
  <2>2. QED
    BY <2>1, <1>1 DEF ThreadInv, InCallback, InWaitLoop, Waits
<1>4. ASSUME Savestates = FALSE PROVE PlainInv(t)'
  <2>1. ~Given(t)
    BY <1>1, <1>4 DEF Given, Granted, CondGranted, CondWaiting
  <2>2. lock_count + 1 = held[t] /\ lock_count \in Nat /\ held[t] \in Nat /\ held'[t] \in Nat /\ lock_count' \in Nat
    BY <2>1, <1>0, <1>4, Constants, SMT DEF Known, PlainInv, Told
  <2>3. lock_count' + 1 = held'[t]
    BY <2>2, SMT
  <2>4. call'[t].name = "none"
    BY <1>1, <1>4
  <2>5. ~InWaitLoop(t)' /\ ~Given(t)'
    BY <2>4 DEF InWaitLoop, Given, Granted, CondGranted, CondWaiting
  <2>6. t \notin stopped' /\ t \notin loading'
    BY <1>1, <1>4
  <2>7. QED
    BY <2>3, <2>4, <2>5, <2>6 DEF PlainInv, CondWaiting
<1>5. QED
  BY <1>2, <1>3, <1>4, LocalInv

\* sys_mutex_lock and sys_mutex_trylock
LEMMA LockInv ==
  ASSUME IndInv, NEW t \in Threads, NEW timed \in BOOLEAN, Lock(t, timed), UNCHANGED condOnly
  PROVE  IndInv'
<1>0. Known(t)
  BY Own
<1>1. /\ Call("lock", timed) \in Calls /\ Call("lock", timed).name = "lock"
      /\ Enters(t, Call("lock", timed))
      /\ UNCHANGED <<exists, sq, run, signal, stopped, loading, cancelSleep,
                     condExists, csq, count, sstate>>
  <2>1. "lock" \in {"none", "lock", "unlock"} \union CondCalls
    OBVIOUS
  <2>2. Call("lock", timed) \in Calls /\ Call("lock", timed).name = "lock"
    BY <2>1, CallValues
  <2>3. QED
    BY <2>2 DEF Lock, threadVars, condOnly
<1>2. /\ exists /\ pc[t] \in {"idle", "again"} /\ t \notin stopped
      /\ t \in loading \/ loading = {}
      /\ t \in loading => call[t] = Call("lock", timed)
  BY <1>1, EnterLoading
<1>3. /\ ~Waits(t) /\ t \notin signal /\ run[t] = "running" /\ t \notin cancelSleep
      /\ Savestates = FALSE => pc[t] = "idle" /\ call[t].name = "none" /\ t \notin loading
  BY <1>2, EnterFacts
<1>4. CASE try_lock(t) /\ Return(t, held[t] + 1)
  <2>1. held[t] + 1 \in Nat
    BY <1>0, SMT DEF Known
  <2>2. Told(t) /\ pc'[t] = "idle" /\ call'[t].name = "none" /\ held'[t] = held[t] + 1
    BY <2>1, <1>0, <1>4, ReturnStep DEF Known
  <2>3. CASE owner = NoThread /\ owner' = t /\ UNCHANGED lock_count
    <3>1. loading = {}
      BY <2>3, <1>0, <1>1, <1>2 DEF Known, ThreadInv, LoadInv
    <3>2. QED
      BY <3>1, <2>2, <2>3, <1>1, <1>2, TakeInv
  <2>4. CASE CanRecurse(t) /\ lock_count' = lock_count + 1 /\ UNCHANGED owner
    <3>1. /\ owner = t /\ lock_count' \in 0 .. MaxCount
          /\ held'[t] > 0 /\ held'[t] - lock_count' = held[t] - lock_count
      BY <2>2, <2>4, <1>0, SMT DEF Known, CanRecurse
    <3>2. QED
      BY <3>1, <2>2, <2>4, <1>1, <1>2, RecurseInv
  <2>5. QED
    BY <2>3, <2>4, <1>4 DEF try_lock
<1>5. CASE /\ owner \notin {NoThread, t}
           /\ Begin(t, Call("lock", timed), "lock_own")
           /\ UNCHANGED <<owner, lock_count>>
  <2>1. Told(t) /\ pc'[t] = "lock_own" /\ call'[t].name = "lock" /\ held'[t] = held[t]
    <3>1. "lock_own" \in Labels
      BY DEF Labels
    <3>2. PICK l \in Labels : Begin(t, Call("lock", timed), l) /\ l = "lock_own"
      BY <3>1, <1>5
    <3>3. QED
      BY <3>2, <1>0, <1>1, BeginStep DEF Known
  <2>2. Local(t)
    BY <2>1, <1>0, <1>1, <1>5 DEF Known, Local
  <2>3. ThreadInv(t)'
    <3>1. LoadInv(t)'
      BY <2>1, <1>0, <1>1, <1>2, <1>3, <1>5 DEF Known, ThreadInv, LoadInv, InWaitLoop
    <3>2. QED
      BY <3>1, <2>1, <1>1, <1>2, <1>3, <1>5 DEF ThreadInv, InCallback, InWaitLoop, Waits
  <2>4. ASSUME Savestates = FALSE PROVE PlainInv(t)'
    BY <2>1, <2>4, <1>0, <1>1, <1>2, <1>3, <1>5, SMT
       DEF Known, PlainInv, InWaitLoop, Given, Granted, CondGranted, CondWaiting
  <2>5. QED
    BY <2>2, <2>3, <2>4, LocalInv
<1>6. QED
  BY <1>4, <1>5 DEF Lock

\* sys_mutex_trylock.
LEMMA TryLockInv ==
  ASSUME IndInv, NEW t \in Threads, TryLock(t), UNCHANGED condOnly
  PROVE  IndInv'
<1>0. Known(t)
  BY Own
<1>1. /\ exists /\ pc[t] = "idle" /\ t \notin stopped /\ loading = {}
      /\ UNCHANGED <<exists, sq, run, signal, stopped, loading, cancelSleep,
                     condExists, csq, count, sstate, pc, call>>
      /\ held' = [held EXCEPT ![t] = @ + 1]
  BY DEF TryLock, Idle, threadVars, condOnly
<1>2. Told(t) /\ pc'[t] = "idle" /\ call'[t] = call[t] /\ held'[t] = held[t] + 1
  BY <1>0, <1>1, SMT DEF Known, Types, Told
<1>3. CASE owner = NoThread /\ owner' = t /\ UNCHANGED lock_count
  BY <1>1, <1>2, <1>3, TakeInv
<1>4. CASE CanRecurse(t) /\ lock_count' = lock_count + 1 /\ UNCHANGED owner
  <2>1. /\ owner = t /\ lock_count' \in 0 .. MaxCount
        /\ held'[t] > 0 /\ held'[t] - lock_count' = held[t] - lock_count
    BY <1>0, <1>2, <1>4, SMT DEF Known, CanRecurse
  <2>2. QED
    BY <2>1, <1>1, <1>2, <1>4, RecurseInv
<1>5. QED
  BY <1>3, <1>4 DEF TryLock, try_lock

\* A step that changes the place of the thread in the queues.
PlaceStep(t) ==
  /\ Told(t)
  /\ run' \in [Threads -> RunStates]
  /\ sstate' \in [Threads -> {"none", "cond", "mutex"}]
  /\ loading' \subseteq loading
  /\ \A u \in Threads \ {t} :
       /\ run'[u] = run[u] /\ sstate'[u] = sstate[u]
       /\ u \in loading' <=> u \in loading
       /\ u \in Queued(sq') <=> u \in Queued(sq)
       /\ u \in Queued(csq') <=> u \in Queued(csq)
  /\ sq' \in Seq(Threads) /\ csq' \in Seq(Threads) /\ NoDuplicates(sq') /\ NoDuplicates(csq')
  /\ t \notin Queued(sq') \/ t \notin Queued(csq')
  /\ owner = t => t \notin Queued(sq') /\ t \notin Queued(csq')
  /\ sq' # <<>> => owner # NoThread
  /\ csq' # <<>> => condExists
  /\ UNCHANGED <<exists, condExists, owner, lock_count, signal, stopped, cancelSleep, count>>

\* For a step that changes the place of its thread in the queues it is enough to look at it.
LEMMA PlaceInv ==
  ASSUME IndInv, NEW t \in Threads, PlaceStep(t), ThreadInv(t)', Savestates = FALSE => PlainInv(t)'
  PROVE  IndInv'
<1>1. Types'
  BY DEF IndInv, Types, ThreadsTypeOK, PlaceStep, Told
<1>2. QueueInv'
  <2>1. Queued(sq') \subseteq Threads /\ Queued(csq') \subseteq Threads
    BY SMT DEF PlaceStep, Queued
  <2>2. Queued(sq') \intersect Queued(csq') = {}
    BY <2>1 DEF IndInv, QueueInv, OneQueue, PlaceStep
  <2>3. owner' \notin Queued(sq') /\ owner' \notin Queued(csq')
    BY <2>1 DEF IndInv, QueueInv, Waits, PlaceStep
  <2>4. QED
    BY <2>2, <2>3 DEF IndInv, QueueInv, OneQueue, WaitersHaveOwner, Waits, PlaceStep
<1>3. FreeInv'
  BY DEF IndInv, FreeInv, PlaceStep
<1>4. Quiet
  BY DEF Quiet, PlaceStep
<1>5. \A u \in Threads \ {t} : Same(u)
  BY DEF Same, Frame, PlaceStep, Told
<1>6. QED
  BY <1>1, <1>2, <1>3, <1>4, <1>5, StepInv

\* try_own by the thread itself
LEMMA LockOwnInv ==
  ASSUME IndInv, NEW t \in Threads, LockOwn(t), UNCHANGED condOnly
  PROVE  IndInv'
<1>0. Known(t)
  BY Own
<1>1. /\ pc[t] = "lock_own" /\ try_own(t)
      /\ IF owner' = t THEN Return(t, 1) ELSE Continue(t, "lock_sleep")
      /\ UNCHANGED <<exists, lock_count, run, signal, stopped, loading, cancelSleep,
                     condExists, csq, count, sstate>>
  BY DEF LockOwn, threadVars, condOnly
<1>2. /\ ~Waits(t) /\ t \notin signal /\ run[t] = "running" /\ t \notin cancelSleep
      /\ owner # t /\ exists
      /\ loading # {} => t \in loading /\ owner # NoThread
  BY <1>0, <1>1 DEF Known, ThreadInv, LoadInv, InWaitLoop, InCallback, Leaving
<1>3. CASE owner = NoThread
  <2>1. owner' = t /\ UNCHANGED sq /\ Return(t, 1) /\ 1 \in Nat
    BY <1>1, <1>3 DEF try_own
  <2>2. Told(t) /\ pc'[t] = "idle" /\ call'[t].name = "none" /\ held'[t] = 1
    BY <2>1, <1>0, ReturnStep DEF Known
  <2>3. OwnerStep(t)
    BY <2>1, <2>2, <1>1, <1>2, <1>3, Constants DEF OwnerStep
  <2>4. ThreadInv(t)'
    <3>1. LoadInv(t)'
      BY <1>1, <1>2, <1>3 DEF LoadInv
    <3>2. QED
      BY <3>1, <2>1, <2>2, <1>1, <1>2 DEF ThreadInv, InCallback, InWaitLoop, Waits
  <2>5. ASSUME Savestates = FALSE PROVE PlainInv(t)'
    <3>1. lock_count = 0 /\ t \notin stopped /\ t \notin loading
      BY <2>5, <1>0, <1>3 DEF Known, FreeInv, PlainInv
    <3>2. ~InWaitLoop(t)' /\ ~Given(t)'
      BY <2>2 DEF InWaitLoop, Given, Granted, CondGranted, CondWaiting
    <3>3. QED
      BY <3>1, <3>2, <2>1, <2>2, <1>1, SMT DEF PlainInv, CondWaiting
  <2>6. QED
    BY <2>3, <2>4, <2>5, OwnerInv
<1>4. CASE owner # NoThread
  <2>1. sq' = emplace(sq, t) /\ UNCHANGED owner /\ Continue(t, "lock_sleep") /\ "lock_sleep" \in Labels
    BY <1>1, <1>2, <1>4 DEF try_own, Labels
  <2>2. Told(t) /\ pc'[t] = "lock_sleep" /\ call'[t] = call[t] /\ held'[t] = held[t]
    BY <2>1, <1>0, ContinueStep DEF Known
  <2>3. sq' \in Seq(Threads) /\ NoDuplicates(sq') /\ Queued(sq') = Queued(sq) \union {t}
    <3>1. /\ emplace(sq, t) \in Seq(Threads) /\ NoDuplicates(emplace(sq, t))
          /\ Queued(emplace(sq, t)) = Queued(sq) \union {t}
      BY <1>2, EmplaceHere
    <3>2. QED
      BY <3>1, <2>1
  <2>4. PlaceStep(t)
    BY <2>1, <2>2, <2>3, <1>0, <1>1, <1>2, <1>4
       DEF Known, Types, QueueInv, OneQueue, Waits, PlaceStep
  <2>5. ThreadInv(t)'
    <3>1. LoadInv(t)'
      BY <2>1, <2>2, <1>0, <1>1, <1>2 DEF Known, ThreadInv, LoadInv, InWaitLoop
    <3>2. QED
      BY <3>1, <2>1, <2>2, <2>3, <1>1, <1>2 DEF ThreadInv, InCallback, InWaitLoop, Waits
  <2>6. PlainInv(t) => PlainInv(t)'
    BY <2>1, <2>2, <2>3, <1>1, <1>2
       DEF PlainInv, InWaitLoop, Given, Granted, CondGranted, CondWaiting
  <2>7. QED
    BY <2>4, <2>5, <2>6, <1>0, PlaceInv DEF Known
<1>5. QED
  BY <1>3, <1>4

\* The end of a timeout in sys_mutex_lock.
LEMMA RecheckInv ==
  ASSUME IndInv, NEW t \in Threads, Recheck(t), UNCHANGED condOnly
  PROVE  IndInv'
<1>0. Known(t)
  BY Own
<1>1. /\ call[t].name = "lock" /\ pc[t] = "recheck"
      /\ sq' = IF t \in Queued(sq) THEN unqueue(sq, t) ELSE sq
      /\ Return(t, RecheckResult(t)) /\ RecheckResult(t) \in Nat
      /\ UNCHANGED <<exists, owner, lock_count, run, signal, stopped, loading, cancelSleep,
                     condExists, csq, count, sstate>>
  BY DEF Recheck, RecheckResult, threadVars, condOnly
<1>2. Told(t) /\ pc'[t] = "idle" /\ call'[t].name = "none" /\ held'[t] = RecheckResult(t)
  BY <1>0, <1>1, ReturnStep DEF Known
<1>3. /\ t \notin Queued(csq) /\ t \notin signal /\ run[t] = "running" /\ t \notin cancelSleep
      /\ loading = {}
  BY <1>0, <1>1 DEF Known, ThreadInv, LoadInv, InWaitLoop
<1>4. /\ sq' \in Seq(Threads) /\ NoDuplicates(sq') /\ Queued(sq') = Queued(sq) \ {t}
      /\ sq = <<>> => sq' = <<>>
  <2>1. sq \in Seq(Threads) /\ NoDuplicates(sq) /\ (sq = <<>> => Queued(sq) = {})
    BY <1>0, SMT DEF Known, Types, QueueInv, OneQueue, Queued
  <2>2. CASE t \in Queued(sq)
    BY <2>1, <2>2, <1>1, UnqueueQueue
  <2>3. CASE t \notin Queued(sq)
    BY <2>1, <2>3, <1>1
  <2>4. QED
    BY <2>2, <2>3
<1>5. PlaceStep(t)
  BY <1>0, <1>1, <1>2, <1>3, <1>4
     DEF Known, Types, QueueInv, OneQueue, WaitersHaveOwner, PlaceStep
<1>6. ThreadInv(t)'
  <2>1. LoadInv(t)'
    BY <1>1, <1>3 DEF LoadInv
  <2>2. QED
    BY <2>1, <1>1, <1>2, <1>3, <1>4 DEF ThreadInv, InCallback, InWaitLoop, Waits
<1>7. ASSUME Savestates = FALSE PROVE PlainInv(t)'
  <2>1. ~InWaitLoop(t)' /\ ~Given(t)'
    BY <1>2 DEF InWaitLoop, Given, Granted, CondGranted, CondWaiting
  <2>2. Given(t) <=> t \notin Queued(sq)
    BY <1>1 DEF InWaitLoop, Given, Granted, CondGranted, CondWaiting
  <2>3. /\ PlainInv(t) /\ held[t] = 0 /\ lock_count \in Nat
    BY <1>0, <1>1, <1>7, SMT DEF Known, PlainInv
  <2>4. /\ owner = t <=> held'[t] > 0
        /\ owner = t => lock_count + 1 = held'[t]
    BY <2>2, <2>3, <1>2, SMT DEF PlainInv, RecheckResult
  <2>5. QED
    BY <2>1, <2>3, <2>4, <1>1, <1>2 DEF PlainInv, CondWaiting
<1>8. QED
  BY <1>5, <1>6, <1>7, PlaceInv

\* sys_mutex_unlock
LEMMA UnlockInv ==
  ASSUME IndInv, NEW t \in Threads, Unlock(t), UNCHANGED condOnly
  PROVE  IndInv'
<1>0. Known(t)
  BY Own
<1>1. /\ Call("unlock", FALSE) \in Calls /\ Call("unlock", FALSE).name = "unlock"
      /\ Enters(t, Call("unlock", FALSE)) /\ held[t] > 0 /\ owner = t
      /\ UNCHANGED <<exists, sq, run, signal, stopped, loading, cancelSleep,
                     condExists, csq, count, sstate>>
  <2>1. "unlock" \in {"none", "lock", "unlock"} \union CondCalls /\ FALSE \in BOOLEAN
    OBVIOUS
  <2>2. Call("unlock", FALSE) \in Calls /\ Call("unlock", FALSE).name = "unlock"
    BY <2>1, CallValues
  <2>3. QED
    BY <2>2 DEF Unlock, threadVars, condOnly
<1>2. /\ exists /\ pc[t] \in {"idle", "again"} /\ t \notin stopped /\ loading = {}
  BY <1>1, EnterLoading
<1>3. /\ ~Waits(t) /\ t \notin signal /\ run[t] = "running" /\ t \notin cancelSleep
      /\ Savestates = FALSE => pc[t] = "idle" /\ call[t].name = "none" /\ t \notin loading
  BY <1>2, EnterFacts
<1>4. Savestates = FALSE => lock_count + 1 = held[t]
  BY <1>0, <1>1, <1>3 DEF Known, PlainInv, Given, Granted, CondGranted, CondWaiting
<1>5. CASE lock_count > 0 /\ lock_count' = Unlocked /\ Return(t, held[t] - 1) /\ UNCHANGED owner
  <2>1. held[t] - 1 \in Nat
    BY <1>0, <1>1, SMT DEF Known
  <2>2. Told(t) /\ pc'[t] = "idle" /\ call'[t].name = "none" /\ held'[t] = held[t] - 1
    BY <2>1, <1>0, <1>5, ReturnStep DEF Known
  <2>3. lock_count' = lock_count - 1 /\ lock_count' \in 0 .. MaxCount
    BY <1>0, <1>5, SMT DEF Known, Unlocked
  <2>4. Local(t)
    BY <2>2, <2>3, <1>0, <1>1, <1>5 DEF Known, Local
  <2>5. ThreadInv(t)'
    <3>1. LoadInv(t)'
      BY <1>1, <1>2 DEF LoadInv
    <3>2. QED
      BY <3>1, <2>2, <1>1, <1>2, <1>3 DEF ThreadInv, InCallback, InWaitLoop, Waits
  <2>6. ASSUME Savestates = FALSE PROVE PlainInv(t)'
    <3>1. ~InWaitLoop(t)' /\ ~Given(t)'
      BY <2>2 DEF InWaitLoop, Given, Granted, CondGranted, CondWaiting
    <3>2. held'[t] > 0 /\ lock_count' + 1 = held'[t]
      BY <2>2, <2>3, <2>6, <1>0, <1>4, <1>5, SMT DEF Known
    <3>3. QED
      BY <3>1, <3>2, <2>2, <2>6, <1>1, <1>2, <1>5 DEF PlainInv, CondWaiting
  <2>7. QED
    BY <2>4, <2>5, <2>6, LocalInv
<1>6. CASE lock_count = 0 /\ sq = <<>> /\ owner' = NoThread /\ Return(t, 0) /\ UNCHANGED lock_count
  <2>1. Told(t) /\ pc'[t] = "idle" /\ call'[t].name = "none" /\ held'[t] = 0
    <3>1. 0 \in Nat
      OBVIOUS
    <3>2. QED
      BY <3>1, <1>0, <1>6, ReturnStep DEF Known
  <2>2. OwnerStep(t)
    BY <2>1, <1>1, <1>2, <1>3, <1>6 DEF OwnerStep
  <2>3. ThreadInv(t)'
    <3>1. LoadInv(t)'
      BY <1>1, <1>2 DEF LoadInv
    <3>2. QED
      BY <3>1, <2>1, <1>1, <1>2, <1>3 DEF ThreadInv, InCallback, InWaitLoop, Waits
  <2>4. ASSUME Savestates = FALSE PROVE PlainInv(t)'
    <3>1. ~InWaitLoop(t)' /\ ~Given(t)'
      BY <2>1 DEF InWaitLoop, Given, Granted, CondGranted, CondWaiting
    <3>2. QED
      BY <3>1, <2>1, <1>1, <1>2, <1>6, Constants, SMT DEF PlainInv, CondWaiting
  <2>5. QED
    BY <2>2, <2>3, <2>4, OwnerInv
<1>7. CASE /\ lock_count = 0 /\ sq # <<>> /\ Begin(t, Call("unlock", FALSE), "unlock_reown")
           /\ UNCHANGED <<owner, lock_count>>
  <2>1. Told(t) /\ pc'[t] = "unlock_reown" /\ call'[t].name = "unlock" /\ held'[t] = held[t]
    <3>1. "unlock_reown" \in Labels
      BY DEF Labels
    <3>2. PICK l \in Labels : Begin(t, Call("unlock", FALSE), l) /\ l = "unlock_reown"
      BY <3>1, <1>7
    <3>3. QED
      BY <3>2, <1>0, <1>1, BeginStep DEF Known
  <2>2. Local(t)
    BY <2>1, <1>0, <1>1, <1>7 DEF Known, Local
  <2>3. ThreadInv(t)'
    <3>1. LoadInv(t)'
      BY <1>1, <1>2 DEF LoadInv
    <3>2. QED
      BY <3>1, <2>1, <1>1, <1>2, <1>3, <1>7 DEF ThreadInv, InCallback, InWaitLoop, Waits
  <2>4. ASSUME Savestates = FALSE PROVE PlainInv(t)'
    <3>1. ~InWaitLoop(t)' /\ ~Given(t)'
      BY <2>1 DEF InWaitLoop, Given, Granted, CondGranted, CondWaiting
    <3>2. QED
      BY <3>1, <2>1, <2>4, <1>1, <1>2, <1>4, <1>7 DEF PlainInv, CondWaiting
  <2>5. QED
    BY <2>2, <2>3, <2>4, LocalInv
<1>8. QED
  BY <1>5, <1>6, <1>7 DEF Unlock

-----------------------------------------------------------------------------
(***************************************************************************)
(* The mutex is handed over.                                               *)
(***************************************************************************)
LEMMA ReownStep ==
  ASSUME Types, QueueInv, reown
  PROVE  /\ owner' \in Threads \union {NoThread} /\ sq' \in Seq(Threads) /\ NoDuplicates(sq')
         /\ NextOwner = {owner'} \ {NoThread}
         /\ NextOwner \subseteq Queued(sq)
         /\ Queued(sq') = Queued(sq) \ NextOwner
         /\ sq' # <<>> => owner' # NoThread
         /\ ~NextIsAgain => \A u \in NextOwner : pc[u] # "again"
<1>1. sq \in Seq(Threads) /\ NoDuplicates(sq)
  BY DEF Types, QueueInv, OneQueue
<1>2. CASE sq = <<>>
  BY <1>1, <1>2 DEF reown, NextOwner, Queued
<1>3. CASE sq # <<>>
  <2>1. schedule(sq) \in DOMAIN sq
    BY <1>1, <1>3, ScheduleInQueue, SMT
  <2>2. PICK i \in DOMAIN sq : i = schedule(sq)
    BY <2>1
  <2>3. owner' = sq[i] /\ sq' = Unlink(sq, i) /\ NextOwner = {sq[i]}
        /\ (NextIsAgain <=> pc[sq[i]] = "again")
    BY <2>2, <1>3 DEF reown, NextOwner, NextIsAgain
  <2>4. sq[i] \in Threads /\ sq[i] \in Queued(sq) /\ sq[i] # NoThread
    BY <2>2, <1>1, Constants, SMT DEF Queued
  <2>5. /\ Unlink(sq, i) \in Seq(Threads) /\ NoDuplicates(Unlink(sq, i))
        /\ Queued(Unlink(sq, i)) = Queued(sq) \ {sq[i]}
    BY <2>2, <1>1, UnlinkQueue, SMT
  <2>6. QED
    BY <2>3, <2>4, <2>5
<1>4. QED
  BY <1>2, <1>3

\* The thread that owns the mutex lets go of it, and perhaps waits in csq.
PassStep(t) ==
  /\ Told(t)
  /\ owner = t /\ reown /\ ~NextIsAgain /\ loading = {} /\ ~Waits(t)
  /\ run' \in [Threads -> RunStates]
  /\ \A u \in Threads \ {t} :
       /\ run'[u] = IF u \in NextOwner /\ run[u] = "asleep" THEN "ready" ELSE run[u]
       /\ count'[u] = count[u] /\ sstate'[u] = sstate[u]
       /\ u \in Queued(csq') <=> u \in Queued(csq)
  /\ cancelSleep' = cancelled(NextOwner)
  /\ csq' \in Seq(Threads) /\ NoDuplicates(csq')
  /\ csq' # <<>> => condExists
  /\ count' \in [Threads -> 0 .. MaxCount]
  /\ sstate' \in [Threads -> {"none", "cond", "mutex"}]
  /\ lock_count' \in 0 .. MaxCount
  /\ Savestates = FALSE => lock_count' = 0
  /\ UNCHANGED <<exists, condExists, signal, stopped, loading>>

\* The thread that passes the mutex on does not get it back.
LEMMA PassFacts ==
  ASSUME IndInv, NEW t \in Threads, PassStep(t)
  PROVE  /\ t \notin NextOwner /\ owner' # t /\ t \notin Queued(sq')
         /\ t \in cancelSleep' <=> t \in cancelSleep
<1>1. Types /\ QueueInv
  BY DEF IndInv
<1>2. NextOwner \subseteq Queued(sq) /\ NextOwner = {owner'} \ {NoThread}
      /\ Queued(sq') = Queued(sq) \ NextOwner
  BY <1>1, ReownStep DEF PassStep
<1>3. QED
  BY <1>2, Constants DEF PassStep, Waits, cancelled

\* For a step that passes the mutex on it is enough to look at its thread.
LEMMA PassInv ==
  ASSUME IndInv, NEW t \in Threads, PassStep(t), ThreadInv(t)', Savestates = FALSE => PlainInv(t)'
  PROVE  IndInv'
<1>1. Types /\ QueueInv
  BY DEF IndInv
<1>2. /\ owner' \in Threads \union {NoThread} /\ sq' \in Seq(Threads) /\ NoDuplicates(sq')
      /\ NextOwner = {owner'} \ {NoThread}
      /\ NextOwner \subseteq Queued(sq)
      /\ Queued(sq') = Queued(sq) \ NextOwner
      /\ sq' # <<>> => owner' # NoThread
      /\ \A u \in NextOwner : pc[u] # "again"
  BY <1>1, ReownStep DEF PassStep
<1>3. Queued(sq) \subseteq Threads /\ Queued(csq) \subseteq Threads /\ Queued(csq') \subseteq Threads
  BY <1>1, SMT DEF Types, Queued, PassStep
<1>4. t \notin NextOwner /\ owner' # t /\ t \notin Queued(sq')
  BY PassFacts
<1>5. Types'
  <2>1. cancelSleep' \subseteq Threads
    BY <1>1, <1>2, <1>3 DEF PassStep, cancelled, Types
  <2>2. QED
    BY <2>1, <1>1, <1>2 DEF Types, ThreadsTypeOK, PassStep, Told
<1>6. QueueInv'
  <2>1. Queued(sq) \intersect Queued(csq) = {}
    BY <1>1 DEF QueueInv, OneQueue
  <2>2. Queued(sq') \intersect Queued(csq') = {}
    BY <2>1, <1>2, <1>3, <1>4, SMT DEF PassStep
  <2>3. owner' \notin Queued(sq') /\ owner' \notin Queued(csq')
    BY <2>1, <1>2, <1>3, <1>4, Constants DEF PassStep
  <2>4. exists'
    BY <1>1, Constants DEF PassStep, QueueInv
  <2>5. QED
    BY <2>2, <2>3, <2>4, <1>2 DEF QueueInv, OneQueue, WaitersHaveOwner, Waits, PassStep
<1>7. FreeInv'
  BY DEF FreeInv, PassStep
<1>8. Quiet
  BY DEF Quiet, PassStep
<1>9. ASSUME NEW u \in Threads \ {t} PROVE Same(u) \/ Handed(u)
  <2>1. /\ Frame(u) /\ owner # u
        /\ run'[u] = IF u \in NextOwner /\ run[u] = "asleep" THEN "ready" ELSE run[u]
        /\ u \in Queued(csq') <=> u \in Queued(csq)
        /\ u \in cancelSleep' <=> u \in cancelSleep \/ (u \in NextOwner /\ pc[u] = "lock_sleep")
    BY DEF Frame, PassStep, Told, cancelled
  <2>2. CASE u \in NextOwner
    <3>1. /\ owner' = u /\ u \in Queued(sq) /\ u \notin Queued(sq') /\ pc[u] # "again"
          /\ u \notin Queued(csq)
      BY <2>2, <1>1, <1>2 DEF QueueInv, OneQueue
    <3>2. Handed(u)
      BY <2>1, <2>2, <3>1 DEF Handed, Waits, PassStep
    <3>3. QED
      BY <3>2
  <2>3. CASE u \notin NextOwner
    <3>1. owner' # u /\ (u \in Queued(sq') <=> u \in Queued(sq))
      BY <2>3, <1>2, Constants
    <3>2. Same(u)
      BY <2>1, <2>3, <3>1 DEF Same
    <3>3. QED
      BY <3>2
  <2>4. QED
    BY <2>2, <2>3
<1>10. QED
  BY <1>5, <1>6, <1>7, <1>8, <1>9, StepInv

\* With a waiter that left for a savestate there are savestates.
LEMMA NextAgain ==
  ASSUME IndInv, NextIsAgain
  PROVE  Savestates # FALSE
<1>1. sq \in Seq(Threads) /\ sq # <<>>
  BY DEF IndInv, Types, NextIsAgain
<1>2. schedule(sq) \in DOMAIN sq
  BY <1>1, ScheduleInQueue, SMT
<1>3. PICK u \in Threads : pc[u] = "again"
  BY <1>1, <1>2, SMT DEF NextIsAgain
<1>4. QED
  BY <1>3 DEF IndInv, ThreadsInv, PlainInv

\* sys_mutex_unlock hands the mutex over, or leaves for a savestate.
LEMMA UnlockReownInv ==
  ASSUME IndInv, NEW t \in Threads, UnlockReown(t), UNCHANGED condOnly
  PROVE  IndInv'
<1>0. Known(t)
  BY Own
<1>1. /\ pc[t] = "unlock_reown"
      /\ UNCHANGED <<exists, lock_count, signal, loading, condExists, csq, count, sstate>>
  BY DEF UnlockReown, condOnly
<1>2. /\ ~Waits(t) /\ t \notin signal /\ run[t] = "running" /\ t \notin cancelSleep
      /\ owner = t /\ exists /\ loading = {}
  BY <1>0, <1>1 DEF Known, ThreadInv, LoadInv, InWaitLoop, InCallback, Leaving
<1>3. CASE /\ ~NextIsAgain /\ reown /\ run' = awake(NextOwner)
           /\ cancelSleep' = cancelled(NextOwner) /\ Return(t, 0) /\ UNCHANGED stopped
  <2>1. Told(t) /\ pc'[t] = "idle" /\ call'[t].name = "none" /\ held'[t] = 0
    <3>1. 0 \in Nat
      OBVIOUS
    <3>2. QED
      BY <3>1, <1>0, <1>3, ReturnStep DEF Known
  <2>2. /\ run' \in [Threads -> RunStates]
        /\ \A u \in Threads : run'[u] = IF u \in NextOwner /\ run[u] = "asleep" THEN "ready" ELSE run[u]
    BY <1>0, <1>3 DEF Known, awake, RunStates
  <2>3. Savestates = FALSE => lock_count = 0
    BY <1>0, <1>1 DEF Known, PlainInv
  <2>4. PassStep(t)
    BY <2>1, <2>2, <2>3, <1>0, <1>1, <1>2, <1>3
       DEF Known, Types, QueueInv, OneQueue, PassStep
  <2>5. t \notin NextOwner /\ owner' # t /\ t \notin Queued(sq') /\ t \notin cancelSleep'
    BY <2>4, <1>2, PassFacts
  <2>6. ThreadInv(t)'
    <3>1. LoadInv(t)'
      BY <1>1, <1>2 DEF LoadInv
    <3>2. run'[t] = "running"
      BY <2>2, <1>2
    <3>3. QED
      BY <3>1, <3>2, <2>1, <2>5, <1>1, <1>2 DEF ThreadInv, InCallback, InWaitLoop, Waits
  <2>7. ASSUME Savestates = FALSE PROVE PlainInv(t)'
    <3>1. ~InWaitLoop(t)' /\ ~Given(t)'
      BY <2>1 DEF InWaitLoop, Given, Granted, CondGranted, CondWaiting
    <3>2. t \notin stopped /\ t \notin loading
      BY <2>7, <1>0 DEF Known, PlainInv
    <3>3. QED
      BY <3>1, <3>2, <2>1, <2>5, <1>1, <1>3, SMT DEF PlainInv, CondWaiting
  <2>8. QED
    BY <2>4, <2>6, <2>7, PassInv
<1>4. CASE /\ NextIsAgain /\ stopped' = stopped \union {t} /\ Continue(t, "again")
           /\ UNCHANGED <<owner, sq, run, cancelSleep>>
  <2>1. "again" \in Labels
    BY DEF Labels, WaitLabels
  <2>2. Told(t) /\ pc'[t] = "again" /\ call'[t] = call[t]
    BY <2>1, <1>0, <1>4, ContinueStep DEF Known
  <2>3. Local(t)
    BY <2>2, <1>0, <1>1, <1>4 DEF Known, Local
  <2>4. ThreadInv(t)'
    <3>1. LoadInv(t)'
      BY <1>1, <1>2 DEF LoadInv
    <3>2. QED
      BY <3>1, <2>2, <1>1, <1>2, <1>4 DEF ThreadInv, InCallback, InWaitLoop, Waits, Leaving
  <2>5. Savestates # FALSE
    BY <1>4, NextAgain
  <2>6. QED
    BY <2>3, <2>4, <2>5, LocalInv
<1>5. QED
  BY <1>3, <1>4 DEF UnlockReown

-----------------------------------------------------------------------------
(***************************************************************************)
(* The objects come and go.                                                *)
(***************************************************************************)
LEMMA ObjectInv ==
  ASSUME IndInv, NEW t \in Threads,
         \/ UNCHANGED condOnly /\ ((~condExists /\ Destroy(t)) \/ Create(t))
         \/ CondDestroy(t) \/ CondCreate(t)
  PROVE  IndInv'
<1>1. /\ loading = {} /\ exists' \in BOOLEAN /\ condExists' \in BOOLEAN
      /\ owner # NoThread \/ condExists' => exists'
      /\ csq # <<>> => condExists'
      /\ \A u \in Threads : InCallback(u) /\ exists => exists'
      /\ UNCHANGED <<owner, lock_count, sq, run, signal, stopped, loading, pc, call, cancelSleep,
                     held, csq, count, sstate>>
  <2>1. /\ exists \in BOOLEAN /\ condExists \in BOOLEAN
        /\ owner # NoThread \/ condExists => exists
        /\ csq # <<>> => condExists
    BY DEF IndInv, Types, QueueInv
  <2>2. CASE UNCHANGED condOnly /\ ~condExists /\ Destroy(t)
    BY <2>1, <2>2 DEF Destroy, Idle, condOnly, threadVars
  <2>3. CASE UNCHANGED condOnly /\ Create(t)
    BY <2>1, <2>3 DEF Create, Idle, condOnly, threadVars
  <2>4. CASE CondDestroy(t)
    BY <2>1, <2>4 DEF CondDestroy, Idle, vars, threadVars
  <2>5. CASE CondCreate(t)
    BY <2>1, <2>5 DEF CondCreate, Idle, vars, threadVars
  <2>6. QED
    BY <2>2, <2>3, <2>4, <2>5
<1>2. Types'
  BY <1>1 DEF IndInv, Types, ThreadsTypeOK
<1>3. QueueInv'
  BY <1>1 DEF IndInv, QueueInv, OneQueue, WaitersHaveOwner, Waits
<1>4. FreeInv'
  BY <1>1 DEF IndInv, FreeInv
<1>5. Quiet
  BY <1>1 DEF Quiet
<1>6. \A u \in Threads : Same(u)
  BY <1>1 DEF Same, Frame
<1>7. QED
  BY <1>2, <1>3, <1>4, <1>5, <1>6, AllSame

-----------------------------------------------------------------------------
(***************************************************************************)
(* sys_cond_wait.                                                          *)
(***************************************************************************)
LEMMA CondWaitInv ==
  ASSUME IndInv, NEW t \in Threads, NEW timed \in BOOLEAN, CondWait(t, timed)
  PROVE  IndInv'
<1> DEFINE c == Call("cond_wait", timed)
<1>0. Known(t)
  BY Own
<1>1. /\ condExists /\ Enters(t, c) /\ t \notin loading /\ owner = t /\ held[t] > 0
      /\ lock_count' = 0 /\ sstate' = [sstate EXCEPT ![t] = "none"]
      /\ UNCHANGED <<exists, condExists, signal, loading>>
  BY DEF CondWait, CondEnters
<1>2. c \in Calls /\ c.name = "cond_wait"
  BY CallValues DEF CondCalls
<1> HIDE DEF c
<1>3. pc[t] \in {"idle", "again"} /\ t \notin stopped /\ loading = {} /\ exists
  BY <1>1, <1>2, EnterLoading
<1>4. /\ ~Waits(t) /\ t \notin signal /\ run[t] = "running" /\ t \notin cancelSleep
      /\ Savestates = FALSE => pc[t] = "idle" /\ call[t].name = "none" /\ t \notin loading
  BY <1>3, EnterFacts
<1>5. CASE /\ ~NextIsAgain /\ csq' = emplace(csq, t) /\ count' = [count EXCEPT ![t] = lock_count]
           /\ reown /\ run' = [awake(NextOwner) EXCEPT ![t] = sleep(t)[t]]
           /\ cancelSleep' = cancelled(NextOwner) /\ Begin(t, c, "wait") /\ UNCHANGED stopped
  <2>1. Told(t) /\ pc'[t] = "wait" /\ call'[t] = c /\ held'[t] = held[t]
    <3>1. "wait" \in Labels
      BY DEF Labels, WaitLabels
    <3>2. PICK l \in Labels : Begin(t, c, l) /\ l = "wait"
      BY <3>1, <1>5
    <3>3. QED
      BY <3>2, <1>0, <1>2, BeginStep DEF Known
  <2>2. /\ csq' \in Seq(Threads) /\ NoDuplicates(csq') /\ Queued(csq') = Queued(csq) \union {t}
    <3>1. /\ emplace(csq, t) \in Seq(Threads) /\ NoDuplicates(emplace(csq, t))
          /\ Queued(emplace(csq, t)) = Queued(csq) \union {t}
      BY <1>4, EmplaceHere
    <3>2. QED
      BY <3>1, <1>5
  <2>3. /\ run' \in [Threads -> RunStates] /\ run'[t] = "asleep"
        /\ \A u \in Threads \ {t} :
             run'[u] = IF u \in NextOwner /\ run[u] = "asleep" THEN "ready" ELSE run[u]
    <3>1. sleep(t)[t] = "asleep" /\ "asleep" \in RunStates
      BY <1>0, <1>4 DEF Known, sleep, RunStates
    <3>2. /\ awake(NextOwner) \in [Threads -> RunStates]
          /\ \A u \in Threads : awake(NextOwner)[u] =
               IF u \in NextOwner /\ run[u] = "asleep" THEN "ready" ELSE run[u]
      BY <1>0 DEF Known, awake, RunStates
    <3>3. QED
      BY <3>1, <3>2, <1>5
  <2>4. /\ count' \in [Threads -> 0 .. MaxCount] /\ count'[t] = lock_count
        /\ sstate' \in [Threads -> {"none", "cond", "mutex"}]
        /\ \A u \in Threads \ {t} : count'[u] = count[u] /\ sstate'[u] = sstate[u]
        /\ lock_count' \in 0 .. MaxCount
    BY <1>0, <1>1, <1>5, SMT DEF Known
  <2>5. PassStep(t)
    BY <2>1, <2>2, <2>3, <2>4, <1>1, <1>3, <1>4, <1>5 DEF PassStep
  <2>6. t \notin NextOwner /\ owner' # t /\ t \notin Queued(sq') /\ t \notin cancelSleep'
    BY <2>5, <1>4, PassFacts
  <2>7. ThreadInv(t)'
    <3>1. LoadInv(t)'
      BY <1>1, <1>3 DEF LoadInv
    <3>2. QED
      BY <3>1, <2>1, <2>2, <2>3, <2>6, <1>1, <1>2, <1>4
         DEF ThreadInv, InCallback, InWaitLoop, Waits
  <2>8. ASSUME Savestates = FALSE PROVE PlainInv(t)'
    <3>1. ~Given(t)
      BY <2>8, <1>4 DEF InWaitLoop, Given, Granted, CondGranted, CondWaiting
    <3>2. lock_count + 1 = held[t]
      BY <3>1, <2>8, <1>0, <1>1 DEF Known, PlainInv
    <3>3. ~Given(t)'
      BY <2>1, <2>2, <1>2 DEF Given, Granted, CondGranted
    <3>4. QED
      BY <3>2, <3>3, <2>1, <2>4, <2>6, <1>1, <1>2, <1>3, <1>5 DEF PlainInv, InWaitLoop
  <2>9. QED
    BY <2>5, <2>7, <2>8, PassInv
<1>6. CASE /\ NextIsAgain /\ CondAgain(t, c)
           /\ UNCHANGED <<owner, sq, csq, run, cancelSleep, count>>
  <2>1. /\ Told(t) /\ pc'[t] = "again" /\ call'[t] = c
        /\ stopped' = stopped \union {t}
    BY <1>0, <1>2, <1>6, AgainStep DEF Known
  <2>2. Local(t)
    BY <2>1, <1>0, <1>1, <1>6, SMT DEF Known, Local
  <2>3. ThreadInv(t)'
    <3>1. LoadInv(t)'
      BY <1>1, <1>3 DEF LoadInv
    <3>2. QED
      BY <3>1, <2>1, <1>1, <1>4, <1>6 DEF ThreadInv, InCallback, InWaitLoop, Waits, Leaving
  <2>4. Savestates # FALSE
    BY <1>6, NextAgain
  <2>5. QED
    BY <2>2, <2>3, <2>4, LocalInv
<1>7. QED
  BY <1>5, <1>6 DEF CondWait, c

\* A system call that ends and leaves the mutex as it is to the thread.
LEMMA BackThread ==
  ASSUME IndInv, NEW t \in Threads, pc[t] \in {"idle", "again"}, t \notin stopped, loading = {},
         pc'[t] = "idle", call'[t].name = "none",
         Savestates = FALSE => held'[t] = held[t],
         owner' = t <=> owner = t, owner = t => lock_count' = lock_count,
         t \notin Queued(sq'), t \notin Queued(csq'), run'[t] = run[t],
         UNCHANGED <<signal, stopped, loading, cancelSleep>>
  PROVE  ThreadInv(t)' /\ (Savestates = FALSE => PlainInv(t)')
<1>0. Known(t)
  BY Own
<1>1. /\ ~Waits(t) /\ t \notin signal /\ run[t] = "running" /\ t \notin cancelSleep
      /\ Savestates = FALSE => pc[t] = "idle" /\ call[t].name = "none" /\ t \notin loading
  BY EnterFacts
<1>2. ThreadInv(t)'
  <2>1. LoadInv(t)'
    BY DEF LoadInv
  <2>2. QED
    BY <2>1, <1>1 DEF ThreadInv, InCallback, InWaitLoop, Waits
<1>3. ASSUME Savestates = FALSE PROVE PlainInv(t)'
  <2>1. ~InWaitLoop(t)' /\ ~Given(t)' /\ ~Given(t)
    BY <1>1, <1>3 DEF InWaitLoop, Given, Granted, CondGranted, CondWaiting
  <2>2. /\ owner = t <=> held[t] > 0
        /\ owner = t => lock_count + 1 = held[t]
    BY <2>1, <1>0, <1>1, <1>3 DEF Known, PlainInv
  <2>3. QED
    BY <2>1, <2>2, <1>3 DEF PlainInv, CondWaiting
<1>4. QED
  BY <1>2, <1>3

\* sys_cond_wait by a thread that does not own the mutex.
LEMMA CondWaitPermInv ==
  ASSUME IndInv, NEW t \in Threads, CondWaitPerm(t)
  PROVE  IndInv'
<1>0. Known(t)
  BY Own
<1>1. /\ pc[t] = "again" /\ t \notin stopped /\ loading = {} /\ Return(t, 0) /\ 0 \in Nat
      /\ count' = [count EXCEPT ![t] = 0]
      /\ UNCHANGED <<exists, owner, lock_count, sq, run, signal, stopped, loading, cancelSleep,
                     condExists, csq, sstate>>
  BY DEF CondWaitPerm, CanEnter, threadVars
<1>2. Told(t) /\ pc'[t] = "idle" /\ call'[t].name = "none"
  BY <1>0, <1>1, ReturnStep DEF Known
<1>3. Local(t)
  BY <1>0, <1>1, <1>2, SMT DEF Known, Local
<1>4. Savestates # FALSE
  BY <1>0, <1>1 DEF Known, PlainInv
<1>5. ~Waits(t) /\ t \notin signal /\ run[t] = "running" /\ t \notin cancelSleep
  BY <1>1, EnterFacts
<1>6. ThreadInv(t)'
  <2>1. LoadInv(t)'
    BY <1>1 DEF LoadInv
  <2>2. QED
    BY <2>1, <1>1, <1>2, <1>5 DEF ThreadInv, InCallback, InWaitLoop, Waits
<1>7. QED
  BY <1>3, <1>4, <1>6, LocalInv

\* Back to sleep after a load, in the queue the thread was in.
LEMMA CondWaitLoadedInv ==
  ASSUME IndInv, NEW t \in Threads, CondWaitLoaded(t)
  PROVE  IndInv'
<1>0. Known(t)
  BY Own
<1>1. /\ pc[t] = "again" /\ call[t].name = "cond_wait" /\ t \notin stopped /\ t \in loading
      /\ run' = sleep(t) /\ loading' = slept(t) /\ sstate' = [sstate EXCEPT ![t] = "none"]
      /\ Continue(t, "wait") /\ "wait" \in Labels
      /\ UNCHANGED <<exists, owner, lock_count, signal, stopped, cancelSleep, condExists, count>>
      /\ \/ sstate[t] = "mutex" /\ sq' = emplace(sq, t) /\ csq' = csq
         \/ sstate[t] # "mutex" /\ csq' = emplace(csq, t) /\ sq' = sq
  BY DEF CondWaitLoaded, CanEnter, Labels, WaitLabels
<1>2. Told(t) /\ pc'[t] = "wait" /\ call'[t] = call[t]
  BY <1>0, <1>1, ContinueStep DEF Known
<1>3. ~Waits(t) /\ t \notin signal /\ t \notin cancelSleep
  BY <1>1, EnterFacts
<1>4. /\ owner # t
      /\ sstate[t] = "mutex" => owner # NoThread
      /\ sstate[t] # "mutex" => condExists
  BY <1>0, <1>1 DEF Known, ThreadInv, LoadInv
<1>5. /\ run' \in [Threads -> RunStates] /\ run'[t] = "asleep"
      /\ \A u \in Threads \ {t} : run'[u] = run[u]
  BY <1>0, <1>1, <1>3 DEF Known, sleep, RunStates
<1>6. /\ loading' = loading \ {t}
      /\ sstate' \in [Threads -> {"none", "cond", "mutex"}]
      /\ \A u \in Threads \ {t} : sstate'[u] = sstate[u]
  BY <1>0, <1>1 DEF Known, slept
<1>7. /\ sq' \in Seq(Threads) /\ csq' \in Seq(Threads) /\ NoDuplicates(sq') /\ NoDuplicates(csq')
      /\ \/ /\ sstate[t] = "mutex" /\ Queued(sq') = Queued(sq) \union {t} /\ csq' = csq
         \/ /\ sstate[t] # "mutex" /\ Queued(csq') = Queued(csq) \union {t} /\ sq' = sq
  <2>1. /\ emplace(sq, t) \in Seq(Threads) /\ NoDuplicates(emplace(sq, t))
        /\ Queued(emplace(sq, t)) = Queued(sq) \union {t}
        /\ emplace(csq, t) \in Seq(Threads) /\ NoDuplicates(emplace(csq, t))
        /\ Queued(emplace(csq, t)) = Queued(csq) \union {t}
    BY <1>3, EmplaceHere
  <2>2. QED
    BY <2>1, <1>0, <1>1 DEF Known, Types, QueueInv, OneQueue
<1>8. PlaceStep(t)
  BY <1>0, <1>1, <1>2, <1>3, <1>4, <1>5, <1>6, <1>7
     DEF Known, QueueInv, WaitersHaveOwner, Waits, PlaceStep
<1>9. ThreadInv(t)'
  <2>1. LoadInv(t)'
    BY <1>1, <1>2, <1>3, <1>5, <1>6 DEF LoadInv, InWaitLoop
  <2>2. QED
    BY <2>1, <1>1, <1>2, <1>3, <1>4, <1>5, <1>7 DEF ThreadInv, InCallback, InWaitLoop, Waits
<1>10. Savestates # FALSE
  BY <1>0, <1>1 DEF Known, PlainInv
<1>11. QED
  BY <1>8, <1>9, <1>10, PlaceInv

-----------------------------------------------------------------------------
(***************************************************************************)
(* The signals.                                                            *)
(***************************************************************************)
\* A signal finds a waiter that left for a savestate.
LEMMA CondAgainInv ==
  ASSUME IndInv, NEW t \in Threads, NEW c \in Calls, c.name # "none",
         NEW u \in Threads, pc[u] = "again",
         Enters(t, c), CondAgain(t, c),
         c.name \notin {"lock", "cond_wait"},
         UNCHANGED <<exists, condExists, owner, lock_count, sq, csq, run, signal, loading,
                     cancelSleep, count, sstate>>
  PROVE  IndInv'
<1>0. Known(t)
  BY Own
<1>1. pc[t] \in {"idle", "again"} /\ t \notin stopped /\ loading = {}
  BY EnterLoading
<1>2. ~Waits(t) /\ t \notin signal /\ run[t] = "running" /\ t \notin cancelSleep
  BY <1>1, EnterFacts
<1>3. /\ Told(t) /\ pc'[t] = "again" /\ call'[t] = c
      /\ stopped' = stopped \union {t}
  BY <1>0, AgainStep DEF Known
<1>4. Local(t)
  BY <1>0, <1>3 DEF Known, Local
<1>5. ThreadInv(t)'
  <2>1. LoadInv(t)'
    BY <1>1 DEF LoadInv
  <2>2. QED
    BY <2>1, <1>2, <1>3 DEF ThreadInv, InCallback, InWaitLoop, Waits, Leaving
<1>6. Savestates # FALSE
  BY DEF IndInv, ThreadsInv, PlainInv
<1>7. QED
  BY <1>4, <1>5, <1>6, LocalInv

\* The waiters in S leave the queue of the condition variable; o is the one
\* that owns the mutex now, if it was free.
SignalStep(t, S, o) ==
  /\ Told(t)
  /\ loading = {} /\ condExists
  /\ pc[t] \in {"idle", "again"} /\ t \notin stopped
  /\ pc'[t] = "idle" /\ call'[t].name = "none" /\ held'[t] = held[t]
  /\ S \subseteq Queued(csq) /\ \A u \in S : pc[u] # "again"
  /\ csq' \in Seq(Threads) /\ NoDuplicates(csq') /\ Queued(csq') = Queued(csq) \ S
  /\ sq' \in Seq(Threads) /\ NoDuplicates(sq')
  /\ \/ /\ owner # NoThread /\ owner' = owner /\ run' = run
        /\ Queued(sq') = Queued(sq) \union S
     \/ /\ owner = NoThread /\ owner' = o /\ o \in S /\ run' = awake({o})
        /\ Queued(sq') = Queued(sq) \union (S \ {o})
  /\ UNCHANGED <<exists, condExists, lock_count, signal, stopped, loading, cancelSleep, count, sstate>>

\* Every signal, whichever threads it moves or hands the mutex to.
LEMMA SignalStepInv ==
  ASSUME IndInv, NEW t \in Threads, NEW S, NEW o, SignalStep(t, S, o)
  PROVE  IndInv'
<1>1. Types /\ QueueInv /\ FreeInv /\ run \in [Threads -> RunStates]
  BY DEF IndInv, Types, ThreadsTypeOK
<1>2. Queued(sq) \subseteq Threads /\ Queued(csq) \subseteq Threads /\ Queued(csq') \subseteq Threads
      /\ Queued(sq') \subseteq Threads /\ NoThread \notin Threads
  <2>1. sq \in Seq(Threads) /\ csq \in Seq(Threads) /\ sq' \in Seq(Threads) /\ csq' \in Seq(Threads)
    BY <1>1 DEF Types, SignalStep
  <2>2. QED
    BY <2>1, Constants, SMT DEF Queued
<1>3. ~Waits(t)
  BY EnterFacts DEF SignalStep
<1>4. owner \notin Queued(sq) /\ owner \notin Queued(csq) /\ Queued(sq) \intersect Queued(csq) = {}
  BY <1>1 DEF QueueInv, OneQueue, Waits
<1>5. Types'
  <2>1. run' \in [Threads -> RunStates]
    BY <1>1 DEF SignalStep, awake, RunStates
  <2>2. owner' \in Threads \union {NoThread}
    BY <1>1, <1>2 DEF Types, SignalStep
  <2>3. QED
    BY <2>1, <2>2, <1>1 DEF Types, ThreadsTypeOK, SignalStep, Told
<1>6. QueueInv'
  <2>1. Queued(sq') \intersect Queued(csq') = {}
    BY <1>4 DEF SignalStep
  <2>2. owner' \notin Queued(sq') /\ owner' \notin Queued(csq')
    BY <1>4 DEF SignalStep
  <2>3. owner' # NoThread
    BY <1>2 DEF SignalStep
  <2>4. exists
    BY <1>1 DEF QueueInv, SignalStep
  <2>5. QED
    BY <2>1, <2>2, <2>3, <2>4 DEF QueueInv, OneQueue, WaitersHaveOwner, Waits, SignalStep
<1>7. FreeInv'
  BY <1>1, <1>2 DEF FreeInv, SignalStep
<1>8. Quiet
  BY DEF Quiet, SignalStep
<1>9. ASSUME NEW u \in Threads \ {t} PROVE Same(u) \/ Moved(u) \/ Handed(u)
  <2>1. Frame(u) /\ (u \in cancelSleep' <=> u \in cancelSleep) /\ lock_count' = lock_count
    BY DEF Frame, SignalStep, Told
  <2>2. CASE u \notin S
    <3>1. /\ u \in Queued(sq') <=> u \in Queued(sq)
          /\ u \in Queued(csq') <=> u \in Queued(csq)
          /\ owner' = u <=> owner = u
          /\ run'[u] = run[u]
      BY <2>2, <1>2 DEF SignalStep, awake
    <3>2. Same(u)
      BY <2>1, <3>1 DEF Same
    <3>3. QED
      BY <3>2
  <2>3. CASE u \in S /\ owner' # u
    <3>1. /\ u \in Queued(csq) /\ u \notin Queued(csq') /\ u \in Queued(sq') /\ pc[u] # "again"
          /\ owner # u /\ run'[u] = run[u]
      BY <2>3, <1>2, <1>4 DEF SignalStep, awake
    <3>2. Moved(u)
      BY <2>1, <2>3, <3>1 DEF Moved
    <3>3. QED
      BY <3>2
  <2>4. CASE u \in S /\ owner' = u
    <3>1. /\ u \in Queued(csq) /\ u \notin Queued(csq') /\ u \notin Queued(sq') /\ pc[u] # "again"
          /\ owner = NoThread /\ owner # u
          /\ run'[u] = IF run[u] = "asleep" THEN "ready" ELSE run[u]
      BY <2>4, <1>2, <1>4 DEF SignalStep, awake
    <3>2. pc[u] # "lock_sleep"
      BY <3>1 DEF IndInv, ThreadsInv, ThreadInv
    <3>3. Savestates = FALSE => lock_count' = 0
      BY <3>1, <2>1, <1>1 DEF FreeInv
    <3>4. Handed(u)
      BY <2>1, <2>4, <3>1, <3>2, <3>3 DEF Handed, Waits
    <3>5. QED
      BY <3>4
  <2>5. QED
    BY <2>2, <2>3, <2>4
<1>10. ThreadInv(t)' /\ (Savestates = FALSE => PlainInv(t)')
  <2>1. t \notin S /\ t \notin Queued(sq') /\ t \notin Queued(csq')
    BY <1>3 DEF Waits, SignalStep
  <2>2. run'[t] = run[t] /\ (owner' = t <=> owner = t)
    BY <2>1, <1>2 DEF SignalStep, awake
  <2>3. /\ pc[t] \in {"idle", "again"} /\ t \notin stopped /\ loading = {}
        /\ pc'[t] = "idle" /\ call'[t].name = "none" /\ held'[t] = held[t]
        /\ UNCHANGED <<lock_count, signal, stopped, loading, cancelSleep>>
    BY DEF SignalStep
  <2>4. QED
    BY <2>1, <2>2, <2>3, BackThread
<1>11. QED
  BY <1>5, <1>6, <1>7, <1>8, <1>9, <1>10, StepInv

\* try_own for one waiter of the condition variable
LEMMA GiveStep ==
  ASSUME IndInv, NEW t \in Threads, NEW c \in Calls, c.name \notin {"lock", "cond_wait"},
         CondEnters(t, c), NEW u \in Queued(csq), pc[u] # "again",
         GiveMutex(u, emplace(sq, u)), Return(t, held[t]),
         csq' \in Seq(Threads), NoDuplicates(csq'), Queued(csq') = Queued(csq) \ {u},
         UNCHANGED <<exists, condExists, lock_count, signal, stopped, loading, cancelSleep, count, sstate>>
  PROVE  IndInv'
<1>0. Known(t)
  BY Own
<1>1. /\ pc[t] \in {"idle", "again"} /\ t \notin stopped /\ loading = {} /\ condExists
  BY EnterLoading DEF CondEnters
<1>2. Told(t) /\ pc'[t] = "idle" /\ call'[t].name = "none" /\ held'[t] = held[t]
  BY <1>0, ReturnStep DEF Known
<1>3. /\ u \in Threads /\ u \notin Queued(sq) /\ sq \in Seq(Threads) /\ NoDuplicates(sq)
  <2>1. csq \in Seq(Threads) /\ sq \in Seq(Threads)
    BY DEF IndInv, Types
  <2>2. u \in Threads
    BY <2>1, SMT DEF Queued
  <2>3. NoDuplicates(sq) /\ Queued(sq) \intersect Queued(csq) = {}
    BY DEF IndInv, QueueInv, OneQueue
  <2>4. QED
    BY <2>1, <2>2, <2>3
<1>4. /\ emplace(sq, u) \in Seq(Threads) /\ NoDuplicates(emplace(sq, u))
      /\ Queued(emplace(sq, u)) = Queued(sq) \union {u}
  BY <1>3, EmplaceQueue
<1>5. /\ sq' \in Seq(Threads) /\ NoDuplicates(sq')
      /\ \/ /\ owner # NoThread /\ owner' = owner /\ run' = run
            /\ Queued(sq') = Queued(sq) \union {u}
         \/ /\ owner = NoThread /\ owner' = u /\ run' = awake({u})
            /\ Queued(sq') = Queued(sq) \union ({u} \ {u})
  BY <1>3, <1>4 DEF GiveMutex
<1>6. SignalStep(t, {u}, u)
  BY <1>1, <1>2, <1>5 DEF SignalStep
<1>7. QED
  BY <1>6, SignalStepInv

\* sys_cond_signal.
LEMMA CondSignalInv ==
  ASSUME IndInv, NEW t \in Threads, CondSignal(t)
  PROVE  IndInv'
<1> DEFINE c == Call("cond_signal", FALSE)
<1>1. c \in Calls /\ c.name \notin {"none", "lock", "cond_wait"}
  <2>1. "cond_signal" \in {"none", "lock", "unlock"} \union CondCalls /\ FALSE \in BOOLEAN
    BY DEF CondCalls
  <2>2. c \in Calls /\ c.name = "cond_signal"
    BY <2>1, CallValues
  <2>3. QED
    BY <2>2
<1>2. csq \in Seq(Threads) /\ NoDuplicates(csq) /\ csq # <<>>
  BY DEF IndInv, Types, QueueInv, OneQueue, CondSignal
<1>3. PICK i \in DOMAIN csq : i = schedule(csq)
  BY <1>2, ScheduleInQueue, SMT
<1>4. /\ csq[i] \in Queued(csq) /\ csq[i] \in Threads
      /\ Unlink(csq, i) \in Seq(Threads) /\ NoDuplicates(Unlink(csq, i))
      /\ Queued(Unlink(csq, i)) = Queued(csq) \ {csq[i]}
  <2>1. csq[i] \in Queued(csq)
    BY DEF Queued
  <2>2. QED
    BY <2>1, <1>2, <1>3, UnlinkQueue, SMT
<1>5. /\ CondEnters(t, c) /\ Enters(t, c)
      /\ \/ /\ pc[csq[i]] # "again" /\ csq' = Unlink(csq, i)
            /\ GiveMutex(csq[i], emplace(sq, csq[i])) /\ Return(t, held[t]) /\ UNCHANGED stopped
         \/ /\ pc[csq[i]] = "again" /\ CondAgain(t, c) /\ UNCHANGED <<owner, sq, csq, run>>
      /\ UNCHANGED <<exists, condExists, lock_count, signal, loading, cancelSleep, count, sstate>>
  BY <1>3 DEF CondSignal, CondEnters
<1> HIDE DEF c
<1>6. PICK u \in Queued(csq) : u = csq[i] /\ u \in Threads
  BY <1>4
<1>7. CASE pc[u] = "again"
  <2>1. CondAgain(t, c) /\ UNCHANGED <<owner, sq, csq, run>>
    BY <1>5, <1>6, <1>7
  <2>2. QED
    BY <2>1, <1>1, <1>5, <1>6, <1>7, CondAgainInv
<1>8. CASE pc[u] # "again"
  <2>1. /\ csq' \in Seq(Threads) /\ NoDuplicates(csq') /\ Queued(csq') = Queued(csq) \ {u}
        /\ GiveMutex(u, emplace(sq, u)) /\ Return(t, held[t]) /\ UNCHANGED stopped
    BY <1>4, <1>5, <1>6, <1>8
  <2>2. QED
    BY <2>1, <1>1, <1>5, <1>8, GiveStep
<1>9. QED
  BY <1>7, <1>8

\* sys_cond_signal_to a thread that waits.
LEMMA CondSignalToInv ==
  ASSUME IndInv, NEW t \in Threads, NEW v \in Threads, CondSignalTo(t, v)
  PROVE  IndInv'
<1> DEFINE c == Call("cond_signal_to", FALSE)
<1>1. c \in Calls /\ c.name \notin {"none", "lock", "cond_wait"}
  <2>1. "cond_signal_to" \in {"none", "lock", "unlock"} \union CondCalls /\ FALSE \in BOOLEAN
    BY DEF CondCalls
  <2>2. c \in Calls /\ c.name = "cond_signal_to"
    BY <2>1, CallValues
  <2>3. QED
    BY <2>2
<1>2. csq \in Seq(Threads) /\ NoDuplicates(csq)
  BY DEF IndInv, Types, QueueInv, OneQueue
<1>3. PICK u \in Queued(csq) : u = v /\ u \in Threads
  BY DEF CondSignalTo
<1>4. /\ unqueue(csq, u) \in Seq(Threads) /\ NoDuplicates(unqueue(csq, u))
      /\ Queued(unqueue(csq, u)) = Queued(csq) \ {u}
  BY <1>2, <1>3, UnqueueQueue
<1>5. /\ CondEnters(t, c) /\ Enters(t, c)
      /\ \/ /\ pc[u] # "again" /\ csq' = unqueue(csq, u)
            /\ GiveMutex(u, emplace(sq, u)) /\ Return(t, held[t]) /\ UNCHANGED stopped
         \/ /\ pc[u] = "again" /\ CondAgain(t, c) /\ UNCHANGED <<owner, sq, csq, run>>
      /\ UNCHANGED <<exists, condExists, lock_count, signal, loading, cancelSleep, count, sstate>>
  BY <1>3 DEF CondSignalTo, CondEnters
<1> HIDE DEF c
<1>6. CASE pc[u] = "again"
  <2>1. CondAgain(t, c) /\ UNCHANGED <<owner, sq, csq, run>>
    BY <1>5, <1>6
  <2>2. QED
    BY <2>1, <1>1, <1>3, <1>5, <1>6, CondAgainInv
<1>7. CASE pc[u] # "again"
  <2>1. /\ csq' \in Seq(Threads) /\ NoDuplicates(csq') /\ Queued(csq') = Queued(csq) \ {u}
        /\ GiveMutex(u, emplace(sq, u)) /\ Return(t, held[t]) /\ UNCHANGED stopped
    BY <1>4, <1>5, <1>7
  <2>2. QED
    BY <2>1, <1>1, <1>5, <1>7, GiveStep
<1>8. QED
  BY <1>6, <1>7

\* A signal that is repeated after a load and finds nobody to wake.
LEMMA CondSignalNobodyInv ==
  ASSUME IndInv, NEW t \in Threads, CondSignalNobody(t)
  PROVE  IndInv'
<1>0. Known(t)
  BY Own
<1>1. /\ pc[t] = "again" /\ t \notin stopped /\ loading = {} /\ Return(t, held[t])
      /\ UNCHANGED <<exists, owner, lock_count, sq, run, signal, stopped, loading, cancelSleep,
                     condExists, csq, count, sstate>>
  <2>1. call[t].name \in {"cond_signal", "cond_signal_all", "cond_signal_to"}
    BY DEF CondSignalNobody, CondCalls
  <2>2. t \notin loading
    BY <2>1, <1>0 DEF Known, ThreadInv, LoadInv
  <2>3. QED
    BY <2>2 DEF CondSignalNobody, CanEnter, threadVars, condOnly
<1>2. Told(t) /\ pc'[t] = "idle" /\ call'[t].name = "none" /\ held'[t] = held[t]
  BY <1>0, <1>1, ReturnStep DEF Known
<1>3. Local(t)
  BY <1>0, <1>1, <1>2 DEF Known, Local
<1>4. ~Waits(t)
  BY <1>1, EnterFacts
<1>5. t \notin Queued(sq') /\ t \notin Queued(csq') /\ pc[t] \in {"idle", "again"}
      /\ run'[t] = run[t] /\ (owner' = t <=> owner = t) /\ lock_count' = lock_count
  BY <1>1, <1>4 DEF Waits
<1>6. ThreadInv(t)' /\ (Savestates = FALSE => PlainInv(t)')
  BY <1>1, <1>2, <1>5, BackThread
<1>7. QED
  BY <1>3, <1>6, LocalInv

\* The waiters sorted by priority.
LEMMA SortedQueue ==
  ASSUME NEW q \in Seq(Threads), NEW s \in ByPriority(q)
  PROVE  s \in Seq(Threads) /\ Len(s) = Len(q) /\ NoDuplicates(s) /\ Queued(s) = Queued(q)
<1>1. Len(q) \in Nat /\ DOMAIN q = 1 .. Len(q)
  BY SMT
<1>2. s \in [1 .. Len(q) -> Queued(q)] /\ Queued(s) = Queued(q)
  BY <1>1 DEF ByPriority
<1>3. Queued(q) \subseteq Threads
  BY SMT DEF Queued
<1>4. s \in Seq(Threads) /\ Len(s) = Len(q) /\ DOMAIN s = 1 .. Len(q)
  <2>1. s \in [1 .. Len(q) -> Threads]
    BY <1>2, <1>3
  <2>2. QED
    BY <2>1, <1>1, SMT
<1>5. ASSUME NEW i \in 1 .. Len(q), NEW j \in 1 .. Len(q), i < j PROVE s[i] # s[j]
  <2>1. SUFFICES ASSUME s[i] = s[j] PROVE FALSE
    OBVIOUS
  <2> DEFINE a(k) == CHOOSE n \in DOMAIN q : q[n] = s[k]
  <2>2. Prio[s[i]] < Prio[s[j]] \/ (Prio[s[i]] = Prio[s[j]] /\ a(i) < a(j))
    BY <1>1, <1>5, SMT DEF ByPriority
  <2>3. a(i) = a(j)
    BY <2>1
  <2>4. s[i] \in Queued(q)
    BY <1>2
  <2>5. a(i) \in DOMAIN q
    BY <2>4 DEF Queued
  <2>6. a(i) \in Int
    BY <2>5, <1>1, SMT
  <2>7. s[i] \in Threads /\ Prio[s[i]] \in Int
    BY <2>4, <1>3, Lv2Assumption DEF Lv2Assumption
  <2> HIDE DEF a
  <2>8. QED
    BY <2>1, <2>2, <2>3, <2>6, <2>7, SMT
<1>6. NoDuplicates(s)
  BY <1>1, <1>4, <1>5, SMT DEF NoDuplicates
<1>7. QED
  BY <1>2, <1>4, <1>6

\* sys_cond_signal_all.
LEMMA CondSignalAllInv ==
  ASSUME IndInv, NEW t \in Threads, CondSignalAll(t)
  PROVE  IndInv'
<1> DEFINE c == Call("cond_signal_all", FALSE)
<1>0. Known(t)
  BY Own
<1>1. c \in Calls /\ c.name \notin {"none", "lock", "cond_wait"}
  <2>1. "cond_signal_all" \in {"none", "lock", "unlock"} \union CondCalls /\ FALSE \in BOOLEAN
    BY DEF CondCalls
  <2>2. c \in Calls /\ c.name = "cond_signal_all"
    BY <2>1, CallValues
  <2>3. QED
    BY <2>2
<1>2. /\ sq \in Seq(Threads) /\ csq \in Seq(Threads) /\ NoDuplicates(sq)
      /\ Queued(sq) \intersect Queued(csq) = {}
      /\ owner = NoThread => sq = <<>>
  BY <1>0 DEF Known, Types, QueueInv, OneQueue, WaitersHaveOwner
<1>3. /\ CondEnters(t, c) /\ Enters(t, c) /\ condExists /\ csq # <<>>
      /\ UNCHANGED <<exists, condExists, lock_count, signal, loading, cancelSleep, count, sstate>>
  BY DEF CondSignalAll, CondEnters
<1>4. CASE /\ \A u \in Queued(csq) : pc[u] # "again"
           /\ csq' = <<>>
           /\ \E s \in ByPriority(csq) :
                IF owner = NoThread
                THEN owner' = s[1] /\ run' = awake({s[1]}) /\ sq' = sq \o Tail(s)
                ELSE sq' = sq \o s /\ UNCHANGED <<owner, run>>
           /\ Return(t, held[t]) /\ UNCHANGED stopped
  <2>1. PICK s \in ByPriority(csq) :
          IF owner = NoThread
          THEN owner' = s[1] /\ run' = awake({s[1]}) /\ sq' = sq \o Tail(s)
          ELSE sq' = sq \o s /\ UNCHANGED <<owner, run>>
    BY <1>4
  <2>2. s \in Seq(Threads) /\ Len(s) = Len(csq) /\ NoDuplicates(s) /\ Queued(s) = Queued(csq)
    BY <1>2, SortedQueue
  <2>3. s # <<>>
    BY <2>2, <1>2, <1>3, SMT
  <2>4. /\ s[1] \in Queued(s) /\ Tail(s) \in Seq(Threads) /\ NoDuplicates(Tail(s))
        /\ Queued(Tail(s)) = Queued(s) \ {s[1]}
    BY <2>2, <2>3, TailQueue
  <2>5. /\ sq \o s \in Seq(Threads) /\ NoDuplicates(sq \o s)
        /\ Queued(sq \o s) = Queued(sq) \union Queued(s)
    <3>1. Queued(sq) \intersect Queued(s) = {}
      BY <2>2, <1>2
    <3>2. QED
      BY <3>1, <2>2, <1>2, ConcatQueue
  <2>6. /\ sq \o Tail(s) \in Seq(Threads) /\ NoDuplicates(sq \o Tail(s))
        /\ Queued(sq \o Tail(s)) = Queued(sq) \union Queued(Tail(s))
    <3>1. Queued(sq) \intersect Queued(Tail(s)) = {}
      BY <2>2, <2>4, <1>2
    <3>2. QED
      BY <3>1, <2>4, <1>2, ConcatQueue
  <2>7. pc[t] \in {"idle", "again"} /\ t \notin stopped /\ loading = {}
    BY <1>1, <1>3, EnterLoading
  <2>8. Told(t) /\ pc'[t] = "idle" /\ call'[t].name = "none" /\ held'[t] = held[t]
    BY <1>0, <1>4, ReturnStep DEF Known
  <2>9. csq' \in Seq(Threads) /\ NoDuplicates(csq') /\ Queued(csq') = Queued(csq) \ Queued(csq)
    BY <1>4, SMT DEF NoDuplicates, Queued
  <2>10. /\ sq' \in Seq(Threads) /\ NoDuplicates(sq')
         /\ \/ /\ owner # NoThread /\ owner' = owner /\ run' = run
               /\ Queued(sq') = Queued(sq) \union Queued(csq)
            \/ /\ owner = NoThread /\ owner' = s[1] /\ s[1] \in Queued(csq) /\ run' = awake({s[1]})
               /\ Queued(sq') = Queued(sq) \union (Queued(csq) \ {s[1]})
    BY <2>1, <2>2, <2>4, <2>5, <2>6
  <2>11. SignalStep(t, Queued(csq), s[1])
    BY <2>7, <2>8, <2>9, <2>10, <1>3, <1>4 DEF SignalStep
  <2>12. QED
    BY <2>11, SignalStepInv
<1>5. CASE /\ \E u \in Queued(csq) : pc[u] = "again"
           /\ CondAgain(t, c) /\ UNCHANGED <<owner, sq, csq, run>>
  <2>1. Queued(csq) \subseteq Threads
    BY <1>2, SMT DEF Queued
  <2>2. PICK u \in Threads : pc[u] = "again"
    BY <2>1, <1>5
  <2> HIDE DEF c
  <2>3. QED
    BY <2>2, <1>1, <1>3, <1>5, CondAgainInv
<1>6. QED
  BY <1>4, <1>5 DEF CondSignalAll

-----------------------------------------------------------------------------
(***************************************************************************)
(* The end of a timeout in sys_cond_wait.                                  *)
(***************************************************************************)
\* The thread leaves the queue of the condition variable as the owner.
LeaveStep(t) ==
  /\ Told(t)
  /\ owner \in {t, NoThread} /\ owner' = t /\ exists /\ loading = {}
  /\ lock_count' \in 0 .. MaxCount
  /\ count' \in [Threads -> 0 .. MaxCount]
  /\ t \notin Queued(sq)
  /\ csq' \in Seq(Threads) /\ NoDuplicates(csq') /\ Queued(csq') = Queued(csq) \ {t}
  /\ csq' # <<>> => condExists
  /\ \A u \in Threads \ {t} : count'[u] = count[u]
  /\ UNCHANGED <<exists, condExists, sq, run, signal, stopped, loading, cancelSleep, sstate>>

\* For such a step it is enough to look at the thread.
LEMMA LeaveInv ==
  ASSUME IndInv, NEW t \in Threads, LeaveStep(t), ThreadInv(t)', Savestates = FALSE => PlainInv(t)'
  PROVE  IndInv'
<1>1. Types'
  BY DEF IndInv, Types, ThreadsTypeOK, LeaveStep, Told
<1>2. QueueInv'
  <2>1. Queued(sq) \intersect Queued(csq') = {} /\ NoDuplicates(sq)
    BY DEF IndInv, QueueInv, OneQueue, LeaveStep
  <2>2. owner' \notin Queued(sq') /\ owner' \notin Queued(csq') /\ owner' # NoThread
    BY Constants DEF LeaveStep
  <2>3. QED
    BY <2>1, <2>2 DEF QueueInv, OneQueue, WaitersHaveOwner, Waits, LeaveStep
<1>3. FreeInv'
  BY Constants DEF FreeInv, LeaveStep
<1>4. Quiet
  BY DEF Quiet, LeaveStep
<1>5. \A u \in Threads \ {t} : Same(u)
  BY Constants DEF Same, Frame, LeaveStep, Told
<1>6. QED
  BY <1>1, <1>2, <1>3, <1>4, <1>5, StepInv

\* The end of the timeout of sys_cond_wait.
LEMMA CondRecheckInv ==
  ASSUME IndInv, NEW t \in Threads, CondRecheck(t)
  PROVE  IndInv'
<1>0. Known(t)
  BY Own
<1>1. /\ call[t].name = "cond_wait" /\ pc[t] = "recheck" /\ csq' = Cancelled(t)
      /\ UNCHANGED <<exists, signal, stopped, loading, cancelSleep, condExists, sstate>>
  BY DEF CondRecheck
<1>2. /\ t \notin signal /\ run[t] = "running" /\ t \notin cancelSleep /\ loading = {}
  BY <1>0, <1>1 DEF Known, ThreadInv, LoadInv, InWaitLoop
<1>3. /\ sq \in Seq(Threads) /\ csq \in Seq(Threads) /\ NoDuplicates(sq) /\ NoDuplicates(csq)
      /\ Queued(sq) \intersect Queued(csq) = {}
      /\ owner \notin Queued(sq) /\ owner \notin Queued(csq)
      /\ owner # NoThread \/ condExists => exists
      /\ csq # <<>> => condExists
      /\ sq # <<>> => owner # NoThread
  BY <1>0 DEF Known, Types, QueueInv, OneQueue, WaitersHaveOwner, Waits
<1>4. /\ csq' \in Seq(Threads) /\ NoDuplicates(csq') /\ Queued(csq') = Queued(csq) \ {t}
      /\ csq = <<>> => csq' = <<>>
      /\ t \in Queued(csq) => csq # <<>>
  <2>1. csq = <<>> => Queued(csq) = {}
    BY SMT DEF Queued
  <2>2. CASE t \in Queued(csq)
    <3>1. csq' = unqueue(csq, t)
      BY <2>2, <1>1 DEF Cancelled
    <3>2. QED
      BY <2>1, <2>2, <3>1, <1>3, UnqueueQueue, SMT
  <2>3. CASE t \notin Queued(csq)
    <3>1. csq' = csq
      BY <2>3, <1>1 DEF Cancelled
    <3>2. QED
      BY <2>3, <3>1, <1>3
  <2>4. QED
    BY <2>2, <2>3
<1>5. CASE /\ OwnsOrFree(t) /\ owner' = t /\ lock_count' = Restored(t)
           /\ count' = [count EXCEPT ![t] = 0] /\ Return(t, held[t]) /\ UNCHANGED <<sq, run>>
  <2>1. Told(t) /\ pc'[t] = "idle" /\ call'[t].name = "none" /\ held'[t] = held[t]
    BY <1>0, <1>5, ReturnStep DEF Known
  <2>2. owner \in {t, NoThread} /\ t \notin Queued(sq) /\ exists
    <3>1. CASE t \in Queued(csq)
      BY <3>1, <1>3, <1>4, <1>5 DEF OwnsOrFree
    <3>2. CASE t \notin Queued(csq)
      BY <3>2, <1>3, <1>5, Constants DEF OwnsOrFree
    <3>3. QED
      BY <3>1, <3>2
  <2>3. /\ lock_count' = count[t] /\ lock_count' \in 0 .. MaxCount
        /\ count' \in [Threads -> 0 .. MaxCount] /\ \A u \in Threads \ {t} : count'[u] = count[u]
    BY <1>0, <1>5, SMT DEF Known, Restored
  <2>4. LeaveStep(t)
    BY <2>1, <2>2, <2>3, <1>1, <1>2, <1>3, <1>4, <1>5 DEF LeaveStep
  <2>5. ThreadInv(t)'
    <3>1. LoadInv(t)'
      BY <1>1, <1>2 DEF LoadInv
    <3>2. QED
      BY <3>1, <2>1, <2>2, <1>1, <1>2, <1>4, <1>5 DEF ThreadInv, InCallback, InWaitLoop, Waits
  <2>6. ASSUME Savestates = FALSE PROVE PlainInv(t)'
    <3>1. ~InWaitLoop(t)' /\ ~Given(t)'
      BY <2>1 DEF InWaitLoop, Given, Granted, CondGranted, CondWaiting
    <3>2. t \notin stopped /\ t \notin loading /\ count[t] + 1 = held[t]
      BY <2>6, <1>0, <1>1 DEF Known, PlainInv, CondWaiting, InWaitLoop
    <3>3. count[t] \in Nat
      BY <1>0, SMT DEF Known
    <3>4. QED
      BY <3>1, <3>2, <3>3, <2>1, <2>3, <1>1, <1>5, SMT DEF PlainInv, CondWaiting
  <2>7. QED
    BY <2>4, <2>5, <2>6, LeaveInv
<1>6. CASE /\ ~OwnsOrFree(t)
           /\ sq' = IF t \in Queued(csq) THEN emplace(sq, t) ELSE sq
           /\ run' = sleep(t) /\ Begin(t, Call("cond_wait", FALSE), "wait")
           /\ UNCHANGED <<owner, lock_count, count>>
  <2>1. /\ Told(t) /\ pc'[t] = "wait" /\ call'[t].name = "cond_wait" /\ held'[t] = held[t]
    <3>1. "wait" \in Labels /\ "cond_wait" \in {"none", "lock", "unlock"} \union CondCalls
          /\ FALSE \in BOOLEAN
      BY DEF Labels, WaitLabels, CondCalls
    <3>2. Call("cond_wait", FALSE) \in Calls /\ Call("cond_wait", FALSE).name = "cond_wait"
      BY <3>1, CallValues
    <3>3. PICK c \in Calls, l \in Labels : Begin(t, c, l) /\ l = "wait" /\ c.name = "cond_wait"
      BY <3>1, <3>2, <1>6
    <3>4. QED
      BY <3>3, <1>0, BeginStep DEF Known
  <2>2. /\ run' \in [Threads -> RunStates] /\ run'[t] = "asleep"
        /\ \A u \in Threads \ {t} : run'[u] = run[u]
    BY <1>0, <1>2, <1>6 DEF Known, sleep, RunStates
  <2>3. owner # t /\ (t \in Queued(csq) => owner # NoThread)
    BY <1>3, <1>6 DEF OwnsOrFree
  <2>4. /\ sq' \in Seq(Threads) /\ NoDuplicates(sq')
        /\ Queued(sq') = IF t \in Queued(csq) THEN Queued(sq) \union {t} ELSE Queued(sq)
        /\ sq' # <<>> => owner # NoThread
    <3>1. CASE t \in Queued(csq)
      <4>1. t \notin Queued(sq) /\ sq' = emplace(sq, t)
        BY <3>1, <1>3, <1>6
      <4>2. /\ emplace(sq, t) \in Seq(Threads) /\ NoDuplicates(emplace(sq, t))
            /\ Queued(emplace(sq, t)) = Queued(sq) \union {t}
        BY <4>1, <1>3, EmplaceQueue
      <4>3. QED
        BY <4>1, <4>2, <3>1, <2>3
    <3>2. CASE t \notin Queued(csq)
      BY <3>2, <1>3, <1>6
    <3>3. QED
      BY <3>1, <3>2
  <2>5. PlaceStep(t)
    <3>1. sstate' \in [Threads -> {"none", "cond", "mutex"}] /\ loading' \subseteq loading
      BY <1>0, <1>1 DEF Known
    <3>2. /\ t \notin Queued(csq') /\ (owner = t => t \notin Queued(sq'))
          /\ csq' # <<>> => condExists
      BY <2>3, <1>3, <1>4
    <3>3. \A u \in Threads \ {t} : /\ u \in Queued(sq') <=> u \in Queued(sq)
                                 /\ u \in Queued(csq') <=> u \in Queued(csq)
      BY <2>4, <1>4
    <3>4. QED
      BY <3>1, <3>2, <3>3, <2>1, <2>2, <2>4, <1>1, <1>4, <1>6 DEF PlaceStep
  <2>6. ThreadInv(t)'
    <3>1. LoadInv(t)'
      BY <1>1, <1>2 DEF LoadInv
    <3>2. QED
      BY <3>1, <2>1, <2>2, <2>3, <2>4, <1>1, <1>2, <1>4, <1>6
         DEF ThreadInv, InCallback, InWaitLoop, Waits
  <2>7. ASSUME Savestates = FALSE PROVE PlainInv(t)'
    <3>1. CondWaiting(t)' /\ CondWaiting(t) /\ InWaitLoop(t)'
      BY <2>1, <1>1 DEF CondWaiting, InWaitLoop
    <3>2. ~Given(t)
      BY <2>3, <2>7, <1>0 DEF Known, PlainInv
    <3>3. Waits(t)
      BY <3>1, <3>2 DEF Given, CondGranted, Waits
    <3>4. ~Given(t)'
      BY <3>3, <2>1, <2>4 DEF Given, Granted, CondGranted, Waits
    <3>5. t \notin stopped /\ t \notin loading /\ count[t] + 1 = held[t]
      BY <3>1, <2>7, <1>0 DEF Known, PlainInv
    <3>6. QED
      BY <3>1, <3>4, <3>5, <2>1, <2>3, <1>1, <1>6 DEF PlainInv
  <2>8. QED
    BY <2>5, <2>6, <2>7, PlaceInv
<1>7. QED
  BY <1>5, <1>6 DEF CondRecheck

-----------------------------------------------------------------------------
\* The threads are loaded from a savestate.
LEMMA CondLoadInv ==
  ASSUME IndInv, CondLoad
  PROVE  IndInv'
<1>1. /\ stopped = Threads /\ \A u \in Threads : pc[u] \in {"idle", "again"}
      /\ stopped' = {} /\ loading' = {u \in Threads : pc[u] = "again" /\ run[u] = "asleep"}
      /\ run' = [u \in Threads |-> "running"] /\ signal' = {}
      /\ owner' = owner /\ sq' = <<>> /\ csq' = <<>>
      /\ UNCHANGED <<pc, exists, lock_count, call, cancelSleep, held, condExists, count, sstate>>
  BY DEF CondLoad, Load, load, saved
<1>2. Types /\ QueueInv /\ FreeInv
  BY DEF IndInv
<1>3. Types'
  BY <1>1, <1>2, SMT DEF Types, ThreadsTypeOK, RunStates
<1>4. QueueInv'
  BY <1>1, <1>2, SMT DEF QueueInv, OneQueue, WaitersHaveOwner, Waits, Queued, NoDuplicates
<1>5. FreeInv'
  BY <1>1, <1>2 DEF FreeInv
<1>6. ASSUME NEW u \in Threads PROVE ThreadInv(u)' /\ (Savestates = FALSE => PlainInv(u)')
  <2>1. ThreadInv(u) /\ (Savestates = FALSE => PlainInv(u))
    BY DEF IndInv, ThreadsInv
  <2>2. Savestates # FALSE
    BY <1>1, <2>1 DEF PlainInv
  <2>3. u \notin cancelSleep /\ pc[u] \in {"idle", "again"}
    BY <1>1, <2>1 DEF ThreadInv
  <2>4. ~Waits(u)'
    BY <1>1, SMT DEF Waits, Queued
  <2>5. /\ Waits(u) => owner # u
        /\ u \in Queued(sq) => owner # NoThread
        /\ u \in Queued(csq) => condExists
    <3>1. (sq = <<>> => Queued(sq) = {}) /\ (csq = <<>> => Queued(csq) = {})
      BY SMT DEF Queued
    <3>2. QED
      BY <3>1, <1>2 DEF QueueInv, WaitersHaveOwner
  <2>6. LoadInv(u)'
    <3>1. u \in loading' =>
            \/ call[u].name = "lock" /\ u \in Queued(sq)
            \/ call[u].name = "cond_wait" /\ sstate[u] = "mutex" /\ u \in Queued(sq)
            \/ call[u].name = "cond_wait" /\ sstate[u] # "mutex" /\ u \in Queued(csq)
      BY <1>1, <2>1 DEF ThreadInv
    <3>2. u \in loading' => pc[u] = "again"
      BY <1>1
    <3>3. QED
      BY <3>1, <3>2, <2>3, <2>5, <1>1 DEF LoadInv, InWaitLoop, Waits
  <2>7. run'[u] = "running" /\ u \notin signal'
    BY <1>1
  <2>8. ThreadInv(u)'
    BY <2>3, <2>4, <2>6, <2>7, <1>1 DEF ThreadInv, InCallback, InWaitLoop, Waits
  <2>9. QED
    BY <2>2, <2>8
<1>7. QED
  BY <1>3, <1>4, <1>5, <1>6 DEF IndInv, ThreadsInv

\* A new mutex and its condition variable.
LEMMA InitInv == CondInit => IndInv
<1> SUFFICES ASSUME CondInit PROVE IndInv
  OBVIOUS
<1>1. /\ run = [t \in Threads |-> "running"] /\ signal = {} /\ stopped = {} /\ loading = {}
      /\ pc = [t \in Threads |-> "idle"] /\ exists = TRUE /\ condExists = TRUE
      /\ owner = NoThread /\ lock_count = 0 /\ sq = <<>> /\ csq = <<>> /\ cancelSleep = {}
      /\ call = [t \in Threads |-> NoCall] /\ held = [t \in Threads |-> 0]
      /\ count = [t \in Threads |-> 0] /\ sstate = [t \in Threads |-> "none"]
  BY DEF CondInit, Init, ThreadsInit
<1>2. Types
  <2>1. "idle" \in Labels /\ "running" \in RunStates /\ 0 \in 0 .. MaxCount
    BY Constants, SMT DEF Labels, WaitLabels, RunStates
  <2>2. call \in [Threads -> Calls]
    BY <1>1, NoCallValue
  <2>3. QED
    BY <1>1, <2>1, <2>2, SMT DEF Types, ThreadsTypeOK
<1>3. Queued(sq) = {} /\ Queued(csq) = {} /\ NoDuplicates(sq) /\ NoDuplicates(csq)
  BY <1>1, SMT DEF Queued, NoDuplicates
<1>4. QueueInv
  BY <1>1, <1>3 DEF QueueInv, OneQueue, WaitersHaveOwner, Waits
<1>5. FreeInv
  BY <1>1 DEF FreeInv
<1>6. ASSUME NEW t \in Threads PROVE ThreadInv(t) /\ PlainInv(t)
  <2>1. /\ pc[t] = "idle" /\ run[t] = "running" /\ held[t] = 0 /\ call[t].name = "none"
        /\ owner # t
    BY <1>1, NoCallValue, Constants
  <2>2. ThreadInv(t)
    BY <2>1, <1>1, <1>3 DEF ThreadInv, LoadInv, InCallback, InWaitLoop, Waits
  <2>3. ~InWaitLoop(t) /\ ~Given(t)
    BY <2>1 DEF InWaitLoop, Given, Granted, CondGranted, CondWaiting
  <2>4. PlainInv(t)
    BY <2>1, <2>3, <1>1, SMT DEF PlainInv, CondWaiting
  <2>5. QED
    BY <2>2, <2>4
<1>7. QED
  BY <1>2, <1>4, <1>5, <1>6 DEF IndInv, ThreadsInv

\* Nothing happens.
LEMMA StutterInv == IndInv /\ UNCHANGED condVars => IndInv'
<1> SUFFICES ASSUME IndInv, UNCHANGED condVars PROVE IndInv'
  OBVIOUS
<1>1. UNCHANGED <<exists, owner, lock_count, sq, run, signal, stopped, loading, pc, call, cancelSleep,
                  held, condExists, csq, count, sstate>>
  BY DEF condVars, vars, threadVars, condOnly
<1>2. Types' /\ QueueInv' /\ FreeInv'
  BY <1>1 DEF IndInv, Types, ThreadsTypeOK, QueueInv, OneQueue, WaitersHaveOwner, Waits, FreeInv
<1>3. ASSUME NEW u \in Threads PROVE ThreadInv(u)' /\ (Savestates = FALSE => PlainInv(u)')
  <2>1. ThreadInv(u) /\ (Savestates = FALSE => PlainInv(u))
    BY DEF IndInv, ThreadsInv
  <2>2. Same(u) /\ Quiet
    BY <1>1 DEF Same, Frame, Quiet
  <2>3. QED
    BY <2>1, <2>2, SameThread
<1>4. QED
  BY <1>2, <1>3 DEF IndInv, ThreadsInv

\* Every step keeps the invariant.
LEMMA NextInv == IndInv /\ [CondNext]_condVars => IndInv'
<1> SUFFICES ASSUME IndInv, [CondNext]_condVars PROVE IndInv'
  OBVIOUS
<1>1. ASSUME NEW t \in Threads, CondStep(t) PROVE IndInv'
  <2>1. CASE CondWaitSignal(t)
    BY <2>1, SignalInv
  <2>2. CASE CondWaitStopped(t)
    BY <2>2, StoppedInv
  <2>3. CASE CondRecheck(t)
    BY <2>3, CondRecheckInv
  <2>4. CASE Step(t) /\ UNCHANGED condOnly
    <3>1. CASE LockOwn(t)
      BY <2>4, <3>1, LockOwnInv
    <3>2. CASE LockSleep(t)
      BY <2>4, <3>2, LockSleepInv
    <3>3. CASE WaitSignal(t)
      BY <2>4, <3>3, SignalInv
    <3>4. CASE WaitStopped(t)
      BY <2>4, <3>4, StoppedInv
    <3>5. CASE WaitTimeout(t)
      BY <2>4, <3>5, TimeoutInv
    <3>6. CASE CheckState(t)
      BY <2>4, <3>6, CheckStateInv
    <3>7. CASE Recheck(t)
      BY <2>4, <3>7, RecheckInv
    <3>8. CASE UnlockReown(t)
      BY <2>4, <3>8, UnlockReownInv
    <3>9. QED
      BY <2>4, <3>1, <3>2, <3>3, <3>4, <3>5, <3>6, <3>7, <3>8 DEF Step
  <2>5. QED
    BY <1>1, <2>1, <2>2, <2>3, <2>4 DEF CondStep
<1>2. ASSUME NEW t \in Threads, CondEnter(t) PROVE IndInv'
  <2>1. CASE \E timed \in BOOLEAN : CondWait(t, timed)
    BY <2>1, CondWaitInv
  <2>2. CASE CondWaitPerm(t)
    BY <2>2, CondWaitPermInv
  <2>3. CASE CondWaitLoaded(t)
    BY <2>3, CondWaitLoadedInv
  <2>4. CASE CondSignal(t)
    BY <2>4, CondSignalInv
  <2>5. CASE CondSignalAll(t)
    BY <2>5, CondSignalAllInv
  <2>6. CASE \E u \in Threads : CondSignalTo(t, u)
    BY <2>6, CondSignalToInv
  <2>7. CASE CondSignalNobody(t)
    BY <2>7, CondSignalNobodyInv
  <2>8. CASE CondDestroy(t) \/ CondCreate(t)
    BY <2>8, ObjectInv
  <2>9. QED
    BY <1>2, <2>1, <2>2, <2>3, <2>4, <2>5, <2>6, <2>7, <2>8 DEF CondEnter
<1>3. ASSUME NEW t \in Threads, MutexEnter(t) \/ Schedule(t) \/ Stop(t), UNCHANGED condOnly
      PROVE  IndInv'
  <2>1. CASE \E timed \in BOOLEAN : Lock(t, timed)
    BY <2>1, <1>3, LockInv
  <2>2. CASE TryLock(t)
    BY <2>2, <1>3, TryLockInv
  <2>3. CASE Unlock(t)
    BY <2>3, <1>3, UnlockInv
  <2>4. CASE ~condExists /\ Destroy(t)
    BY <2>4, <1>3, ObjectInv
  <2>5. CASE Create(t)
    BY <2>5, <1>3, ObjectInv
  <2>6. CASE Schedule(t)
    BY <2>6, <1>3, ScheduleInv
  <2>7. CASE Stop(t)
    BY <2>7, <1>3, StopInv
  <2>8. QED
    BY <1>3, <2>1, <2>2, <2>3, <2>4, <2>5, <2>6, <2>7 DEF MutexEnter
<1>4. CASE CondLoad
  BY <1>4, CondLoadInv
<1>5. CASE UNCHANGED condVars
  BY <1>5, StutterInv
<1>6. QED
  BY <1>1, <1>2, <1>3, <1>4, <1>5 DEF CondNext

-----------------------------------------------------------------------------
(***************************************************************************)
(* Every step of the threads, of the scheduler and of a savestate keeps    *)
(* the queues, the owner and the place of each thread consistent.          *)
(***************************************************************************)
THEOREM Invariance == CondSpec => []IndInv
  BY InitInv, NextInv, PTL DEF CondSpec

(***************************************************************************)
(* A thread waits in one place of one queue: whatever sys_cond_wait, the   *)
(* signals, a timeout and a load do, no thread is in the queues of the     *)
(* mutex and of the condition variable at once, or in one of them twice.   *)
(***************************************************************************)
THEOREM QueuesDisjoint == CondSpec => []OneQueue
<1>1. IndInv => OneQueue
  BY DEF IndInv, QueueInv
<1>2. QED
  BY <1>1, Invariance, PTL

(***************************************************************************)
(* The mutex is handed over and not released while threads wait for it:    *)
(* reown, sys_cond_wait and the signals leave no waiter with a free mutex. *)
(***************************************************************************)
THEOREM FreeHasNoWaiters == CondSpec => []WaitersHaveOwner
<1>1. IndInv => WaitersHaveOwner
  BY DEF IndInv, QueueInv
<1>2. QED
  BY <1>1, Invariance, PTL

(***************************************************************************)
(* After a load, a thread that slept in the queue of the mutex finds it    *)
(* taken by another thread and sleeps again: the ensure of sys_cond_wait   *)
(* holds, and g_to_sleep empties.                                          *)
(***************************************************************************)
THEOREM LoadedSleep == CondSpec => []LoadedMutexSleeps
<1>1. IndInv => LoadedMutexSleeps
  <2> SUFFICES ASSUME IndInv, NEW t \in loading, call[t].name = "lock" \/ sstate[t] = "mutex"
               PROVE  exists /\ owner \notin {NoThread, t}
    BY DEF LoadedMutexSleeps
  <2>1. t \in Threads
    BY DEF IndInv, Types, ThreadsTypeOK
  <2>2. LoadInv(t)
    BY <2>1 DEF IndInv, ThreadsInv, ThreadInv
  <2>3. owner # NoThread /\ owner # t
    BY <2>2 DEF LoadInv
  <2>4. QED
    BY <2>3 DEF IndInv, QueueInv
<1>2. QED
  BY <1>1, Invariance, PTL

(***************************************************************************)
(* Without savestates: mutual exclusion.  The owner is the only thread     *)
(* that holds the mutex or may return from sys_mutex_lock or sys_cond_wait *)
(* with it, across recursive locks, waits, signals and timeouts.           *)
(***************************************************************************)
THEOREM MutualExclusion ==
  ASSUME Savestates = FALSE
  PROVE  CondSpec => []CondOwnerMatchesHolder
<1>1. IndInv => CondOwnerMatchesHolder
  <2> SUFFICES ASSUME IndInv PROVE CondOwnerMatchesHolder
    OBVIOUS
  <2>1. owner \in Threads \union {NoThread} /\ NoThread \notin Threads
    BY Constants DEF IndInv, Types
  <2>2. \A t \in Threads : PlainInv(t)
    BY DEF IndInv, ThreadsInv
  <2>3. \A t \in Threads : t \in Holders <=> owner = t
    BY <2>2 DEF Holders, PlainInv, Given
  <2>4. Holders \subseteq Threads
    BY DEF Holders
  <2>5. QED
    BY <2>1, <2>3, <2>4 DEF CondOwnerMatchesHolder
<1>2. QED
  BY <1>1, Invariance, PTL

(***************************************************************************)
(* Without savestates: a thread that was handed the mutex, by an unlock, a *)
(* wait, a signal or a timeout, is awake or finds its sleep cancelled.     *)
(***************************************************************************)
THEOREM WakeupKept ==
  ASSUME Savestates = FALSE
  PROVE  CondSpec => []NoLostWakeup
<1>1. IndInv => NoLostWakeup
  <2> SUFFICES ASSUME IndInv, NEW t \in Threads, Granted(t) \/ CondGranted(t)
               PROVE  /\ pc[t] = "wait" => run[t] # "asleep"
                      /\ pc[t] = "lock_sleep" => t \in cancelSleep
    BY DEF NoLostWakeup
  <2>1. PlainInv(t)
    BY DEF IndInv, ThreadsInv
  <2>2. QED
    BY <2>1 DEF PlainInv, Given
<1>2. QED
  BY <1>1, Invariance, PTL

(***************************************************************************)
(* Without savestates: the recursion count that sys_cond_wait sets aside   *)
(* is what the thread gets back, and lock_count is always that of the      *)
(* owner.                                                                  *)
(***************************************************************************)
THEOREM CountKept ==
  ASSUME Savestates = FALSE
  PROVE  CondSpec => []CountRestored
<1>1. IndInv => CountRestored
  <2> SUFFICES ASSUME IndInv PROVE CountRestored
    OBVIOUS
  <2>1. owner \in Threads \union {NoThread}
    BY DEF IndInv, Types
  <2>2. \A t \in Threads : PlainInv(t)
    BY DEF IndInv, ThreadsInv
  <2>3. \A t \in Threads : CondWaiting(t) => count[t] + 1 = held[t]
    BY <2>2 DEF PlainInv
  <2>4. owner # NoThread =>
          lock_count + 1 = (IF Granted(owner) \/ CondGranted(owner) THEN 1 ELSE held[owner])
    BY <2>1, <2>2 DEF PlainInv, Given
  <2>5. QED
    BY <2>3, <2>4 DEF CountRestored
<1>2. QED
  BY <1>1, Invariance, PTL

(***************************************************************************)
(* Without savestates: the types, with the limit of what a thread may be   *)
(* told: never more than MaxCount + 1 locks.                               *)
(***************************************************************************)
THEOREM TypeCorrect ==
  ASSUME Savestates = FALSE
  PROVE  CondSpec => []CondTypeOK
<1>1. IndInv => CondTypeOK
  <2> SUFFICES ASSUME IndInv PROVE CondTypeOK
    OBVIOUS
  <2>1. ASSUME NEW t \in Threads PROVE held[t] \in 0 .. MaxCount + 1
    <3>0. Known(t)
      BY Own
    <3>1. PlainInv(t) /\ held[t] \in Nat /\ count[t] \in 0 .. MaxCount /\ lock_count \in 0 .. MaxCount
      BY <3>0 DEF Known
    <3>2. pc[t] \in Labels
      BY DEF IndInv, Types
    <3>3. CASE call[t].name = "cond_wait"
      <4>1. CondWaiting(t)
        BY <3>1, <3>2, <3>3 DEF PlainInv, Labels, WaitLabels, CondWaiting, InWaitLoop
      <4>2. QED
        BY <4>1, <3>1, Constants, SMT DEF PlainInv
    <3>4. CASE call[t].name = "lock"
      BY <3>1, <3>4, Constants, SMT DEF PlainInv
    <3>5. CASE call[t].name \notin {"lock", "cond_wait"}
      <4>1. ~Given(t)
        BY <3>5 DEF Given, Granted, CondGranted, CondWaiting
      <4>2. QED
        BY <4>1, <3>1, <3>5, Constants, SMT DEF PlainInv
    <3>6. QED
      BY <3>3, <3>4, <3>5
  <2>2. held \in [Threads -> 0 .. MaxCount + 1]
    BY <2>1 DEF IndInv, Types
  <2>3. QED
    BY <2>2 DEF IndInv, Types, CondTypeOK, Calls
<1>2. QED
  BY <1>1, Invariance, PTL

=============================================================================
