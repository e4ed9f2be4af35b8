# Formal verification of the LV2 synchronisation kernel

RPCSX is an emulator of the PS3 and the PS4. Its PS3 side (derived from RPCS3)
reimplements the LV2 kernel of the console in `kernel/cellos/`: guest threads of
the PPU run as host threads, call the kernel, and block in it. The
synchronisation objects of that kernel are short programs in which everything
is subtle: fast paths that swap a word without a lock, sleep queues that are
changed under a host mutex or by compare-and-swap, timeouts that race the thread
that would have woken the waiter, and *savestates*, which stop every thread
wherever it is, write the objects to a file, and later start again from there.

This directory holds TLA+ models of these objects, of the thread scheduler they
use and of the host lock under them, translated from the source and
model-checked with TLC. The safety properties are also proved with TLAPS, for any
number of threads, and so is that the system calls of the semaphore implement an
abstract one.

## The system and its parts

| Part | Code | Here |
|---|---|---|
| Sleep queues, thread states (`lv2_obj`) | `kernel/cellos/include/cellos/sys_sync.h`, `kernel/cellos/src/lv2.cpp` | `Lv2Obj` (partly) |
| Semaphore | `sys_semaphore.cpp` | `Lv2Semaphore`, `Semaphore` |
| Reader-writer lock | `sys_rwlock.cpp` | `Lv2Rwlock` |
| Event flag | `sys_event_flag.cpp` | `Lv2EventFlag` |
| Mutex | `sys_mutex.cpp`, `sys_mutex.h` | `Lv2Mutex` |
| Condition variable | `sys_cond.cpp` | `Lv2Cond` |
| Event queues and ports | `sys_event.cpp` | `Lv2EventQueue` (partly) |
| Thread scheduler | `lv2.cpp` 1575-2526 | `Lv2Sched` (partly) |
| Host lock | `rpcs3/util/mutex.cpp`, `mutex.h` | `SharedMutex` |
| Light-weight mutex and condition variable | `sys_lwmutex.cpp`, `sys_lwcond.cpp`, `ps3fw/sys_lw*_.cpp` | not modelled |
| Thread life cycle, timers | `sys_ppu_thread.cpp`, `sys_timer.cpp` | not modelled |
| PS4 kernel and its locks | `kernel/orbis/src/`, `rx/src/Shared*.cpp` | not modelled |
| SPU groups, memory, processes, files, sockets, devices | rest of `kernel/cellos/src/` | not modelled |
| PPU/SPU execution, RSX, audio, NP, HLE libraries, loaders, front ends | `rpcs3/`, `ps3fw/`, `rpcsx/`, `android/` | not modelled |

`PROJECT.json` lists all parts with their files and the reason where there is no
module.

How they interact. A guest thread enters a system call, finds the object in the
id manager, and works on it inside a callback of the id manager that excludes
its destruction. If it has to wait it puts itself into the object's sleep queue
(`emplace`) and leaves the scheduler's run queue (`sleep`). Another thread takes
it off the queue (`schedule`, `unqueue`), leaves the outcome in its registers or
in the object, and puts it back in the run queue (`awake`); later the scheduler
grants it the processor (`schedule_all`), which sets `cpu_flag::signal`, and the
wait loop of the system call ends. A timeout works the other way round: the
thread awakes itself, waits until it is scheduled, takes the host mutex and
looks whether it is still queued. A savestate sets a stop flag on every thread; a
thread that finds itself still queued leaves its call with `cpu_flag::again` and
will repeat it after the load, and so does a thread that meets such a thread in
a queue it wanted to serve.

## The modules

Each module of an LV2 object models one object used by the threads of the constant
`Threads`. A system call is a sequence of steps; the variable `pc` says where each thread
is. A step is one atomic operation on a shared word or one critical section of
the object's host mutex. Where code without the lock can run in the middle of a
critical section and notice, the section is split and `mutex` names the thread
that is inside. What the split has to be is not a matter of taste: but for the mutex's, a sleep
queue is changed only under the host mutex, so two changes of it commute with
everything that other threads can do meanwhile, whereas a counter or a pattern
that fast paths change may not be assumed constant between two steps.

**`Lv2Obj`** has the sleep queue (a sequence, oldest waiter first; the code
keeps a list with the newest first and searches it from the end), `schedule`
(FIFO, or the oldest of the most urgent), and the life of a thread as an object
sees it: `run` is `"running"`, `"ready"` (in the run queue, waiting for
`schedule_all`) or `"asleep"`; `signal` is `cpu_flag::signal`; `stopped`,
`loading` and the label `"again"` carry the savestate protocol. The operators
`wait_timeout`, `cpu_sleep`, `check_state`, `schedule_all`, `stop` and `load` are
the steps that all wait loops share.

**`Lv2Semaphore`**. `val` counts permits, or minus the waiters. `wait` and
`post` load it, try to swap it, and take the mutex only if that fails. The
critical section of `post` is split after the update of `val`
(`PostLock`, `PostWake`, `PostAwakeAll`). **`Semaphore`** is the abstract
semaphore: permits, the waiters with the order in which they came (a set and a
relation: what is promised is who is preferred to whom, not a list), and the threads
that were granted a permit; `post` hands its permits in one step to the waiters that
fewer others than it has permits are preferred to (`First`).
**`Lv2SemaphoreRefinement`** has the refinement mapping: the waiters that a `post` in
progress still owes a wake-up have already been granted their permit.

**`Lv2Rwlock`**. The 64-bit word `owner` is a record of its three parts (writer,
number of readers, low bit "threads wait"). `held` is a history variable: what
the calls have told each thread. A thread does not lock what it holds: the guest
that read-locks twice is left out.

**`Lv2EventFlag`**. A pattern is a set of bits. `wait`, `trywait` and `clear`
change it without a lock; `set` computes under the mutex whom to wake
(`ProcessWaiters`, one `Visit` for each waiter in service order, until nothing is
left) and publishes the result with a compare-and-swap, or starts over. The registers `gpr[3]` and
`gpr[6]` of the waiters are state, because `set` leaves decisions in them that
outlive an abandoned attempt.

**`Lv2Mutex`**. `owner` and `sq` share one word that is changed by
compare-and-swap only. A thread queues itself in one step and sleeps in another,
without the host mutex; `cancelSleep` is the mark (`cancel_sleep = 2`) that an
unlock in between leaves for the sleep to find.

**`Lv2Cond`** extends `Lv2Mutex`: a condition variable and its mutex form one
system, since a signal gives its waiter the mutex or moves it to the queue of
the mutex, and so does a timeout. `count` is the recursion count that
`sys_cond_wait` keeps in a local variable, `sstate` what it leaves for the
savestate. The order in which `signal_all` serves the waiters is characterised
(`ByPriority`: sorted, the oldest first among equals) instead of computed, and
`CondSignalAll` serves them all in one step; in the code a thread that calls
`sys_mutex_lock` can queue between two of them, which makes a difference only to the
order of arrivals in `sq`. A wait whose timeout is over sleeps on without one
(`timeout = 0`); if it is then saved and loaded, the repeated call has its timeout
again, as a signalled waiter has that was saved in the queue of the mutex, and the
model leaves the second timeout out. A call does not record the target of
`signal_to`: after a load it may find any waiter, or not the one it is for.

**`Lv2EventQueue`** has a queue of type `SYS_PPU_QUEUE` and a port connected to
it. `events` is the bounded list, `pq` the receivers that wait, `gpr4` stands for
the registers `gpr[4..7]` in which a receiver finds its event. Every critical
section is one step. A sender that has woken a more urgent receiver waits for its
turn before it returns (`Send`, then `SendRequeued`), and `is_busy` protects the
port meanwhile. `HostSend` is any sender that is not a PPU thread, such as the timer
thread. `DestroyForce` cancels the waiters; `Destroy` is refused while there are any.

**`SharedMutex`** is `shared_mutex`, the reader-writer lock that guards every host
critical section. `m_value` is the word: a reader adds 1, a writer or a waiter
`c_one`, and `c_sig` is the notification bit. A step is one atomic operation on
the word; `asleep` and `old` model the futex wait, which returns at once when the
word is not what the waiter has read. `seen` is a history variable: those who held
the lock when `lock_unlock` was called and have not left it since. The layout of the word is a parameter.

**`Lv2Sched`** is the scheduler that `Lv2Obj` stands for: the run queue `g_ppu`,
priorities, `yield`, the flag `suspend` with its acknowledgement (`ack_suspend`,
`g_pending`), and the timeouts in `g_waiting`. Here the objects are reduced to the
set `queued` of threads in some sleep queue. A thread runs guest code until it
polls its state, so a thread that has lost its place keeps running for a while;
`sleeping` is the local variable `cpu_sleep_called` of `check_state`. A step is one
critical section of `g_mutex` or one atomic operation on a thread's state. One
call awakes at most two threads, which is the bound of `emplace_all`. An entry of
`g_waiting` may expire at any moment, those before it first. `Lv2Obj` says of a thread in the run queue
only whether it has been scheduled since it was awoken; preemption is in
`Lv2Sched` alone.

**`MC*`** instantiate these for TLC (`SharedMutex` needs none). **`Lv2ObjProofs`**,
**`Lv2SemaphoreProofs`**, **`Lv2RwlockProofs`**, **`Lv2CondProofs`**,
**`Lv2EventFlagProofs`**, **`Lv2EventQueueProofs`**, **`SharedMutexProofs`** and
**`Lv2SchedProofs`** hold the proofs.

Left out on purpose: calls that only return an error and pure getters have no
action; IPC keys (an object shared by several processes is one object here); the
spin of 50 turns before a wait; names and logging. `ensure(...)` is a guard, with
the comment that the program aborts otherwise, and where the condition depends on
other threads it is also an invariant, so that the guard hides nothing. After a
load the waiters queue again in any order; the code keeps the order under
`SYS_SYNC_PRIORITY` only. Preemption belongs to the scheduler: an object does not
notice a preempted thread, which runs on in its system call until it sleeps.

## What is checked

All passing runs explore their whole state space, within the two constraints named
below. Three threads of two
priorities are enough for the cases at stake: one thread that acts, two that
wait (so that order matters, and both the more urgent and the older one can be
chosen), a third that comes in between. Two threads of equal priority are
symmetric. The permits are bounded by `MaxVal` (`lv2_sema::max`, 2), so that a
post can be refused, can be consumed wholly by waiters, partly, or not at all;
the recursion limit `MaxCount` stands for 0xffffffff and is reached; two bits
are the least with which a pattern can be met in part; an event queue of size 1
is full after one event. `sema_savestate` and `cond_savestate` have two threads,
which is enough for a savestate that comes between a waiter and the one that
wakes it. In `evflag` a savestate finds the third thread in guest code, and no
timeout comes in between (`TwoInSavestate`). In `equeue` a savestate is made while
the port is there and at most one receive with a timeout is under way, and not in
the middle of a send, which is the subject of `equeue_resend` (`PlainSavestate`,
which only keeps the run short: the properties are proved without it). The host lock has three threads and a word with
room for two readers, so that the limit is met. The scheduler has four threads for two hardware threads
(the default of `ppu_threads`), so that there is always one that has to stop; one
thread waits with timeouts and one changes its priority, to keep the state space
small.

In the models of LV2 objects all threads may wait without a timeout, so deadlock
is not an error and is not checked, except in `equeue`, where there is none. That nobody waits for something that is there is a property of its
own in each module. In `smutex` and `sched` deadlock is checked.

| Run | Question | Result |
|---|---|---|
| `sema` | Do the system calls implement the abstract semaphore, in the order the protocol promises, with timeouts racing posts, destroy and create? | yes |
| `sema_savestate` | Do counter and queue agree, is no wake-up lost, and do loaded waiters sleep again, whenever a savestate is made? Does a granted wait return, a load complete? | yes |
| `rwlock` | Does `owner` tell who holds the lock? Does nobody wait for a free lock? Are readers not stranded when the writers give up, and do they not overtake a writer? Is a waiting writer served? | yes |
| `rwlock_savestate` | Do loaded waiters find the lock taken? | yes |
| `equeue` | Is no event left in the list while a thread waits, and is the list never overfull? Is a receiver that was given an event or cancelled awake, and does the guest get that very answer, with `CELL_OK` if and only if there is an event (but for `EarlyReturn`, see below)? Does a port in use stay connected? | yes |
| `equeue_resend` | Is the event of a sender that is stopped for a savestate sent once? | no, see below |
| `evflag` | Does no satisfied thread sleep, does every woken one have its answer, does `set` neither revive a cleared bit nor leave a consumed one, and does each retry of `set` follow a change of the pattern? Do loaded waiters sleep again? | yes |
| `evflag_atomic` | Does `set` wake whom one pass at the moment of its atomic operation would wake? | no, see below |
| `cond` | Mutual exclusion across lock, wait and signal, one queue per thread, no free mutex with waiters, no wake-up lost between queueing and sleeping, recursion count restored; does a signalled or timed-out wait return? | yes |
| `cond_savestate` | Does a thread that slept for the mutex find it taken after a load? | yes |
| `smutex` | Is a writer alone? Is no signal lost between reading the word and sleeping on it? Does `lock_unlock` wait for those that held the lock? Does a free lock not stay so while a thread waits? | yes |
| `sched` | Is `g_pending` the number of threads that have yet to stop, do at most `ppu_threads` run guest code, do the most urgent ones have the places, is nothing of an earlier wait left when a thread comes to sleep? Does a thread that keeps its place run? | yes |

The type invariants document the state and are not among the properties of a run, except
that of the event queue, which has the bound of the list; they are proved (that of the scheduler is `Typing` in `Lv2SchedProofs`, that of the
condition variable without savestates).

Where a property does not hold in general, the run says under which conditions
it does. With savestates a stopped timed waiter can leave its wait loop on the
signal that its own `check_state` has caused. So the semaphore may return
`CELL_OK` without a permit (`sema` runs without savestates), and the lock words of
mutex and rwlock need not agree with what the threads were told (the properties
that compare the two are checked without savestates as well). The event queue may
return `CELL_OK` without an event, where the comment before its wait loop says that
the "registers must contain event data" unless the receive was cancelled
(`sys_event.cpp:475`); the thread has left and is still queued until the load. This
is the one case, `EarlyReturn`, that
`AnswerReachesGuest` excludes, and why `NoIdleEvent` allows that a thread in the
queue has left if it is stopped. `ReadersNotStranded`, and with it `ensure(!rwlock->rq)` in `runlock`,
also needs that there are no savestates: after a load a reader can queue behind
the low bit before the timed-out writer for which the bit was saved. So does
`CountRestored`: `sys_cond_wait` resets `lock_count` before it finds that the next
owner of the mutex has left for a savestate, and repeats the call later with the
count lost. And in `rwlock_savestate` the step `WLockRecheckStuck` is reached: the
loop by which the last writer to give up wakes the blocked readers takes the same
stopped reader for ever, since `schedule` does not unlink a thread with
`cpu_flag::again`.

`evflag_atomic` uses five threads with fixed roles, since the case takes three
waiters, one `set` and one `clear`. Under `SYS_SYNC_PRIORITY` a thread may rightly
starve, so that the properties about being served are stated for the threads that
no other is preferred to (`Urgent`).

### Fairness

* `WF(Step(t))`: the host runs every thread. `SF` where a step waits for a host
  mutex or for a compare-and-swap: the mutex goes to a thread that keeps asking.
  A timeout is a step of the thread that waits, so it comes.
* `WF(Schedule(t))`: the scheduler gets round to every ready thread. This is an
  assumption about the guest (a more urgent thread blocks sooner or later), not a
  consequence of the code. The condition variable joins it with the fairness of
  the steps: a thread that can go on or be scheduled does.
* `WF` or `SF(Unlock(t))` where a lock is to be served: holders unlock, at every
  level of a recursive lock.
* `SF(WaitStopped(t))` in the semaphore: the wait loop looks for the stop flag
  each time before it waits again.
* `WF(Step(t))` in `SharedMutex`: the host runs every thread, and nobody keeps the
  lock for ever. `WF(Proceed(t))` in `Lv2Sched`: a thread polls its state in guest
  code, its wait loop sees a flag, and `check_state` goes on; nobody has to awake
  another thread or to enter a system call.
* `Lv2EventFlag` and `Lv2EventQueue` are checked for safety only, without fairness.
* The entry into system calls is not fair, except for the threads in `g_to_sleep`
  after a load, which the emulator starts by itself.

### Disagreements between the code and what it says

Each has a run that expects the violation; `PROJECT.json` has the details.

* `sys_event_flag.cpp:319`, "Process all waiters in single atomic op": the verdict
  of an abandoned attempt stays in `gpr[3]` of waiters that the next attempt does
  not reach.
* `sys_event.cpp:736`, "Wait again on savestate load": a sender that is stopped
  after it has delivered its event is saved as runnable, so that its repeated call
  does not take the branch meant for it and sends the event again.

## What is proved

`Lv2SemaphoreProofs` proves, for every set of threads, every maximum and every
set of post counts (assumptions `Lv2Assumption`, `SemaAssumption`), with
timeouts, destroy, create and savestates:

* `TypeCorrect`: `Spec => [](TypeOK /\ ValueInRange)` for a finite set of threads:
  `val`, a signed 32-bit integer in the code, stays between minus the number of
  threads and the maximum. It follows from `QueueMatchesValue` and from the fact
  that a thread is queued once, so that the queue is no longer than there are
  threads (`QueueBounded`);
* `QueueMatches`: `Spec => []QueueMatchesValue`, the property `sema_savestate`
  checks: `val` never exceeds the maximum, and the queue holds minus `val` waiters
  besides those that a post in progress is about to wake. Both `ensure` of the
  file follow from it;
* `Wakeups`: `Spec => [](NoLostWakeup /\ SleepNotSignaled)`;
* `LoadedSleep`: `Spec => []LoadedThreadsSleep`.

None of these is inductive. The invariant that is, `IndInv` in `Lv2Semaphore`,
adds five conjuncts: `MutexInv` (only a post in its wake-up loop holds the mutex
between two steps, and no debt survives it), `QueueInv` (a thread is queued or
about to be awakened at most once, and where it can be meanwhile: in the wait
loop asleep, on its way out after a timeout, or stopped), `CasInv` (what a
compare-and-swap relies on still holds if it succeeds, and nobody waits on a
destroyed semaphore), `ThreadInv` (how the scheduler's state and `pc` fit, so that
a signal cannot leave the wait loop), and `LoadingInv` (what a load that is not
complete looks like). The proof has one lemma per action; `NextInv` combines them.
`Lv2ObjProofs` has the lemmas about sleep queues they rest on: what `Unlink`,
`emplace`, `unqueue` and `schedule` do to the set, the length and the uniqueness
of the waiters, for sequences of any length, and what appending one queue to
another leaves.

The second half of the module proves `Refinement`: `Spec => ImplementsSemaphore`, the
property of the run `sema`, if `Savestates = FALSE`. This is an assumption of the
theorem because with savestates it does not hold: a stopped waiter that has awakened
itself can return while it is still queued, and a later post gives it a permit. There
is one lemma per action. Most steps change nothing abstract (`UnseenStep`). A wait
that succeeds is `Acquire`, one that queues is `Block`, a timeout that finds its thread
queued is `Timeout`. A post is the abstract post at the moment it updates `val`: the
waiters it will wake are `First` of the queue for the debt `owed`, and each turn of its
loop takes the one that `schedule` picks, which is the first of them, and lowers the
debt by one, so that the set of the others stays what it was. That rests on lemmas
about orders and counting: `ArrivalOrders` (positions in a queue order its threads),
`PreferredCount` and `FirstSize` (in a finite ordered set there are n that fewer than n
others are preferred to), `ScheduleFirst` and `FirstRest` (to take the preferred one
leaves the first n - 1 of the rest). `Undisturbed` says what the lack of savestates
means: nobody is stopped or repeats a call. `NoDebtAfter` says that nothing is owed
once the mutex is free. Waits and posts that swap `val` without the mutex can come
between two turns of the loop; `WaitersKept` says that they leave the waiters alone.

`Lv2RwlockProofs` proves, for every set of threads and all priorities, with
timeouts, destroy, create and savestates:

* `TypeCorrect`: `Spec => []TypeOK`;
* `WaitersSeen`: `Spec => []WaitersAreSeen`;
* `LoadedSleep`: `Spec => []LoadedThreadsSleep`;
* `NoOvertake`: `Spec => ReadersDoNotOvertake`, an action property.

`WaitersAreSeen` alone is not inductive: a compare-and-swap in progress may carry
a stale word (`CasInv` says what it still guarantees when it succeeds), the last
reader drops the lock before it hands it over (`MutexInv`), and a load rebuilds the
queues one thread at a time behind a low bit that was saved (`LoadingInv`).
`CallInv`, `RunInv` and `SleepInv` say where a thread that is asleep can be.
The second half goes on, without savestates (`Savestates = FALSE` is an
assumption of these theorems; the run `rwlock` checks both on a small instance, and
with savestates both fail, see above):

* `OwnerMatches`: `Spec => []OwnerMatchesHolders`, mutual exclusion and the count of
  the readers;
* `NotStranded`: `Spec => []ReadersNotStranded`, and with it the `ensure` of `runlock`.

The invariant `HoldInv` adds that a thread is queued once and only in its wait loop,
that a thread handed the lock is awake, and what each thread was told before the call
it is in. The number of readers is a cardinality, so the set of readers is shown to
be finite along with it; the step that admits all queued readers at once adds the
length of the queue to the count because the queue has no duplicates.

`Lv2CondProofs` proves, for every set of threads, all priorities and every limit of
the recursion count, for a mutex and its condition variable together:

* `QueuesDisjoint`: `CondSpec => []OneQueue`;
* `FreeHasNoWaiters`: `CondSpec => []WaitersHaveOwner`;
* `LoadedSleep`: `CondSpec => []LoadedMutexSleeps`;
* without savestates `MutualExclusion` (`CondOwnerMatchesHolder`), `WakeupKept`
  (`NoLostWakeup`), `CountKept` (`CountRestored`) and `TypeCorrect` (`CondTypeOK`).

The inductive invariant is stated thread by thread. `ThreadInv` says where a thread
may be in its call, the two queues, the scheduler and a load; `PlainInv` adds, without
savestates, what it may believe: it owns the mutex exactly if it was told so outside
of `sys_cond_wait` or was handed it while it waited, and then `lock_count` is its own.
What a step can do to the other threads comes down to three cases, for each of which
the invariant of a thread is shown once: nothing (`SameThread`), a move from the queue
of the condition variable to that of the mutex (`MovedThread`), or the mutex itself
(`HandedThread`).

`Lv2EventQueueProofs` proves, for every set of threads, all priorities, every size of
the queue and every set of events, with timeouts, forced destruction and savestates:

* `TypeCorrect`: `Spec => []TypeOK`, with the bound of the list;
* `Awake`: `Spec => []AnsweredAwake`;
* `LoadedSleep`: `Spec => []LoadedThreadsSleep`;
* `BusyStaysConnected`: `Spec => BusyPortConnected`, an action property;
* `IdleEvent`: `Spec => []NoIdleEvent`;
* `AnswerReaches`: `Spec => AnswerReachesGuest`, an action property.

The invariant has the same form: `QueueInv` (the list and the waiters exclude each
other), `Busy` (`is_busy` is the number of senders in their second step), `ThreadInv`,
and `AnswerInv` (what the registers of a thread hold while it is queued and after it
was answered). A thread that leaves its wait loop on a signal was answered, unless it
is stopped: `ThreadInv` says that a thread in the queue that is not stopped is asleep
in its loop, and a thread that is asleep has no signal.

`Lv2EventFlagProofs` proves, for every set of threads, all priorities, every set of
bits, finite or not, and whatever waits, sets and clears are called with, with
timeouts, cancel, destroy, create and savestates, for flags of both types:

* `TypeCorrect`: `Spec => []TypeOK`;
* `NobodyReady`: `Spec => []NoReadyWaiter`;
* `WokenAnswered`: `Spec => []WokenHasAnswer`;
* `LoadedSleep`: `Spec => []LoadedThreadsSleep`;
* `ClearedStayCleared`, `ConsumedGo` and `RetriesEnd`, the action properties
  `ClearedBitsStayCleared`, `ConsumedBitsGo` and `RetriesUseUpBits`.

First comes what the loops of `set` compute. They are recursive functions over the
queue; each is shown to be well defined, and what it keeps is shown from the least
number of rounds after which it would fail (`LeastNatural`). `ProcessOutcome` says of
`ProcessWaiters`: a woken thread reports bits that satisfy it, and what it clears is
not left; a thread that is not woken is not satisfied by what is left; and every waiter
was looked at, unless some are woken and no bit is left. `RemoveQueue` says that the
removal loop takes the given threads off the queue and nothing else.

The invariant is stated thread by thread. `WaiterInv` says of a queued thread that
the pattern does not satisfy it, also while a `set` is at work, and that a `CELL_OK`
which an abandoned attempt has left in its registers comes with a pattern that satisfies
it. The latter is what makes `WokenHasAnswer` inductive although a later attempt need
not reach the thread. `ThreadInv` adds that the pattern only loses bits after `set` has
loaded it, since only `set` and `create` add any; so what it publishes is within what its
loop has left, and satisfies none of those who stay (`CommitFacts`). `LoadInv` says that
the threads a load waits for come first, and `SingleInv` that a flag for one waiter has
one, without which a loaded thread might find `CELL_EPERM` instead of sleeping. What a
step does to other threads is one of two cases: the thread stays where it is
(`KeptThread`) or is taken off the queue with an answer (`ReleasedThread`).

`SharedMutexProofs` proves, for every finite set of threads and every layout of
the word that has room for one count per thread (`SharedMutexAssumption`):

* `TypeCorrect`: `Spec => []TypeOK`, so that the word never wraps;
* `Exclusion`: `Spec => []MutualExclusion`;
* `NoLostSignal`: `Spec => []SignalReachesWaiter`;
* `UnlockWaits`: `Spec => UnlockSeen`.

Mutual exclusion is not inductive, because nothing in it says what the word is.
`WordInv` says it: 1 for each reader, `c_one` for each writer and each waiter, and
perhaps the bit. `OwnerInv` says that the right to the lock is in one place: with the
readers, with one writer, with one thread about to signal, or in the bit; and in one
of the last two whenever threads wait and nobody has the lock. `WakeInv` says that
while the bit is set some waiter is awake or about to be woken. `SeenInv` says that
the count with which `lock_unlock` compares is a lower bound of the present one as
long as one of those it waits for has the lock. The lemma `Moves` says how the
numbers of readers and of counted threads change when one thread changes its label.

`Lv2SchedProofs` proves, for every finite set of threads, all integer priorities and
every positive number of hardware threads (`SchedAssumption`, which also has the
threads start in a sorted run queue), with the bound of two threads awoken by one
call, which is part of the model:

* `Counted`: `Spec => []PendingCounts`;
* `UrgentFirst`: `Spec => []TopRuns`;
* `Bounded`: `Spec => []AtMostHw`;
* `CleanCalls`: `Spec => []CleanCall`.

The key is `Occupants`: the threads that are not suspended, or are and have not
said that they stopped. Their number never exceeds `ppu_threads`: as long as
`g_pending` is not 0 no thread joins them, and when it is 0 they are exactly the
threads with a place. `Places` adds what this needs (the queue is sorted and has
no duplicates, and only threads with a place are not suspended), `Running` that
guest code runs only in an occupant, `Calling` that `cpu_sleep` is not called from
guest code. The lemmas say what linking, unlinking and rotating do to a queue,
position by position (`LinkElements`, `UnlinkElements`, `RotateQueue`), and that
`awake` and `schedule_all`, given a sorted queue without duplicates, establish what
`Places` says (`AwakePlaces`, `ScheduleAllPlaces`). For `CleanCalls` the invariant
`Clean` is added: a thread has one timeout at most, and none while it is in the run
queue or notified (`TimeoutsFor`, which `UnregisterTimeout` keeps when a thread is
queued), and guest code runs without a signal or a notification. Its lemmas
`ScheduleClean` and `AwakeClean` use of the first invariant that a thread in guest
code is not among those that `schedule_all` signals, since it is not suspended or has
not said that it stopped.

Only model-checked: liveness (fairness and `ENABLED` are out of the prover's reach),
and the two disagreements above, which are counterexamples.

## Not modelled

What is here is the part of the emulator where the order of steps of several
threads decides about correctness and each step is small. Beyond it:

* The light-weight mutex and condition variable are half guest-side code that works
  on a structure in guest memory. Exit, join and detach of threads depend on the
  removal of ids and on the end of host threads; that exactly one of them removes
  the thread is a hazard listed without a property (the other one is the loop of
  `WLockRecheckStuck`, which the model reaches). Timers are host senders
  of the event queue, and what is theirs alone is about real time.
* Of event queues those for SPU threads, and of the scheduler the hints
  `cpu_flag::yield` and `preempt`, `usleep` and the deferred notification of host
  threads are left out. SPU groups need the execution of SPU programs.
* That `Lv2Sched` implements the thread states of `Lv2Obj` is neither checked nor
  proved: a thread that is preempted and scheduled again has a second signal in
  the one and none in the other.
* The PS4 kernel (`kernel/orbis`) and its locks are a system of their own.
* Memory: the range locks and reservations rest on the order of single host
  instructions, the mappings are accounting over a large address space.
* By far the most of the 700,000 lines are recompilers, graphics, codecs, network
  services, reimplemented firmware libraries, devices, loaders and front ends. They
  have little shared state that a small instance would show, or are input and
  output.
